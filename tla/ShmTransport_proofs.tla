-------------------------- MODULE ShmTransport_proofs --------------------------
(* The channel over shared memory, for any transmitters, dispatchers,      *)
(* levels, blocks and length of the ring. lock_num_ counts who is in a     *)
(* block (LockNumCounts) as long as nobody mapped the segment before it    *)
(* was constructed; that nobody then is in it is Fresh. What is read is    *)
(* whole because the buffer of a block with readers stays (Bufs), and not  *)
(* older than announced because a transmitter's messages only grow newer   *)
(* (Announced).                                                            *)
EXTENDS ShmTransport, SequenceTheorems, FiniteSetTheorems, TLAPS

Segments == 1..Len(shm)

Constructing == {"construct", "blocks"}
AtSegment == {"construct", "blocks", "count", "remap", "size", "remove", "lock",
  "trylock", "copy", "claim", "info", "seq", "destroy", "last", "overran"}
USE DEF Constructing, AtSegment

(* Where a Segment object has its state_ and its blocks.                   *)
Mapped ==
  /\ \A w \in Writers :
       /\ tx[w].seg \in 0..Len(shm)
       /\ tx[w].init \/ tx[w].pc \in AtSegment =>
            tx[w].seg \in Segments
       /\ tx[w].pc \in {"remove", "destroy", "last"} => ~tx[w].init
       /\ tx[w].pc \notin {"off", "idle", "destroy", "last", "crashed"} =>
            tx[w].sent \in 1..MaxMsgs
  /\ \A r \in Readers :
       /\ rx[r].seg \in 0..Len(shm)
       /\ rx[r].init \/ rx[r].pc \in {"remap", "load", "cas", "reading",
            "release", "destroy", "last"} => rx[r].seg \in Segments
       /\ rx[r].pc \in {"acquire", "remap", "load", "cas", "reading",
            "release"} => rx[r].info # None
       /\ rx[r].lock_num >= 0

(* Between its creation and its construction a segment is its creator's.   *)
Fresh ==
  /\ \A w \in Writers :
       tx[w].pc \in Constructing => ~shm[tx[w].seg].built
  /\ \A v, w \in Writers :
       tx[v].pc \in Constructing /\ tx[w].pc \in Constructing /\ tx[v].seg = tx[w].seg
         => v = w
  /\ \A s \in Segments : Clean(s) /\ ~shm[s].built =>
       /\ \A w \in Writers : tx[w].seg = s => tx[w].pc \in Constructing
       /\ \A r \in Readers : rx[r].seg # s

Bufs ==
  /\ \A s \in Segments : Whole(s) => \A b \in Blocks :
       shm[s].buf[b] = Torn => WritersIn(s, b) # {}
  /\ \A r \in Readers :
       rx[r].pc \in {"reading", "release"} /\ Whole(rx[r].seg) =>
         rx[r].copy = shm[rx[r].seg].buf[rx[r].info.block_index]
  /\ \A w \in Writers :
       tx[w].pc = "copy" /\ Overruns(w) => shm[tx[w].seg].spoiled

(* What is true of a notification for ever: its block was written, and     *)
(* has no older message of the same transmitter.                           *)
Announces(a) ==
  /\ a.seg \in Segments /\ a.msg[2] <= tx[a.msg[1]].sent
  /\ shm[a.seg].buf[a.block_index] # None
  /\ \A n \in Nat : shm[a.seg].buf[a.block_index] = <<a.msg[1], n>> => n >= a.msg[2]

Announced ==
  /\ \A i \in Slots : ring.infos[i] # None => Announces(ring.infos[i])
  /\ \A r \in Readers : rx[r].info # None => Announces(rx[r].info)
  /\ \A w \in Writers : tx[w].pc \in {"claim", "info"} => Announces(Info(w))

Inv == TypeOK /\ Mapped /\ Fresh /\ LockNumCounts /\ Bufs /\ Announced

-----------------------------------------------------------------------------
(* Levels and blocks *)

LEMMA LevelFacts ==
  /\ 1 \in Levels /\ Levels \subseteq Nat /\ 0 \notin Levels /\ 0 \in Blocks
  /\ \A l \in Levels : BlockNum[l] \in Nat \ {0} /\ BlockNum[l] <= BlockNum[1]
  /\ \A x \in Nat : Conf(x) \in Levels
  /\ \A l \in Levels : Conf(l) = l
  /\ 1 \in Sizes /\ Sizes \subseteq Nat /\ Levels \subseteq Sizes
  /\ \A x \in Nat, l \in Levels : x % BlockNum[l] \in Blocks
  /\ \A x \in Nat : x % BufLength \in Slots
<1>1. Levels = 1..Len(BlockNum) /\ Len(BlockNum) \in Nat \ {0}
  BY ConfAssumption, EmptySeq, LenProperties DEF Levels
<1>2. \A l \in Levels : BlockNum[l] \in Nat \ {0}
  BY <1>1, ConfAssumption
<1>3. ASSUME NEW l \in Levels PROVE BlockNum[l] <= BlockNum[1]
  <2>1. CASE l = 1
    BY <1>1, <1>2, <2>1
  <2>2. CASE l # 1
    <3>1. BlockNum[1] % BlockNum[l] = 0
      BY <1>1, <2>2, ConfAssumption
    <3>2. \A m, n \in Nat : m < n => m % n = m
      OBVIOUS
    <3>3. BlockNum[1] < BlockNum[l] => BlockNum[1] % BlockNum[l] = BlockNum[1]
      BY <1>1, <1>2, <3>2
    <3> QED
      BY <1>1, <1>2, <3>1, <3>3
  <2> QED
    BY <2>1, <2>2
<1>4. \A x \in Nat, n \in Nat \ {0} : x % n \in 0..(n - 1)
  OBVIOUS
<1>5. /\ \A x \in Nat : Conf(x) \in Levels
      /\ \A l \in Levels : Conf(l) = l
      /\ 1 \in Sizes /\ Sizes \subseteq Nat /\ Levels \subseteq Sizes
  BY <1>1 DEF Conf, Sizes
<1>6. ASSUME NEW x \in Nat, NEW l \in Levels PROVE x % BlockNum[l] \in Blocks
  <2>1. x % BlockNum[l] \in 0..(BlockNum[l] - 1)
    BY <1>2, <1>4
  <2> QED
    BY <1>1, <1>2, <1>3, <2>1 DEF Blocks
<1>7. \A x \in Nat : x % BufLength \in Slots
  BY <1>4, ConfAssumption DEF Slots
<1>8. 0 \in Blocks
  BY <1>1, <1>2 DEF Blocks
<1> QED
  BY <1>1, <1>2, <1>3, <1>5, <1>6, <1>7, <1>8

LEMMA Nones ==
  /\ None # Torn /\ None \notin Messages /\ None \notin Writers /\ Torn[1] = None
  /\ None \notin InfoType
  /\ \A w \in Writers : \A n : <<w, n>> # Torn
BY NoneAssumption DEF Torn

LEMMA InfoFacts ==
  ASSUME NEW a \in InfoType
  PROVE  /\ a.block_index \in Blocks /\ a.msg[1] \in Writers
         /\ a.msg[2] \in 1..MaxMsgs /\ a.seq \in Nat
BY DEF InfoType, Messages

-----------------------------------------------------------------------------
(* Steps that touch neither lock_num_ nor a buffer, unless they spoil it *)

QuietShm ==
  /\ shm' \in Seq(SegmentType) /\ Len(shm') = Len(shm)
  /\ \A s \in Segments :
       /\ shm'[s].lock_num = shm[s].lock_num
       /\ (shm'[s].built <=> shm[s].built)
       /\ (shm[s].early => shm'[s].early) /\ (shm[s].spoiled => shm'[s].spoiled)
       /\ \A b \in Blocks : \/ shm'[s].buf[b] = shm[s].buf[b]
                            \/ shm'[s].buf[b] = Torn /\ shm'[s].spoiled

(* No segment gets another size, and none is built.                        *)
SizesStay ==
  /\ \A s \in Segments : /\ Clean(s)' => Clean(s)
                         /\ shm'[s].ceiling = shm[s].ceiling
  /\ \A s \in Segments' : shm'[s].built => s \in Segments /\ shm[s].built

(* A Segment object may be mapped to: nothing, what it was mapped to, or   *)
(* the segment that the key names.                                         *)
MayMap(old, new) ==
  new \in {0, old} \/ (new \in Segments /\ (~shm[new].built => shm'[new].early))

LEMMA QuietUpdate ==
  ASSUME TypeOK, NEW s \in Segments, NEW e \in SegmentType,
         e.lock_num = shm[s].lock_num, e.built <=> shm[s].built,
         shm[s].early => e.early, shm[s].spoiled => e.spoiled,
         \A b \in Blocks : e.buf[b] = shm[s].buf[b] \/ (e.buf[b] = Torn /\ e.spoiled),
         shm' = [shm EXCEPT ![s] = e]
  PROVE  QuietShm /\ shm'[s] = e /\ (e.ceiling = shm[s].ceiling => SizesStay)
<1>1. shm \in Seq(SegmentType)
  BY DEF TypeOK
<1>2. /\ shm' \in Seq(SegmentType) /\ Len(shm') = Len(shm) /\ shm'[s] = e
      /\ \A u \in Segments : u # s => shm'[u] = shm[u]
  BY <1>1, ExceptSeq DEF Segments
<1>3. QuietShm
  BY <1>2 DEF QuietShm
<1>4. e.ceiling = shm[s].ceiling => SizesStay
  BY <1>2 DEF SizesStay, Clean, Segments
<1> QED
  BY <1>2, <1>3, <1>4

LEMMA QuietSame ==
  ASSUME TypeOK, UNCHANGED shm
  PROVE  QuietShm /\ SizesStay
BY DEF TypeOK, QuietShm, Segments, SizesStay, Clean

LEMMA SegmentAt ==
  ASSUME TypeOK, NEW s \in Segments
  PROVE  shm[s] \in SegmentType /\ shm[s].ceiling \in Levels \cup {0}
         /\ shm[s].lock_num \in [Blocks -> Int] /\ shm[s].buf \in [Blocks -> Contents]
         /\ shm[s].seq \in Blocks /\ shm[s].reference_count \in Nat
         /\ shm[s].early \in BOOLEAN /\ shm[s].built \in BOOLEAN
         /\ shm[s].spoiled \in BOOLEAN
<1>1. shm[s] \in SegmentType
  BY ElementOfSeq DEF TypeOK, Segments
<1> QED
  BY <1>1 DEF SegmentType

LEMMA WithEarly ==
  ASSUME NEW e \in SegmentType, NEW b \in BOOLEAN
  PROVE  /\ [e EXCEPT !.early = b] \in SegmentType
         /\ [e EXCEPT !.early = b].lock_num = e.lock_num
         /\ [e EXCEPT !.early = b].buf = e.buf
         /\ [e EXCEPT !.early = b].ceiling = e.ceiling
         /\ [e EXCEPT !.early = b].built = e.built
         /\ [e EXCEPT !.early = b].spoiled = e.spoiled
         /\ [e EXCEPT !.early = b].early = b
BY DEF SegmentType

LEMMA OpenedIs ==
  ASSUME TypeOK, key # 0
  PROVE  /\ key \in Segments /\ Conf(shm[key].ceiling) \in Levels
         /\ shm[key] \in SegmentType
         /\ \E e \in SegmentType :
              /\ e.lock_num = shm[key].lock_num /\ e.buf = shm[key].buf
              /\ e.ceiling = shm[key].ceiling /\ e.built = shm[key].built
              /\ e.spoiled = shm[key].spoiled
              /\ e.early = (shm[key].early \/ ~shm[key].built)
              /\ Opened = [shm EXCEPT ![key] = e]
<1>1. key \in Segments
  BY LenProperties DEF TypeOK, Segments
<1> DEFINE e == [shm[key] EXCEPT !.reference_count = @ + 1,
                                 !.early = @ \/ ~shm[key].built]
<1>2. shm[key] \in SegmentType /\ Conf(shm[key].ceiling) \in Levels
  BY <1>1, SegmentAt, LevelFacts
<1> DEFINE e1 == [shm[key] EXCEPT !.reference_count = @ + 1]
           b == shm[key].early \/ ~shm[key].built
<1>3. e1 \in SegmentType /\ e1.lock_num = shm[key].lock_num /\ e1.buf = shm[key].buf
      /\ e1.ceiling = shm[key].ceiling /\ e1.early = shm[key].early
      /\ e1.built = shm[key].built /\ e1.spoiled = shm[key].spoiled
  BY <1>2 DEF SegmentType
<1>4. [e1 EXCEPT !.early = b] \in SegmentType
      /\ [e1 EXCEPT !.early = b].lock_num = shm[key].lock_num
      /\ [e1 EXCEPT !.early = b].buf = shm[key].buf
      /\ [e1 EXCEPT !.early = b].ceiling = shm[key].ceiling
      /\ [e1 EXCEPT !.early = b].built = shm[key].built
      /\ [e1 EXCEPT !.early = b].spoiled = shm[key].spoiled
      /\ [e1 EXCEPT !.early = b].early = b
  <2>1. b \in BOOLEAN
    OBVIOUS
  <2> HIDE DEF b, e1
  <2> QED
    BY <1>3, <2>1, WithEarly
<1>5. Opened = [shm EXCEPT ![key] = e]
  BY <1>1, <1>2, LenProperties DEF TypeOK, Opened, SegmentType, Segments
<1>6. e = [e1 EXCEPT !.early = b]
  BY <1>3
<1>7. Opened = [shm EXCEPT ![key] = [e1 EXCEPT !.early = b]]
  BY <1>5, <1>6
<1> HIDE DEF e, e1, b
<1>8. [e1 EXCEPT !.early = b].early = (shm[key].early \/ ~shm[key].built)
  BY <1>4 DEF b
<1> QED
  BY <1>1, <1>2, <1>4, <1>7, <1>8

LEMMA OpenedQuiet ==
  ASSUME TypeOK, key # 0, shm' = Opened
  PROVE  /\ key \in Segments /\ Conf(shm[key].ceiling) \in Levels
         /\ QuietShm /\ SizesStay /\ \A old : MayMap(old, key)
<1>1. PICK e \in SegmentType :
        /\ e.lock_num = shm[key].lock_num /\ e.buf = shm[key].buf
        /\ e.ceiling = shm[key].ceiling /\ e.built = shm[key].built
        /\ e.spoiled = shm[key].spoiled
        /\ e.early = (shm[key].early \/ ~shm[key].built)
        /\ Opened = [shm EXCEPT ![key] = e]
  BY OpenedIs
<1>2. key \in Segments /\ Conf(shm[key].ceiling) \in Levels
  BY OpenedIs
<1>3. QuietShm /\ shm'[key] = e /\ SizesStay
  BY <1>1, <1>2, QuietUpdate
<1> QED
  BY <1>1, <1>2, <1>3 DEF MayMap

(* A dispatcher that counts up bytes of the first buffer.                  *)
LEMMA SpoiledQuiet ==
  ASSUME TypeOK, key # 0,
         shm' = [Opened EXCEPT ![key].buf[0] = Torn, ![key].spoiled = TRUE]
  PROVE  QuietShm /\ SizesStay
<1>1. PICK e \in SegmentType :
        /\ e.lock_num = shm[key].lock_num /\ e.buf = shm[key].buf
        /\ e.ceiling = shm[key].ceiling /\ e.built = shm[key].built
        /\ e.spoiled = shm[key].spoiled
        /\ e.early = (shm[key].early \/ ~shm[key].built)
        /\ Opened = [shm EXCEPT ![key] = e]
  BY OpenedIs
<1>2. key \in Segments /\ shm \in Seq(SegmentType) /\ DOMAIN shm = Segments
  BY OpenedIs, LenProperties DEF TypeOK, Segments
<1> DEFINE B == [e.buf EXCEPT ![0] = Torn]
           f == [e EXCEPT !.buf = B, !.spoiled = TRUE]
<1>3. B \in [Blocks -> Contents] /\ \A b \in Blocks : B[b] \in {e.buf[b], Torn}
  BY DEF SegmentType, Contents
<1>4. shm' = [shm EXCEPT ![key] = f]
  BY <1>1, <1>2 DEF SegmentType
<1> HIDE DEF B
<1>5. /\ f \in SegmentType /\ f.buf = B /\ f.spoiled = TRUE /\ f.lock_num = e.lock_num
      /\ f.ceiling = e.ceiling /\ f.built = e.built /\ f.early = e.early
  BY <1>3 DEF SegmentType
<1> HIDE DEF f
<1>6. /\ f.lock_num = shm[key].lock_num /\ (f.built <=> shm[key].built)
      /\ (shm[key].early => f.early) /\ (shm[key].spoiled => f.spoiled)
      /\ f.ceiling = shm[key].ceiling
  BY <1>1, <1>5
<1>7. \A b \in Blocks : f.buf[b] = shm[key].buf[b] \/ (f.buf[b] = Torn /\ f.spoiled)
  BY <1>1, <1>3, <1>5
<1> QED
  BY <1>2, <1>4, <1>5, <1>6, <1>7, QuietUpdate

LEMMA DecreasedQuiet ==
  ASSUME TypeOK, NEW s \in Segments, shm' = Decreased(s)
  PROVE  QuietShm /\ SizesStay
<1> DEFINE e == [shm[s] EXCEPT !.reference_count = IF @ = 0 THEN 0 ELSE @ - 1]
<1>1. shm[s] \in SegmentType
  BY SegmentAt
<1>2. e \in SegmentType /\ e.lock_num = shm[s].lock_num /\ e.buf = shm[s].buf
      /\ e.ceiling = shm[s].ceiling /\ e.early = shm[s].early
      /\ e.built = shm[s].built /\ e.spoiled = shm[s].spoiled
  BY <1>1 DEF SegmentType
<1>3. shm' = [shm EXCEPT ![s] = e]
  BY <1>1, LenProperties DEF TypeOK, Decreased, SegmentType, Segments
<1> HIDE DEF e
<1>4. /\ (e.built <=> shm[s].built) /\ (shm[s].early => e.early)
      /\ (shm[s].spoiled => e.spoiled)
      /\ \A b \in Blocks : e.buf[b] = shm[s].buf[b]
  BY <1>2
<1> QED
  BY <1>2, <1>3, <1>4, QuietUpdate

(* What the invariant says of blocks and buffers stays while nobody enters *)
(* or leaves a block.                                                      *)
LEMMA BlocksKept ==
  ASSUME Inv, QuietShm,
         \A s, b : WritersIn(s, b)' = WritersIn(s, b),
         \A s, b : ReadersIn(s, b)' = ReadersIn(s, b)
  PROVE  /\ LockNumCounts'
         /\ \A s \in Segments : Whole(s)' => \A b \in Blocks :
              shm'[s].buf[b] = Torn => WritersIn(s, b)' # {}
<1>1. shm \in Seq(SegmentType) /\ shm' \in Seq(SegmentType)
  BY DEF Inv, TypeOK, QuietShm
<1>2. DOMAIN shm = Segments /\ DOMAIN shm' = Segments
  BY <1>1, LenProperties DEF QuietShm, Segments
<1>3. \A s \in Segments : Clean(s)' => Clean(s)
  BY DEF QuietShm, Clean
<1>4. LockNumCounts'
  <2> SUFFICES ASSUME NEW s \in Segments, Clean(s)', NEW b \in Blocks
               PROVE  \/ /\ shm'[s].lock_num[b] = -1
                         /\ Cardinality(WritersIn(s, b)') = 1
                         /\ ReadersIn(s, b)' = {}
                      \/ /\ shm'[s].lock_num[b] = Cardinality(ReadersIn(s, b)')
                         /\ WritersIn(s, b)' = {}
    BY <1>2 DEF LockNumCounts
  <2>1. shm'[s].lock_num[b] = shm[s].lock_num[b]
    BY DEF QuietShm
  <2> QED
    BY <1>2, <1>3, <2>1 DEF Inv, LockNumCounts
<1>5. ASSUME NEW s \in Segments, Whole(s)', NEW b \in Blocks, shm'[s].buf[b] = Torn
      PROVE  WritersIn(s, b)' # {}
  <2>1. Whole(s) /\ shm[s].buf[b] = Torn
    BY <1>3, <1>5 DEF QuietShm, Whole
  <2> QED
    BY <2>1 DEF Inv, Bufs
<1> QED
  BY <1>4, <1>5

LEMMA StillWhole ==
  ASSUME Inv, QuietShm, NEW r \in Readers, rx[r].pc \in {"reading", "release"},
         rx'[r].seg = rx[r].seg, Whole(rx[r].seg)'
  PROVE  /\ Whole(rx[r].seg)
         /\ rx[r].copy = shm'[rx[r].seg].buf[rx[r].info.block_index]
<1>1. rx[r].seg \in Segments /\ rx[r].info \in InfoType
  BY DEF Inv, TypeOK, RxType, Mapped
<1>2. rx[r].info.block_index \in Blocks
  BY <1>1, InfoFacts
<1> DEFINE s == rx[r].seg
<1>3. Whole(s) /\ ~shm'[s].spoiled
  BY <1>1 DEF Whole, Clean, QuietShm
<1>4. shm'[s].buf[rx[r].info.block_index] = shm[s].buf[rx[r].info.block_index]
  BY <1>1, <1>2, <1>3 DEF QuietShm
<1> QED
  BY <1>3, <1>4 DEF Inv, Bufs

LEMMA AnnouncesKept ==
  ASSUME Inv, QuietShm, NEW a \in InfoType, Announces(a),
         \A w \in Writers : tx'[w].sent \in Nat /\ tx'[w].sent >= tx[w].sent
  PROVE  (a.seg \in Segments)' /\ a.msg[2] <= tx'[a.msg[1]].sent
         /\ shm'[a.seg].buf[a.block_index] # None
         /\ \A n \in Nat : shm'[a.seg].buf[a.block_index] = <<a.msg[1], n>>
                            => n >= a.msg[2]
<1>1. /\ a.msg[1] \in Writers /\ a.msg[2] \in Nat /\ tx[a.msg[1]].sent \in Nat
      /\ a.block_index \in Blocks /\ a.seg \in Segments
  BY InfoFacts DEF Inv, TypeOK, TxType, Announces
<1>2. \/ shm'[a.seg].buf[a.block_index] = shm[a.seg].buf[a.block_index]
      \/ shm'[a.seg].buf[a.block_index] = Torn
  BY <1>1 DEF QuietShm
<1>3. Torn # None /\ \A n \in Nat : Torn # <<a.msg[1], n>>
  BY <1>1, Nones
<1>4. (a.seg \in Segments)' /\ a.msg[2] <= tx'[a.msg[1]].sent
  BY <1>1 DEF Announces, QuietShm, Segments
<1> QED
  BY <1>2, <1>3, <1>4 DEF Announces

LEMMA InfoTyped ==
  ASSUME TypeOK, Mapped, NEW w \in Writers, tx[w].pc \in {"claim", "info"}
  PROVE  Info(w) \in InfoType
<1>1. /\ tx[w].index \in Blocks /\ tx[w].claim \in Nat /\ tx[w].seg \in Nat
      /\ tx[w].sent \in 1..MaxMsgs
  BY DEF TypeOK, TxType, Mapped
<1>2. <<w, tx[w].sent>> \in Messages
  BY <1>1 DEF Messages
<1> QED
  BY <1>1, <1>2 DEF Info, InfoType

(* A step of transmitter w to t that neither enters nor leaves a block and *)
(* announces nothing new.                                                  *)
QuietTx(w, t) ==
  /\ QuietShm /\ tx' = [tx EXCEPT ![w] = t] /\ rx' = rx /\ key' \in 0..Len(shm)
  /\ ring'.infos = ring.infos /\ ring' \in RingType
  /\ tx[w].pc \in {"copy", "overran"} <=> t.pc = "overran"
  /\ t.pc = "overran" => t.seg = tx[w].seg /\ t.index = tx[w].index
  /\ tx[w].pc \in Constructing <=> t.pc = "blocks"
  /\ t.pc = "blocks" => t.seg = tx[w].seg
  /\ t.pc \notin {"copy", "construct"}
  /\ t.pc \in {"claim", "info"} =>
       /\ tx[w].pc \in {"claim", "info"} /\ t.seg = tx[w].seg
       /\ t.index = tx[w].index /\ t.sent = tx[w].sent
  /\ t.sent >= tx[w].sent
  /\ MayMap(tx[w].seg, t.seg)
  /\ t.init \/ t.pc \in AtSegment => t.seg # 0
  /\ t.pc \in {"remove", "destroy", "last"} => ~t.init
  /\ t.pc \notin {"off", "idle", "destroy", "last", "crashed"} => t.sent \in 1..MaxMsgs

LEMMA TxQuiet ==
  ASSUME Inv, NEW w \in Writers, NEW t \in TxType, QuietTx(w, t)
  PROVE  Inv'
<1> USE DEF QuietTx
<1>1. /\ tx \in [Writers -> TxType] /\ tx' \in [Writers -> TxType]
      /\ tx'[w] = t /\ \A v \in Writers : v # w => tx'[v] = tx[v]
  BY DEF Inv, TypeOK
<1>2. Segments' = Segments /\ Len(shm) \in Nat /\ Len(shm') = Len(shm)
  BY LenProperties DEF Inv, TypeOK, QuietShm, Segments
<1>3. TypeOK'
  BY <1>1, <1>2 DEF Inv, TypeOK, QuietShm
<1>4. t.seg \in 0..Len(shm)
  BY <1>2 DEF MayMap, Inv, Mapped, Segments
<1>5. Mapped'
  <2>1. ASSUME NEW v \in Writers
        PROVE  /\ tx'[v].seg \in 0..Len(shm)
               /\ tx'[v].init \/ tx'[v].pc \in AtSegment =>
                    tx'[v].seg \in Segments
               /\ tx'[v].pc \in {"remove", "destroy", "last"} => ~tx'[v].init
               /\ tx'[v].pc \notin {"off", "idle", "destroy", "last", "crashed"} =>
                    tx'[v].sent \in 1..MaxMsgs
    <3>1. CASE v = w
      BY <1>1, <1>2, <1>4, <3>1 DEF Segments
    <3>2. CASE v # w
      BY <1>1, <3>2 DEF Inv, Mapped
    <3> QED
      BY <3>1, <3>2
  <2> QED
    BY <1>2, <2>1 DEF Inv, Mapped
<1>6. Fresh'
  <2>1. \A s \in Segments : (shm'[s].built <=> shm[s].built) /\ (Clean(s)' => Clean(s))
    BY DEF QuietShm, Clean
  <2>2. \A v \in Writers : tx'[v].pc \in Constructing =>
          /\ tx[v].pc \in Constructing /\ tx'[v].seg = tx[v].seg
          /\ tx[v].seg \in Segments
    BY <1>1 DEF Inv, Mapped
  <2>3. ASSUME NEW s \in Segments, Clean(s)', ~shm'[s].built
        PROVE  /\ \A v \in Writers : tx'[v].seg = s => tx'[v].pc \in Constructing
               /\ \A r \in Readers : rx[r].seg # s
    <3>1. Clean(s) /\ ~shm[s].built
      BY <2>1, <2>3
    <3>2. t.seg = s => t.pc \in Constructing
      BY <2>3, <3>1 DEF MayMap, Clean, Inv, Fresh, Segments
    <3> QED
      BY <1>1, <3>1, <3>2 DEF Inv, Fresh
  <2> QED
    BY <1>2, <2>1, <2>2, <2>3 DEF Inv, Fresh
<1>7. /\ \A s, b : WritersIn(s, b)' = WritersIn(s, b)
      /\ \A s, b : ReadersIn(s, b)' = ReadersIn(s, b)
  BY <1>1 DEF WritersIn, ReadersIn
<1>8. LockNumCounts' /\ Bufs'
  <2>1. ASSUME NEW r \in Readers, rx[r].pc \in {"reading", "release"}, Whole(rx[r].seg)'
        PROVE  rx[r].copy = shm'[rx[r].seg].buf[rx[r].info.block_index]
    BY <2>1, StillWhole
  <2>2. \A v \in Writers :
          tx'[v].pc = "copy" /\ Overruns(v)' => shm'[tx'[v].seg].spoiled
    BY <1>1 DEF Inv, Bufs, Mapped, Overruns, QuietShm
  <2> QED
    BY <1>2, <1>7, <2>1, <2>2, BlocksKept DEF Bufs
<1>9. Announced'
  <2>1. \A v \in Writers : tx'[v].sent \in Nat /\ tx'[v].sent >= tx[v].sent
    BY <1>1 DEF TxType
  <2>2. \A a \in InfoType : Announces(a) => Announces(a)'
    BY <2>1, AnnouncesKept DEF Announces
  <2>3. \A i \in Slots : (ring.infos[i] # None => Announces(ring.infos[i]))'
    BY <2>2, ZenonT(40) DEF Inv, TypeOK, RingType, Announced, Announces
  <2>4. \A r \in Readers : (rx[r].info # None => Announces(rx[r].info))'
    BY <2>2 DEF Inv, TypeOK, RxType, Announced, Announces
  <2>5. ASSUME NEW v \in Writers, tx'[v].pc \in {"claim", "info"}
        PROVE  Announces(Info(v))'
    <3>1. tx[v].pc \in {"claim", "info"} /\ tx'[v].seg = tx[v].seg
          /\ tx'[v].index = tx[v].index /\ tx'[v].sent = tx[v].sent
      BY <1>1, <2>5
    <3>2. Info(v) \in InfoType /\ Announces(Info(v))
      BY <3>1, InfoTyped DEF Inv, Announced
    <3>3. /\ Info(v)'.seg = Info(v).seg /\ Info(v)'.msg = Info(v).msg
          /\ Info(v)'.block_index = Info(v).block_index
      BY <3>1 DEF Info
    <3> QED
      BY <2>2, <3>2, <3>3 DEF Announces
  <2> QED
    BY <2>3, <2>4, <2>5 DEF Announced
<1> QED
  BY <1>3, <1>5, <1>6, <1>8, <1>9 DEF Inv

(* The same for a step of a dispatcher. It may hold a block throughout, of *)
(* which it may replace its copy with the same or find it changed.         *)
QuietRx(r, q) ==
  /\ QuietShm /\ rx' = [rx EXCEPT ![r] = q] /\ tx' = tx /\ ring' = ring
  /\ key' \in 0..Len(shm)
  /\ q.pc \in {"reading", "release"} <=> rx[r].pc \in {"reading", "release"}
  /\ q.pc \in {"reading", "release"} =>
       /\ q.seg = rx[r].seg /\ q.info = rx[r].info
       /\ Whole(rx[r].seg) => q.copy = rx[r].copy
  /\ q.info \in {None, rx[r].info} \/ \E j \in Slots : q.info = ring.infos[j]
  /\ MayMap(rx[r].seg, q.seg) /\ q.lock_num >= 0
  /\ q.init \/ q.pc \in {"remap", "load", "cas", "reading", "release",
       "destroy", "last"} => q.seg # 0
  /\ q.pc \in {"acquire", "remap", "load", "cas", "reading", "release"} =>
       q.info # None

LEMMA RxQuiet ==
  ASSUME Inv, NEW r \in Readers, NEW q \in RxType, QuietRx(r, q)
  PROVE  Inv'
<1> USE DEF QuietRx
<1>1. /\ rx \in [Readers -> RxType] /\ rx' \in [Readers -> RxType]
      /\ rx'[r] = q /\ \A u \in Readers : u # r => rx'[u] = rx[u]
  BY DEF Inv, TypeOK
<1>2. Segments' = Segments /\ Len(shm) \in Nat /\ Len(shm') = Len(shm)
  BY LenProperties DEF Inv, TypeOK, QuietShm, Segments
<1>3. TypeOK'
  BY <1>1, <1>2 DEF Inv, TypeOK, QuietShm
<1>4. q.seg \in 0..Len(shm)
  BY <1>2 DEF MayMap, Inv, Mapped, Segments
<1>5. Mapped'
  <2>1. ASSUME NEW u \in Readers
        PROVE  /\ rx'[u].seg \in 0..Len(shm)
               /\ rx'[u].init \/ rx'[u].pc \in {"remap", "load", "cas", "reading",
                    "release", "destroy", "last"} => rx'[u].seg \in Segments
               /\ rx'[u].pc \in {"acquire", "remap", "load", "cas", "reading",
                    "release"} => rx'[u].info # None
               /\ rx'[u].lock_num >= 0
    <3>1. CASE u = r
      BY <1>1, <1>2, <1>4, <3>1 DEF Segments
    <3>2. CASE u # r
      BY <1>1, <3>2 DEF Inv, Mapped
    <3> QED
      BY <3>1, <3>2
  <2> QED
    BY <1>2, <2>1 DEF Inv, Mapped
<1>6. \A s \in Segments : (shm'[s].built <=> shm[s].built) /\ (Clean(s)' => Clean(s))
  BY DEF QuietShm, Clean
<1>7. Fresh'
  <2>1. ASSUME NEW s \in Segments, Clean(s)', ~shm'[s].built
        PROVE  \A u \in Readers : rx'[u].seg # s
    <3>1. Clean(s) /\ ~shm[s].built
      BY <1>6, <2>1
    <3>2. q.seg # s
      BY <2>1, <3>1 DEF MayMap, Clean, Inv, Fresh, Segments
    <3> QED
      BY <1>1, <3>1, <3>2 DEF Inv, Fresh
  <2>2. \A v \in Writers : tx[v].pc \in Constructing => tx[v].seg \in Segments
    BY DEF Inv, Mapped
  <2> QED
    BY <1>2, <1>6, <2>1, <2>2 DEF Inv, Fresh
<1>8. /\ \A s, b : WritersIn(s, b)' = WritersIn(s, b)
      /\ \A s, b : ReadersIn(s, b)' = ReadersIn(s, b)
  BY <1>1 DEF WritersIn, ReadersIn
<1>9. LockNumCounts' /\ Bufs'
  <2>1. ASSUME NEW u \in Readers, rx'[u].pc \in {"reading", "release"},
               Whole(rx[u].seg)'
        PROVE  /\ rx'[u].seg = rx[u].seg
               /\ rx'[u].copy = shm'[rx'[u].seg].buf[rx'[u].info.block_index]
    <3>1. rx[u].pc \in {"reading", "release"} /\ rx'[u].seg = rx[u].seg
          /\ rx'[u].info = rx[u].info
      BY <1>1, <2>1
    <3>2. /\ Whole(rx[u].seg)
          /\ rx[u].copy = shm'[rx[u].seg].buf[rx[u].info.block_index]
      BY <2>1, <3>1, StillWhole
    <3>3. rx'[u].copy = rx[u].copy
      BY <1>1, <3>1, <3>2
    <3> QED
      BY <3>1, <3>2, <3>3
  <2>2. \A v \in Writers :
          tx'[v].pc = "copy" /\ Overruns(v)' => shm'[tx'[v].seg].spoiled
    BY DEF Inv, Bufs, Mapped, Overruns, QuietShm
  <2> QED
    BY <1>2, <1>8, <2>1, <2>2, BlocksKept DEF Bufs
<1>10. Announced'
  <2>1. \A v \in Writers : tx'[v].sent \in Nat /\ tx'[v].sent >= tx[v].sent
    BY DEF Inv, TypeOK, TxType
  <2>2. \A a \in InfoType : Announces(a) => Announces(a)'
    BY <2>1, AnnouncesKept DEF Announces
  <2>3. \A i \in Slots : (ring.infos[i] # None => Announces(ring.infos[i]))'
    BY <2>2 DEF Inv, TypeOK, RingType, Announced, Announces
  <2>4. q.info # None => q.info \in InfoType /\ Announces(q.info)
    BY DEF Inv, TypeOK, RxType, Announced
  <2>5. ASSUME NEW u \in Readers, rx'[u].info # None
        PROVE  Announces(rx[u].info)'
    <3>1. rx'[u].info \in InfoType /\ (u # r => Announces(rx[u].info) /\ rx'[u] = rx[u])
      BY <1>1, <2>5 DEF Inv, RxType, Announced
    <3>2. CASE u = r
      BY <1>1, <2>2, <2>4, <2>5, <3>2 DEF Announces
    <3>3. CASE u # r
      BY <2>2, <3>1, <3>3 DEF Announces
    <3> QED
      BY <3>2, <3>3
  <2>6. ASSUME NEW v \in Writers, tx'[v].pc \in {"claim", "info"}
        PROVE  Announces(Info(v))'
    <3>1. Info(v) \in InfoType /\ Announces(Info(v)) /\ Info(v)' = Info(v)
      BY <2>6, InfoTyped DEF Inv, Announced, Info
    <3> QED
      BY <2>2, <3>1 DEF Announces
  <2> QED
    BY <2>3, <2>5, <2>6 DEF Announced
<1> QED
  BY <1>3, <1>5, <1>7, <1>9, <1>10 DEF Inv

-----------------------------------------------------------------------------
(* The quiet steps of a transmitter *)

LEMMA TxTyped ==
  ASSUME Inv, NEW w \in Writers
  PROVE  /\ tx[w] \in TxType /\ tx[w].sent \in 0..MaxMsgs /\ MaxMsgs \in Nat
         /\ ring \in RingType
         /\ Segments = 1..Len(shm) /\ Len(shm) \in Nat /\ key \in 0..Len(shm)
         /\ 0 \notin Segments /\ tx[w].seg \in 0..Len(shm)
         /\ tx[w].init \/ tx[w].pc \in AtSegment =>
              tx[w].seg \in Segments
         /\ tx[w].pc \in {"remove", "destroy", "last"} => ~tx[w].init
         /\ tx[w].pc \notin {"off", "idle", "destroy", "last", "crashed"} =>
              tx[w].sent \in 1..MaxMsgs
BY ConfAssumption, LenProperties DEF Inv, TypeOK, TxType, Segments, Mapped

LEMMA CallsInv ==
  ASSUME Inv, NEW w \in Writers, NEW size \in Sizes,
         Enable(w) \/ Transmit(w, size)
  PROVE  Inv'
<1>1. CASE Enable(w)
  <2> DEFINE t == [tx[w] EXCEPT !.pc = "idle"]
  <2>1. QuietShm /\ MayMap(tx[w].seg, tx[w].seg) /\ key' \in 0..Len(shm)
    BY <1>1, QuietSame, TxTyped DEF Inv, Enable, MayMap
  <2>2. /\ t \in TxType /\ t.pc = "idle"
        /\ t.seg = tx[w].seg /\ t.init = tx[w].init
        /\ t.sent = tx[w].sent /\ t.index = tx[w].index
    BY TxTyped, LevelFacts DEF TxType
  <2>3. tx' = [tx EXCEPT ![w] = t]
    BY <1>1, TxTyped DEF Enable, TxType, Inv, TypeOK
  <2>4. /\ rx' = rx /\ ring'.infos = ring.infos /\ ring' \in RingType
    BY <1>1, TxTyped, LevelFacts DEF Enable, RingType
  <2>5. t.sent >= tx[w].sent
    BY <2>2, TxTyped
  <2>6. tx[w].pc \notin {"copy", "overran"} \cup Constructing
    BY <1>1 DEF Enable
  <2>7. /\ t.init \/ t.pc \in AtSegment => t.seg # 0
        /\ t.pc \in {"remove", "destroy", "last"} => ~t.init
        /\ t.pc \notin {"off", "idle", "destroy", "last", "crashed"} => t.sent \in 1..MaxMsgs
    BY <1>1, <2>2, TxTyped DEF Enable
  <2> HIDE DEF t
  <2>8. QuietTx(w, t)
    BY <1>1, <2>1, <2>2, <2>3, <2>4, <2>5, <2>6, <2>7 DEF QuietTx, Enable
  <2> QED
    BY <2>2, <2>8, TxQuiet
<1>2. CASE Transmit(w, size) /\ tx[w].init
  <2>0. PICK n \in 0..MaxMsgs : n > 0 /\ n = tx[w].sent + 1
    BY <1>2, TxTyped DEF Transmit
  <2> DEFINE t == [tx[w] EXCEPT !.sent = n, !.size = size, !.pc = "remap"]
  <2>1. QuietShm /\ MayMap(tx[w].seg, tx[w].seg) /\ key' \in 0..Len(shm)
    BY <1>2, QuietSame, TxTyped DEF Inv, Transmit, MayMap
  <2>2. /\ t \in TxType /\ t.pc = "remap"
        /\ t.seg = tx[w].seg /\ t.init = tx[w].init
        /\ t.sent = n /\ t.index = tx[w].index
    BY <2>0, TxTyped, LevelFacts DEF TxType
  <2>3. tx' = [tx EXCEPT ![w] = t]
    BY <1>2, <2>0, TxTyped DEF Transmit, TxType, Inv, TypeOK
  <2>4. /\ rx' = rx /\ ring'.infos = ring.infos /\ ring' \in RingType
    BY <1>2, <2>0, TxTyped, LevelFacts DEF Transmit, RingType
  <2>5. t.sent >= tx[w].sent
    BY <2>0, <2>2, TxTyped
  <2>6. tx[w].pc \notin {"copy", "overran"} \cup Constructing
    BY <1>2 DEF Transmit
  <2>7. /\ t.init \/ t.pc \in AtSegment => t.seg # 0
        /\ t.pc \in {"remove", "destroy", "last"} => ~t.init
        /\ t.pc \notin {"off", "idle", "destroy", "last", "crashed"} => t.sent \in 1..MaxMsgs
    BY <1>2, <2>0, <2>2, TxTyped DEF Transmit
  <2> HIDE DEF t
  <2>8. QuietTx(w, t)
    BY <1>2, <2>1, <2>2, <2>3, <2>4, <2>5, <2>6, <2>7 DEF QuietTx, Transmit
  <2> QED
    BY <2>2, <2>8, TxQuiet
<1>3. CASE Transmit(w, size) /\ ~tx[w].init
  <2>0. PICK n \in 0..MaxMsgs : n > 0 /\ n = tx[w].sent + 1
    BY <1>3, TxTyped DEF Transmit
  <2> DEFINE t == [tx[w] EXCEPT !.sent = n, !.size = size, !.pc = "open"]
  <2>1. QuietShm /\ MayMap(tx[w].seg, tx[w].seg) /\ key' \in 0..Len(shm)
    BY <1>3, QuietSame, TxTyped DEF Inv, Transmit, MayMap
  <2>2. /\ t \in TxType /\ t.pc = "open"
        /\ t.seg = tx[w].seg /\ t.init = tx[w].init
        /\ t.sent = n /\ t.index = tx[w].index
    BY <2>0, TxTyped, LevelFacts DEF TxType
  <2>3. tx' = [tx EXCEPT ![w] = t]
    BY <1>3, <2>0, TxTyped DEF Transmit, TxType, Inv, TypeOK
  <2>4. /\ rx' = rx /\ ring'.infos = ring.infos /\ ring' \in RingType
    BY <1>3, <2>0, TxTyped, LevelFacts DEF Transmit, RingType
  <2>5. t.sent >= tx[w].sent
    BY <2>0, <2>2, TxTyped
  <2>6. tx[w].pc \notin {"copy", "overran"} \cup Constructing
    BY <1>3 DEF Transmit
  <2>7. /\ t.init \/ t.pc \in AtSegment => t.seg # 0
        /\ t.pc \in {"remove", "destroy", "last"} => ~t.init
        /\ t.pc \notin {"off", "idle", "destroy", "last", "crashed"} => t.sent \in 1..MaxMsgs
    BY <1>3, <2>0, <2>2, TxTyped DEF Transmit
  <2> HIDE DEF t
  <2>8. QuietTx(w, t)
    BY <1>3, <2>1, <2>2, <2>3, <2>4, <2>5, <2>6, <2>7 DEF QuietTx, Transmit
  <2> QED
    BY <2>2, <2>8, TxQuiet
<1> QED
  BY <1>1, <1>2, <1>3

(* OpenOrCreate of a segment that exists, and OpenOnly.                    *)
LEMMA OpenInv ==
  ASSUME Inv, NEW w \in Writers,
         (OpenOrCreate(w) /\ key # 0) \/ OpenOnly(w)
  PROVE  Inv'
<1>1. CASE OpenOrCreate(w) /\ key # 0
  <2> DEFINE t == [tx[w] EXCEPT !.pc = "openonly"]
  <2>1. QuietShm /\ MayMap(tx[w].seg, tx[w].seg) /\ key' \in 0..Len(shm)
    BY <1>1, QuietSame, TxTyped DEF Inv, OpenOrCreate, MayMap
  <2>2. /\ t \in TxType /\ t.pc = "openonly"
        /\ t.seg = tx[w].seg /\ t.init = tx[w].init
        /\ t.sent = tx[w].sent /\ t.index = tx[w].index
    BY TxTyped, LevelFacts DEF TxType
  <2>3. tx' = [tx EXCEPT ![w] = t]
    BY <1>1, TxTyped DEF OpenOrCreate, TxType, Inv, TypeOK
  <2>4. /\ rx' = rx /\ ring'.infos = ring.infos /\ ring' \in RingType
    BY <1>1, TxTyped, LevelFacts DEF OpenOrCreate, RingType
  <2>5. t.sent >= tx[w].sent
    BY <2>2, TxTyped
  <2>6. tx[w].pc \notin {"copy", "overran"} \cup Constructing
    BY <1>1 DEF OpenOrCreate
  <2>7. /\ t.init \/ t.pc \in AtSegment => t.seg # 0
        /\ t.pc \in {"remove", "destroy", "last"} => ~t.init
        /\ t.pc \notin {"off", "idle", "destroy", "last", "crashed"} => t.sent \in 1..MaxMsgs
    BY <1>1, <2>2, TxTyped DEF OpenOrCreate
  <2> HIDE DEF t
  <2>8. QuietTx(w, t)
    BY <1>1, <2>1, <2>2, <2>3, <2>4, <2>5, <2>6, <2>7 DEF QuietTx, OpenOrCreate
  <2> QED
    BY <2>2, <2>8, TxQuiet
<1>2. CASE OpenOnly(w) /\ key = 0
  <2> DEFINE t == [tx[w] EXCEPT !.pc = "idle", !.recreating = FALSE]
  <2>1. QuietShm /\ MayMap(tx[w].seg, tx[w].seg) /\ key' \in 0..Len(shm)
    BY <1>2, QuietSame, TxTyped DEF Inv, OpenOnly, MayMap
  <2>2. /\ t \in TxType /\ t.pc = "idle"
        /\ t.seg = tx[w].seg /\ t.init = tx[w].init
        /\ t.sent = tx[w].sent /\ t.index = tx[w].index
    BY TxTyped, LevelFacts DEF TxType
  <2>3. tx' = [tx EXCEPT ![w] = t]
    BY <1>2, TxTyped DEF OpenOnly, TxType, Inv, TypeOK
  <2>4. /\ rx' = rx /\ ring'.infos = ring.infos /\ ring' \in RingType
    BY <1>2, TxTyped, LevelFacts DEF OpenOnly, RingType
  <2>5. t.sent >= tx[w].sent
    BY <2>2, TxTyped
  <2>6. tx[w].pc \notin {"copy", "overran"} \cup Constructing
    BY <1>2 DEF OpenOnly
  <2>7. /\ t.init \/ t.pc \in AtSegment => t.seg # 0
        /\ t.pc \in {"remove", "destroy", "last"} => ~t.init
        /\ t.pc \notin {"off", "idle", "destroy", "last", "crashed"} => t.sent \in 1..MaxMsgs
    BY <1>2, <2>2, TxTyped DEF OpenOnly
  <2> HIDE DEF t
  <2>8. QuietTx(w, t)
    BY <1>2, <2>1, <2>2, <2>3, <2>4, <2>5, <2>6, <2>7 DEF QuietTx, OpenOnly
  <2> QED
    BY <2>2, <2>8, TxQuiet
<1>3. CASE OpenOnly(w) /\ key # 0
  <2> DEFINE t == [tx[w] EXCEPT !.seg = key, !.init = TRUE,
                               !.conf = Conf(shm[key].ceiling),
                               !.pc = AfterOpen(w)]
  <2>1. QuietShm /\ MayMap(tx[w].seg, key) /\ key' \in 0..Len(shm)
        /\ Conf(shm[key].ceiling) \in Levels /\ key \in Nat
    BY <1>3, OpenedQuiet, TxTyped DEF Inv, OpenOnly
  <2>2. /\ t \in TxType /\ t.pc \in {"lock", "remap"}
        /\ t.seg = key /\ t.init = TRUE
        /\ t.sent = tx[w].sent /\ t.index = tx[w].index
    BY <2>1, TxTyped, LevelFacts DEF AfterOpen, TxType
  <2>3. tx' = [tx EXCEPT ![w] = t]
    BY <1>3, <2>1, TxTyped DEF OpenOnly, TxType, Inv, TypeOK
  <2>4. /\ rx' = rx /\ ring'.infos = ring.infos /\ ring' \in RingType
    BY <1>3, <2>1, TxTyped, LevelFacts DEF OpenOnly, RingType
  <2>5. t.sent >= tx[w].sent
    BY <2>1, <2>2, TxTyped
  <2>6. tx[w].pc \notin {"copy", "overran"} \cup Constructing
    BY <1>3 DEF OpenOnly
  <2>7. /\ t.init \/ t.pc \in AtSegment => t.seg # 0
        /\ t.pc \in {"remove", "destroy", "last"} => ~t.init
        /\ t.pc \notin {"off", "idle", "destroy", "last", "crashed"} => t.sent \in 1..MaxMsgs
    BY <1>3, <2>1, <2>2, TxTyped DEF OpenOnly
  <2> HIDE DEF t
  <2>8. QuietTx(w, t)
    BY <1>3, <2>1, <2>2, <2>3, <2>4, <2>5, <2>6, <2>7 DEF QuietTx, OpenOnly
  <2> QED
    BY <2>2, <2>8, TxQuiet
<1> QED
  BY <1>1, <1>2, <1>3 DEF OpenOnly

(* if (state_->need_remap()) Remap()                                       *)
LEMMA RemapToWriteInv ==
  ASSUME Inv, NEW w \in Writers, RemapToWrite(w)
  PROVE  Inv'
<1> DEFINE needed == shm[tx[w].seg].need_remap
<1>1. CASE ~needed
  <2> DEFINE t == [tx[w] EXCEPT !.pc = "size"]
  <2>1. QuietShm /\ MayMap(tx[w].seg, tx[w].seg) /\ key' \in 0..Len(shm)
    BY <1>1, QuietSame, TxTyped DEF Inv, RemapToWrite, MayMap
  <2>2. /\ t \in TxType /\ t.pc = "size"
        /\ t.seg = tx[w].seg /\ t.init = tx[w].init
        /\ t.sent = tx[w].sent /\ t.index = tx[w].index
    BY TxTyped, LevelFacts DEF TxType
  <2>3. tx' = [tx EXCEPT ![w] = t]
    BY <1>1, TxTyped DEF RemapToWrite, TxType, Inv, TypeOK
  <2>4. /\ rx' = rx /\ ring'.infos = ring.infos /\ ring' \in RingType
    BY <1>1, TxTyped, LevelFacts DEF RemapToWrite, RingType
  <2>5. t.sent >= tx[w].sent
    BY <2>2, TxTyped
  <2>6. tx[w].pc \notin {"copy", "overran"} \cup Constructing
    BY <1>1 DEF RemapToWrite
  <2>7. /\ t.init \/ t.pc \in AtSegment => t.seg # 0
        /\ t.pc \in {"remove", "destroy", "last"} => ~t.init
        /\ t.pc \notin {"off", "idle", "destroy", "last", "crashed"} => t.sent \in 1..MaxMsgs
    BY <1>1, <2>2, TxTyped DEF RemapToWrite
  <2> HIDE DEF t
  <2>8. QuietTx(w, t)
    BY <1>1, <2>1, <2>2, <2>3, <2>4, <2>5, <2>6, <2>7 DEF QuietTx, RemapToWrite
  <2> QED
    BY <2>2, <2>8, TxQuiet
<1>2. CASE needed /\ key = 0 /\ tx[w].size > tx[w].conf
  <2> DEFINE t == [tx[w] EXCEPT !.init = FALSE, !.seg = 0, !.pc = "crashed"]
  <2>1. QuietShm /\ MayMap(tx[w].seg, 0) /\ key' \in 0..Len(shm)
    BY <1>2, QuietSame, TxTyped DEF Inv, RemapToWrite, MayMap
  <2>2. /\ t \in TxType /\ t.pc = "crashed"
        /\ t.seg = 0 /\ t.init = FALSE
        /\ t.sent = tx[w].sent /\ t.index = tx[w].index
    BY TxTyped, LevelFacts DEF TxType
  <2>3. tx' = [tx EXCEPT ![w] = t]
    BY <1>2, TxTyped DEF RemapToWrite, TxType, Inv, TypeOK
  <2>4. /\ rx' = rx /\ ring'.infos = ring.infos /\ ring' \in RingType
    BY <1>2, TxTyped, LevelFacts DEF RemapToWrite, RingType
  <2>5. t.sent >= tx[w].sent
    BY <2>2, TxTyped
  <2>6. tx[w].pc \notin {"copy", "overran"} \cup Constructing
    BY <1>2 DEF RemapToWrite
  <2>7. /\ t.init \/ t.pc \in AtSegment => t.seg # 0
        /\ t.pc \in {"remove", "destroy", "last"} => ~t.init
        /\ t.pc \notin {"off", "idle", "destroy", "last", "crashed"} => t.sent \in 1..MaxMsgs
    BY <1>2, <2>2, TxTyped DEF RemapToWrite
  <2> HIDE DEF t
  <2>8. QuietTx(w, t)
    BY <1>2, <2>1, <2>2, <2>3, <2>4, <2>5, <2>6, <2>7 DEF QuietTx, RemapToWrite
  <2> QED
    BY <2>2, <2>8, TxQuiet
<1>3. CASE needed /\ key = 0 /\ ~(tx[w].size > tx[w].conf)
  <2> DEFINE t == [tx[w] EXCEPT !.init = FALSE, !.seg = 0, !.pc = "idle"]
  <2>1. QuietShm /\ MayMap(tx[w].seg, 0) /\ key' \in 0..Len(shm)
    BY <1>3, QuietSame, TxTyped DEF Inv, RemapToWrite, MayMap
  <2>2. /\ t \in TxType /\ t.pc = "idle"
        /\ t.seg = 0 /\ t.init = FALSE
        /\ t.sent = tx[w].sent /\ t.index = tx[w].index
    BY TxTyped, LevelFacts DEF TxType
  <2>3. tx' = [tx EXCEPT ![w] = t]
    BY <1>3, TxTyped DEF RemapToWrite, TxType, Inv, TypeOK
  <2>4. /\ rx' = rx /\ ring'.infos = ring.infos /\ ring' \in RingType
    BY <1>3, TxTyped, LevelFacts DEF RemapToWrite, RingType
  <2>5. t.sent >= tx[w].sent
    BY <2>2, TxTyped
  <2>6. tx[w].pc \notin {"copy", "overran"} \cup Constructing
    BY <1>3 DEF RemapToWrite
  <2>7. /\ t.init \/ t.pc \in AtSegment => t.seg # 0
        /\ t.pc \in {"remove", "destroy", "last"} => ~t.init
        /\ t.pc \notin {"off", "idle", "destroy", "last", "crashed"} => t.sent \in 1..MaxMsgs
    BY <1>3, <2>2, TxTyped DEF RemapToWrite
  <2> HIDE DEF t
  <2>8. QuietTx(w, t)
    BY <1>3, <2>1, <2>2, <2>3, <2>4, <2>5, <2>6, <2>7 DEF QuietTx, RemapToWrite
  <2> QED
    BY <2>2, <2>8, TxQuiet
<1>4. CASE needed /\ key # 0
  <2> DEFINE t == [tx[w] EXCEPT !.seg = key, !.pc = "size",
                               !.conf = Conf(shm[key].ceiling)]
  <2>1. QuietShm /\ MayMap(tx[w].seg, key) /\ key' \in 0..Len(shm)
        /\ Conf(shm[key].ceiling) \in Levels /\ key \in Nat
    BY <1>4, OpenedQuiet, TxTyped DEF Inv, RemapToWrite
  <2>2. /\ t \in TxType /\ t.pc = "size"
        /\ t.seg = key /\ t.init = tx[w].init
        /\ t.sent = tx[w].sent /\ t.index = tx[w].index
    BY <2>1, TxTyped, LevelFacts DEF TxType
  <2>3. tx' = [tx EXCEPT ![w] = t]
    BY <1>4, <2>1, TxTyped DEF RemapToWrite, TxType, Inv, TypeOK
  <2>4. /\ rx' = rx /\ ring'.infos = ring.infos /\ ring' \in RingType
    BY <1>4, <2>1, TxTyped, LevelFacts DEF RemapToWrite, RingType
  <2>5. t.sent >= tx[w].sent
    BY <2>1, <2>2, TxTyped
  <2>6. tx[w].pc \notin {"copy", "overran"} \cup Constructing
    BY <1>4 DEF RemapToWrite
  <2>7. /\ t.init \/ t.pc \in AtSegment => t.seg # 0
        /\ t.pc \in {"remove", "destroy", "last"} => ~t.init
        /\ t.pc \notin {"off", "idle", "destroy", "last", "crashed"} => t.sent \in 1..MaxMsgs
    BY <1>4, <2>1, <2>2, TxTyped DEF RemapToWrite
  <2> HIDE DEF t
  <2>8. QuietTx(w, t)
    BY <1>4, <2>1, <2>2, <2>3, <2>4, <2>5, <2>6, <2>7 DEF QuietTx, RemapToWrite
  <2> QED
    BY <2>2, <2>8, TxQuiet
<1> QED
  BY <1>1, <1>2, <1>3, <1>4

(* if (msg_size > ceiling) Recreate(), which marks and unmaps the segment  *)
(* and removes what the key names.                                         *)
LEMMA TestSizeInv ==
  ASSUME Inv, NEW w \in Writers, TestSize(w) \/ RecreateRemove(w)
  PROVE  Inv'
<1> DEFINE fits == ~(tx[w].size > tx[w].conf)
<1>1. CASE TestSize(w) /\ fits
  <2> DEFINE t == [tx[w] EXCEPT !.pc = "lock"]
  <2>1. QuietShm /\ MayMap(tx[w].seg, tx[w].seg) /\ key' \in 0..Len(shm)
    BY <1>1, QuietSame, TxTyped DEF Inv, TestSize, MayMap
  <2>2. /\ t \in TxType /\ t.pc = "lock"
        /\ t.seg = tx[w].seg /\ t.init = tx[w].init
        /\ t.sent = tx[w].sent /\ t.index = tx[w].index
    BY TxTyped, LevelFacts DEF TxType
  <2>3. tx' = [tx EXCEPT ![w] = t]
    BY <1>1, TxTyped DEF TestSize, TxType, Inv, TypeOK
  <2>4. /\ rx' = rx /\ ring'.infos = ring.infos /\ ring' \in RingType
    BY <1>1, TxTyped, LevelFacts DEF TestSize, RingType
  <2>5. t.sent >= tx[w].sent
    BY <2>2, TxTyped
  <2>6. tx[w].pc \notin {"copy", "overran"} \cup Constructing
    BY <1>1 DEF TestSize
  <2>7. /\ t.init \/ t.pc \in AtSegment => t.seg # 0
        /\ t.pc \in {"remove", "destroy", "last"} => ~t.init
        /\ t.pc \notin {"off", "idle", "destroy", "last", "crashed"} => t.sent \in 1..MaxMsgs
    BY <1>1, <2>2, TxTyped DEF TestSize
  <2> HIDE DEF t
  <2>8. QuietTx(w, t)
    BY <1>1, <2>1, <2>2, <2>3, <2>4, <2>5, <2>6, <2>7 DEF QuietTx, TestSize
  <2> QED
    BY <2>2, <2>8, TxQuiet
<1>2. CASE TestSize(w) /\ ~fits
  <2> DEFINE t == [tx[w] EXCEPT !.init = FALSE, !.pc = "remove"]
  <2>1. QuietShm /\ MayMap(tx[w].seg, tx[w].seg) /\ key' \in 0..Len(shm)
    <3> DEFINE e == [shm[tx[w].seg] EXCEPT !.need_remap = TRUE]
    <3>1. tx[w].seg \in Segments
      BY <1>2, TxTyped DEF TestSize
    <3>2. /\ e \in SegmentType /\ e.lock_num = shm[tx[w].seg].lock_num
          /\ e.buf = shm[tx[w].seg].buf /\ e.ceiling = shm[tx[w].seg].ceiling
          /\ e.early = shm[tx[w].seg].early /\ e.built = shm[tx[w].seg].built
          /\ e.spoiled = shm[tx[w].seg].spoiled
      BY <3>1, SegmentAt DEF SegmentType, Inv
    <3>3. shm' = [shm EXCEPT ![tx[w].seg] = e]
      BY <1>2, <3>1, SegmentAt DEF TestSize, Inv, SegmentType
    <3> HIDE DEF e
    <3> QED
      BY <1>2, <3>1, <3>2, <3>3, QuietUpdate, TxTyped DEF Inv, TestSize, MayMap
  <2>2. /\ t \in TxType /\ t.pc = "remove"
        /\ t.seg = tx[w].seg /\ t.init = FALSE
        /\ t.sent = tx[w].sent /\ t.index = tx[w].index
    BY TxTyped, LevelFacts DEF TxType
  <2>3. tx' = [tx EXCEPT ![w] = t]
    BY <1>2, TxTyped DEF TestSize, TxType, Inv, TypeOK
  <2>4. /\ rx' = rx /\ ring'.infos = ring.infos /\ ring' \in RingType
    BY <1>2, TxTyped, LevelFacts DEF TestSize, RingType
  <2>5. t.sent >= tx[w].sent
    BY <2>2, TxTyped
  <2>6. tx[w].pc \notin {"copy", "overran"} \cup Constructing
    BY <1>2 DEF TestSize
  <2>7. /\ t.init \/ t.pc \in AtSegment => t.seg # 0
        /\ t.pc \in {"remove", "destroy", "last"} => ~t.init
        /\ t.pc \notin {"off", "idle", "destroy", "last", "crashed"} => t.sent \in 1..MaxMsgs
    BY <1>2, <2>2, TxTyped DEF TestSize
  <2> HIDE DEF t
  <2>8. QuietTx(w, t)
    BY <1>2, <2>1, <2>2, <2>3, <2>4, <2>5, <2>6, <2>7 DEF QuietTx, TestSize
  <2> QED
    BY <2>2, <2>8, TxQuiet
<1>3. CASE RecreateRemove(w)
  <2> DEFINE t == [tx[w] EXCEPT !.pc = "open", !.seg = 0, !.conf = Conf(tx[w].size),
                               !.recreating = TRUE]
  <2>1. QuietShm /\ MayMap(tx[w].seg, 0) /\ key' \in 0..Len(shm)
    BY <1>3, QuietSame, TxTyped DEF Inv, RecreateRemove, MayMap
  <2>2. /\ t \in TxType /\ t.pc = "open"
        /\ t.seg = 0 /\ t.init = tx[w].init
        /\ t.sent = tx[w].sent /\ t.index = tx[w].index
    BY TxTyped, LevelFacts DEF TxType
  <2>3. tx' = [tx EXCEPT ![w] = t]
    BY <1>3, TxTyped DEF RecreateRemove, TxType, Inv, TypeOK
  <2>4. /\ rx' = rx /\ ring'.infos = ring.infos /\ ring' \in RingType
    BY <1>3, TxTyped, LevelFacts DEF RecreateRemove, RingType
  <2>5. t.sent >= tx[w].sent
    BY <2>2, TxTyped
  <2>6. tx[w].pc \notin {"copy", "overran"} \cup Constructing
    BY <1>3 DEF RecreateRemove
  <2>7. /\ t.init \/ t.pc \in AtSegment => t.seg # 0
        /\ t.pc \in {"remove", "destroy", "last"} => ~t.init
        /\ t.pc \notin {"off", "idle", "destroy", "last", "crashed"} => t.sent \in 1..MaxMsgs
    BY <1>3, <2>2, TxTyped DEF RecreateRemove
  <2> HIDE DEF t
  <2>8. QuietTx(w, t)
    BY <1>3, <2>1, <2>2, <2>3, <2>4, <2>5, <2>6, <2>7 DEF QuietTx, RecreateRemove
  <2> QED
    BY <2>2, <2>8, TxQuiet
<1> QED
  BY <1>1, <1>2, <1>3

(* The notification: claiming a place in the ring, and its sequence number *)
(* after the information.                                                  *)
LEMMA NotifyInv ==
  ASSUME Inv, NEW w \in Writers, NotifyClaim(w) \/ NotifySeq(w)
  PROVE  Inv'
<1>1. CASE NotifyClaim(w)
  <2>0. PICK n, m \in Nat : n = ring.next_seq /\ ring' = [ring EXCEPT !.next_seq = m]
    <3>1. ring.next_seq \in Nat /\ ring.next_seq + 1 \in Nat
      BY TxTyped DEF RingType
    <3>2. ring' = [ring EXCEPT !.next_seq = ring.next_seq + 1]
      BY <1>1 DEF NotifyClaim
    <3> QED
      BY <3>1, <3>2
  <2> DEFINE t == [tx[w] EXCEPT !.claim = n, !.pc = "info"]
  <2>1. QuietShm /\ MayMap(tx[w].seg, tx[w].seg) /\ key' \in 0..Len(shm)
    BY <1>1, QuietSame, TxTyped DEF Inv, NotifyClaim, MayMap
  <2>2. /\ t \in TxType /\ t.pc = "info"
        /\ t.seg = tx[w].seg /\ t.init = tx[w].init
        /\ t.sent = tx[w].sent /\ t.index = tx[w].index
    BY <2>0, TxTyped, LevelFacts DEF TxType
  <2>3. tx' = [tx EXCEPT ![w] = t]
    BY <1>1, <2>0, TxTyped DEF NotifyClaim, TxType, Inv, TypeOK
  <2>4. /\ rx' = rx /\ ring'.infos = ring.infos /\ ring' \in RingType
    BY <1>1, <2>0, TxTyped, LevelFacts DEF NotifyClaim, RingType
  <2>5. t.sent >= tx[w].sent
    BY <2>0, <2>2, TxTyped
  <2>6. tx[w].pc \notin {"copy", "overran"} \cup Constructing
    BY <1>1 DEF NotifyClaim
  <2>7. /\ t.init \/ t.pc \in AtSegment => t.seg # 0
        /\ t.pc \in {"remove", "destroy", "last"} => ~t.init
        /\ t.pc \notin {"off", "idle", "destroy", "last", "crashed"} => t.sent \in 1..MaxMsgs
    BY <1>1, <2>0, <2>2, TxTyped DEF NotifyClaim
  <2> HIDE DEF t
  <2>8. QuietTx(w, t)
    BY <1>1, <2>1, <2>2, <2>3, <2>4, <2>5, <2>6, <2>7 DEF QuietTx, NotifyClaim
  <2> QED
    BY <2>2, <2>8, TxQuiet
<1>2. CASE NotifySeq(w)
  <2>0. PICK f \in [Slots -> Nat] : ring' = [ring EXCEPT !.seqs = f]
    <3>1. tx[w].claim \in Nat /\ tx[w].claim % BufLength \in Slots
      BY TxTyped, LevelFacts DEF TxType
    <3>2. [ring.seqs EXCEPT ![tx[w].claim % BufLength] = tx[w].claim] \in [Slots -> Nat]
      BY <3>1, TxTyped DEF RingType
    <3> QED
      BY <1>2, <3>2 DEF NotifySeq
  <2> DEFINE t == [tx[w] EXCEPT !.pc = "idle", !.size = 1, !.index = 0,
                               !.claim = 0]
  <2>1. QuietShm /\ MayMap(tx[w].seg, tx[w].seg) /\ key' \in 0..Len(shm)
    BY <1>2, QuietSame, TxTyped DEF Inv, NotifySeq, MayMap
  <2>2. /\ t \in TxType /\ t.pc = "idle"
        /\ t.seg = tx[w].seg /\ t.init = tx[w].init
        /\ t.sent = tx[w].sent /\ t.index = 0
    BY <2>0, TxTyped, LevelFacts DEF TxType
  <2>3. tx' = [tx EXCEPT ![w] = t]
    BY <1>2, <2>0, TxTyped DEF NotifySeq, TxType, Inv, TypeOK
  <2>4. /\ rx' = rx /\ ring'.infos = ring.infos /\ ring' \in RingType
    BY <1>2, <2>0, TxTyped, LevelFacts DEF NotifySeq, RingType
  <2>5. t.sent >= tx[w].sent
    BY <2>0, <2>2, TxTyped
  <2>6. tx[w].pc \notin {"copy", "overran"} \cup Constructing
    BY <1>2 DEF NotifySeq
  <2>7. /\ t.init \/ t.pc \in AtSegment => t.seg # 0
        /\ t.pc \in {"remove", "destroy", "last"} => ~t.init
        /\ t.pc \notin {"off", "idle", "destroy", "last", "crashed"} => t.sent \in 1..MaxMsgs
    BY <1>2, <2>0, <2>2, TxTyped DEF NotifySeq
  <2> HIDE DEF t
  <2>8. QuietTx(w, t)
    BY <1>2, <2>1, <2>2, <2>3, <2>4, <2>5, <2>6, <2>7 DEF QuietTx, NotifySeq
  <2> QED
    BY <2>2, <2>8, TxQuiet
<1> QED
  BY <1>1, <1>2

LEMMA DisableInv ==
  ASSUME Inv, NEW w \in Writers,
         Disable(w) \/ DisableTest(w) \/ DisableRemove(w)
  PROVE  Inv'
<1>1. CASE Disable(w) /\ tx[w].init
  <2>0. PICK n \in 0..MaxDisables : n = tx[w].disables + 1
    BY <1>1, TxTyped, ConfAssumption, SMTT(30) DEF Disable, TxType
  <2> DEFINE t == [tx[w] EXCEPT !.disables = n, !.init = FALSE, !.conf = 1,
                               !.pc = "destroy"]
  <2>1. QuietShm /\ MayMap(tx[w].seg, tx[w].seg) /\ key' \in 0..Len(shm)
    BY <1>1, DecreasedQuiet, TxTyped DEF Inv, Disable, MayMap
  <2>2. /\ t \in TxType /\ t.pc = "destroy"
        /\ t.seg = tx[w].seg /\ t.init = FALSE
        /\ t.sent = tx[w].sent /\ t.index = tx[w].index
    BY <2>0, TxTyped, LevelFacts DEF TxType
  <2>3. tx' = [tx EXCEPT ![w] = t]
    BY <1>1, <2>0, TxTyped DEF Disable, TxType, Inv, TypeOK
  <2>4. /\ rx' = rx /\ ring'.infos = ring.infos /\ ring' \in RingType
    BY <1>1, <2>0, TxTyped, LevelFacts DEF Disable, RingType
  <2>5. t.sent >= tx[w].sent
    BY <2>0, <2>2, TxTyped
  <2>6. tx[w].pc \notin {"copy", "overran"} \cup Constructing
    BY <1>1 DEF Disable
  <2>7. /\ t.init \/ t.pc \in AtSegment => t.seg # 0
        /\ t.pc \in {"remove", "destroy", "last"} => ~t.init
        /\ t.pc \notin {"off", "idle", "destroy", "last", "crashed"} => t.sent \in 1..MaxMsgs
    BY <1>1, <2>0, <2>2, TxTyped DEF Disable
  <2> HIDE DEF t
  <2>8. QuietTx(w, t)
    BY <1>1, <2>1, <2>2, <2>3, <2>4, <2>5, <2>6, <2>7 DEF QuietTx, Disable
  <2> QED
    BY <2>2, <2>8, TxQuiet
<1>2. CASE Disable(w) /\ ~tx[w].init
  <2>0. PICK n \in 0..MaxDisables : n = tx[w].disables + 1
    BY <1>2, TxTyped, ConfAssumption DEF Disable, TxType
  <2> DEFINE t == [tx[w] EXCEPT !.disables = n, !.init = FALSE, !.conf = 1,
                               !.pc = "off"]
  <2>1. QuietShm /\ MayMap(tx[w].seg, tx[w].seg) /\ key' \in 0..Len(shm)
    BY <1>2, QuietSame, TxTyped DEF Inv, Disable, MayMap
  <2>2. /\ t \in TxType /\ t.pc = "off"
        /\ t.seg = tx[w].seg /\ t.init = FALSE
        /\ t.sent = tx[w].sent /\ t.index = tx[w].index
    BY <2>0, TxTyped, LevelFacts DEF TxType
  <2>3. tx' = [tx EXCEPT ![w] = t]
    BY <1>2, <2>0, TxTyped DEF Disable, TxType, Inv, TypeOK
  <2>4. /\ rx' = rx /\ ring'.infos = ring.infos /\ ring' \in RingType
    BY <1>2, <2>0, TxTyped, LevelFacts DEF Disable, RingType
  <2>5. t.sent >= tx[w].sent
    BY <2>0, <2>2, TxTyped
  <2>6. tx[w].pc \notin {"copy", "overran"} \cup Constructing
    BY <1>2 DEF Disable
  <2>7. /\ t.init \/ t.pc \in AtSegment => t.seg # 0
        /\ t.pc \in {"remove", "destroy", "last"} => ~t.init
        /\ t.pc \notin {"off", "idle", "destroy", "last", "crashed"} => t.sent \in 1..MaxMsgs
    BY <1>2, <2>0, <2>2, TxTyped DEF Disable
  <2> HIDE DEF t
  <2>8. QuietTx(w, t)
    BY <1>2, <2>1, <2>2, <2>3, <2>4, <2>5, <2>6, <2>7 DEF QuietTx, Disable
  <2> QED
    BY <2>2, <2>8, TxQuiet
<1>3. CASE DisableRemove(w)
  <2> DEFINE t == [tx[w] EXCEPT !.pc = "off", !.seg = 0]
  <2>1. QuietShm /\ MayMap(tx[w].seg, 0) /\ key' \in 0..Len(shm)
    BY <1>3, QuietSame, TxTyped DEF Inv, DisableRemove, MayMap
  <2>2. /\ t \in TxType /\ t.pc = "off"
        /\ t.seg = 0 /\ t.init = tx[w].init
        /\ t.sent = tx[w].sent /\ t.index = tx[w].index
    BY TxTyped, LevelFacts DEF TxType
  <2>3. tx' = [tx EXCEPT ![w] = t]
    BY <1>3, TxTyped DEF DisableRemove, TxType, Inv, TypeOK
  <2>4. /\ rx' = rx /\ ring'.infos = ring.infos /\ ring' \in RingType
    BY <1>3, TxTyped, LevelFacts DEF DisableRemove, RingType
  <2>5. t.sent >= tx[w].sent
    BY <2>2, TxTyped
  <2>6. tx[w].pc \notin {"copy", "overran"} /\ (tx[w].pc \in Constructing <=> t.pc = "blocks")
    BY <1>3, <2>2 DEF DisableRemove
  <2>7. /\ t.init \/ t.pc \in AtSegment => t.seg # 0
        /\ t.pc \in {"remove", "destroy", "last"} => ~t.init
        /\ t.pc \notin {"off", "idle", "destroy", "last", "crashed"} => t.sent \in 1..MaxMsgs
    BY <1>3, <2>2, TxTyped DEF DisableRemove
  <2> HIDE DEF t
  <2>8. QuietTx(w, t)
    BY <1>3, <2>1, <2>2, <2>3, <2>4, <2>5, <2>6, <2>7 DEF QuietTx, DisableRemove
  <2> QED
    BY <2>2, <2>8, TxQuiet
<1>4. CASE DisableTest(w) /\ shm[tx[w].seg].reference_count = 0
  <2> DEFINE t == [tx[w] EXCEPT !.pc = "last"]
  <2>1. QuietShm /\ MayMap(tx[w].seg, tx[w].seg) /\ key' \in 0..Len(shm)
    BY <1>4, QuietSame, TxTyped DEF Inv, DisableTest, MayMap
  <2>2. /\ t \in TxType /\ t.pc = "last"
        /\ t.seg = tx[w].seg /\ t.init = tx[w].init
        /\ t.sent = tx[w].sent /\ t.index = tx[w].index
    BY TxTyped, LevelFacts DEF TxType
  <2>3. tx' = [tx EXCEPT ![w] = t]
    BY <1>4, TxTyped DEF DisableTest, TxType, Inv, TypeOK
  <2>4. /\ rx' = rx /\ ring'.infos = ring.infos /\ ring' \in RingType
    BY <1>4, TxTyped, LevelFacts DEF DisableTest, RingType
  <2>5. t.sent >= tx[w].sent
    BY <2>2, TxTyped
  <2>6. tx[w].pc \notin {"copy", "overran"} /\ (tx[w].pc \in Constructing <=> t.pc = "blocks")
    BY <1>4, <2>2 DEF DisableTest
  <2>7. /\ t.init \/ t.pc \in AtSegment => t.seg # 0
        /\ t.pc \in {"remove", "destroy", "last"} => ~t.init
        /\ t.pc \notin {"off", "idle", "destroy", "last", "crashed"} => t.sent \in 1..MaxMsgs
    BY <1>4, <2>2, TxTyped DEF DisableTest
  <2> HIDE DEF t
  <2>8. QuietTx(w, t)
    BY <1>4, <2>1, <2>2, <2>3, <2>4, <2>5, <2>6, <2>7 DEF QuietTx, DisableTest
  <2> QED
    BY <2>2, <2>8, TxQuiet
<1>5. CASE DisableTest(w) /\ shm[tx[w].seg].reference_count # 0
  <2> DEFINE t == [tx[w] EXCEPT !.pc = "off", !.seg = 0]
  <2>1. QuietShm /\ MayMap(tx[w].seg, 0) /\ key' \in 0..Len(shm)
    BY <1>5, QuietSame, TxTyped DEF Inv, DisableTest, MayMap
  <2>2. /\ t \in TxType /\ t.pc = "off"
        /\ t.seg = 0 /\ t.init = tx[w].init
        /\ t.sent = tx[w].sent /\ t.index = tx[w].index
    BY TxTyped, LevelFacts DEF TxType
  <2>3. tx' = [tx EXCEPT ![w] = t]
    BY <1>5, TxTyped DEF DisableTest, TxType, Inv, TypeOK
  <2>4. /\ rx' = rx /\ ring'.infos = ring.infos /\ ring' \in RingType
    BY <1>5, TxTyped, LevelFacts DEF DisableTest, RingType
  <2>5. t.sent >= tx[w].sent
    BY <2>2, TxTyped
  <2>6. tx[w].pc \notin {"copy", "overran"} /\ (tx[w].pc \in Constructing <=> t.pc = "blocks")
    BY <1>5, <2>2 DEF DisableTest
  <2>7. /\ t.init \/ t.pc \in AtSegment => t.seg # 0
        /\ t.pc \in {"remove", "destroy", "last"} => ~t.init
        /\ t.pc \notin {"off", "idle", "destroy", "last", "crashed"} => t.sent \in 1..MaxMsgs
    BY <1>5, <2>2, TxTyped DEF DisableTest
  <2> HIDE DEF t
  <2>8. QuietTx(w, t)
    BY <1>5, <2>1, <2>2, <2>3, <2>4, <2>5, <2>6, <2>7 DEF QuietTx, DisableTest
  <2> QED
    BY <2>2, <2>8, TxQuiet
<1> QED
  BY <1>1, <1>2, <1>3, <1>4, <1>5

-----------------------------------------------------------------------------
(* The quiet steps of a dispatcher thread *)

LEMMA RxTyped ==
  ASSUME Inv, NEW r \in Readers
  PROVE  /\ rx[r] \in RxType /\ rx[r].lock_num >= 0 /\ rx[r].info \in InfoType \cup {None}
         /\ ring \in RingType
         /\ Segments = 1..Len(shm) /\ Len(shm) \in Nat /\ key \in 0..Len(shm)
         /\ 0 \notin Segments /\ rx[r].seg \in 0..Len(shm)
         /\ rx[r].init \/ rx[r].pc \in {"remap", "load", "cas", "reading",
              "release", "destroy", "last"} => rx[r].seg \in Segments
         /\ rx[r].pc \in {"acquire", "remap", "load", "cas", "reading",
              "release"} => rx[r].info # None
BY LenProperties DEF Inv, TypeOK, RxType, Segments, Mapped

LEMMA NewTyped == NewDispatcher \in RxType /\ Torn \in Contents
BY LevelFacts DEF NewDispatcher, RxType, Contents

(* A thread that holds no block is gone; so is one that is shut down.      *)
LEMMA GoneInv ==
  ASSUME Inv, NEW r \in Readers, QuietShm, UNCHANGED <<ring, tx>>, key' \in 0..Len(shm),
         NEW loc \in {"crashed", "off"},
         rx' = [rx EXCEPT ![r] = [NewDispatcher EXCEPT !.pc = loc]],
         rx[r].pc \notin {"reading", "release"}
  PROVE  Inv'
<1> DEFINE q == [NewDispatcher EXCEPT !.pc = loc]
<1>1. q \in RxType /\ q.pc = loc /\ q.seg = 0 /\ q.init = FALSE /\ q.info = None
      /\ q.lock_num = 0
  BY NewTyped DEF NewDispatcher, RxType
<1>2. MayMap(rx[r].seg, 0)
  BY DEF MayMap
<1> HIDE DEF q
<1>3. QuietRx(r, q)
  BY <1>1, <1>2 DEF QuietRx, q
<1> QED
  BY <1>1, <1>3, RxQuiet

(* Listening to the ring *)
LEMMA ListenInv ==
  ASSUME Inv, NEW r \in Readers,
         StartListening(r) \/ Listen(r) \/ TakeInfo(r)
  PROVE  Inv'
<1>1. CASE StartListening(r)
  <2>0. PICK n \in Nat : n = ring.next_seq
    BY  RxTyped, LevelFacts DEF RingType, RxType
  <2> DEFINE q == [rx[r] EXCEPT !.pc = "listen", !.next_seq = n]
  <2>1. QuietShm /\ MayMap(rx[r].seg, rx[r].seg) /\ key' \in 0..Len(shm)
    BY <1>1, QuietSame, RxTyped DEF Inv, StartListening, MayMap
  <2>2. /\ q \in RxType /\ q.pc = "listen"
        /\ q.seg = rx[r].seg /\ q.init = rx[r].init
        /\ q.info = rx[r].info /\ q.lock_num = rx[r].lock_num
    BY <2>0, RxTyped, LevelFacts, NewTyped DEF RxType
  <2>3. rx' = [rx EXCEPT ![r] = q]
    BY <1>1, <2>0, RxTyped DEF StartListening, RxType, Inv, TypeOK
  <2>4. tx' = tx /\ ring' = ring
    BY <1>1 DEF StartListening
  <2>5. rx[r].pc \notin {"reading", "release"}
    BY <1>1 DEF StartListening
  <2>6. q.info \in {None, rx[r].info} \/ \E j \in Slots : q.info = ring.infos[j]
    BY <2>0, <2>2
  <2>7. /\ q.init \/ q.pc \in {"remap", "load", "cas", "reading", "release",
             "destroy", "last"} => q.seg # 0
        /\ q.pc \in {"acquire", "remap", "load", "cas", "reading", "release"} =>
             q.info # None
        /\ q.lock_num >= 0
    BY <1>1, <2>0, <2>2, RxTyped DEF StartListening
  <2> HIDE DEF q
  <2>8. QuietRx(r, q)
    BY <2>1, <2>2, <2>3, <2>4, <2>5, <2>6, <2>7 DEF QuietRx
  <2> QED
    BY <2>2, <2>8, RxQuiet
<1>2. CASE Listen(r)
  <2>0. PICK n \in Nat : n = ring.seqs[rx[r].next_seq % BufLength]
    BY  RxTyped, LevelFacts DEF RingType, RxType
  <2> DEFINE q == [rx[r] EXCEPT !.pc = "take", !.next_seq = n]
  <2>1. QuietShm /\ MayMap(rx[r].seg, rx[r].seg) /\ key' \in 0..Len(shm)
    BY <1>2, QuietSame, RxTyped DEF Inv, Listen, MayMap
  <2>2. /\ q \in RxType /\ q.pc = "take"
        /\ q.seg = rx[r].seg /\ q.init = rx[r].init
        /\ q.info = rx[r].info /\ q.lock_num = rx[r].lock_num
    BY <2>0, RxTyped, LevelFacts, NewTyped DEF RxType
  <2>3. rx' = [rx EXCEPT ![r] = q]
    BY <1>2, <2>0, RxTyped DEF Listen, RxType, Inv, TypeOK
  <2>4. tx' = tx /\ ring' = ring
    BY <1>2 DEF Listen
  <2>5. rx[r].pc \notin {"reading", "release"}
    BY <1>2 DEF Listen
  <2>6. q.info \in {None, rx[r].info} \/ \E j \in Slots : q.info = ring.infos[j]
    BY <2>0, <2>2
  <2>7. /\ q.init \/ q.pc \in {"remap", "load", "cas", "reading", "release",
             "destroy", "last"} => q.seg # 0
        /\ q.pc \in {"acquire", "remap", "load", "cas", "reading", "release"} =>
             q.info # None
        /\ q.lock_num >= 0
    BY <1>2, <2>0, <2>2, RxTyped DEF Listen
  <2> HIDE DEF q
  <2>8. QuietRx(r, q)
    BY <2>1, <2>2, <2>3, <2>4, <2>5, <2>6, <2>7 DEF QuietRx
  <2> QED
    BY <2>2, <2>8, RxQuiet
<1>3. CASE TakeInfo(r) /\ ring.infos[rx[r].next_seq % BufLength] = None
  <2>0. PICK i \in Slots : i = rx[r].next_seq % BufLength
    BY RxTyped, LevelFacts DEF RxType
  <2>01. PICK n \in Nat : n = rx[r].next_seq + 1
    BY RxTyped DEF RxType
  <2>02. ring.infos[i] \in InfoType \cup {None}
    BY RxTyped DEF RingType
  <2> DEFINE q == [rx[r] EXCEPT !.info = ring.infos[i], !.next_seq = n,
                               !.pc = "listen"]
  <2>1. QuietShm /\ MayMap(rx[r].seg, rx[r].seg) /\ key' \in 0..Len(shm)
    BY <1>3, QuietSame, RxTyped DEF Inv, TakeInfo, MayMap
  <2>2. /\ q \in RxType /\ q.pc = "listen"
        /\ q.seg = rx[r].seg /\ q.init = rx[r].init
        /\ q.info = ring.infos[i] /\ q.lock_num = rx[r].lock_num
    BY <2>0, <2>01, <2>02, RxTyped, LevelFacts, NewTyped DEF RxType
  <2>3. rx' = [rx EXCEPT ![r] = q]
    BY <1>3, <2>0, <2>01, <2>02, RxTyped DEF TakeInfo, RxType, Inv, TypeOK
  <2>4. tx' = tx /\ ring' = ring
    BY <1>3 DEF TakeInfo
  <2>5. rx[r].pc \notin {"reading", "release"}
    BY <1>3 DEF TakeInfo
  <2>6. q.info \in {None, rx[r].info} \/ \E j \in Slots : q.info = ring.infos[j]
    BY <2>0, <2>01, <2>02, <2>2
  <2>7. /\ q.init \/ q.pc \in {"remap", "load", "cas", "reading", "release",
             "destroy", "last"} => q.seg # 0
        /\ q.pc \in {"acquire", "remap", "load", "cas", "reading", "release"} =>
             q.info # None
        /\ q.lock_num >= 0
    BY <1>3, <2>0, <2>01, <2>02, <2>2, RxTyped DEF TakeInfo
  <2> HIDE DEF q
  <2>8. QuietRx(r, q)
    BY <2>1, <2>2, <2>3, <2>4, <2>5, <2>6, <2>7 DEF QuietRx
  <2> QED
    BY <2>2, <2>8, RxQuiet
<1>4. CASE TakeInfo(r) /\ ring.infos[rx[r].next_seq % BufLength] # None
  <2>0. PICK i \in Slots : i = rx[r].next_seq % BufLength
    BY RxTyped, LevelFacts DEF RxType
  <2>01. PICK n \in Nat : n = rx[r].next_seq + 1
    BY RxTyped DEF RxType
  <2>02. ring.infos[i] \in InfoType \cup {None}
    BY RxTyped DEF RingType
  <2> DEFINE q == [rx[r] EXCEPT !.info = ring.infos[i], !.next_seq = n,
                               !.pc = "acquire"]
  <2>1. QuietShm /\ MayMap(rx[r].seg, rx[r].seg) /\ key' \in 0..Len(shm)
    BY <1>4, QuietSame, RxTyped DEF Inv, TakeInfo, MayMap
  <2>2. /\ q \in RxType /\ q.pc = "acquire"
        /\ q.seg = rx[r].seg /\ q.init = rx[r].init
        /\ q.info = ring.infos[i] /\ q.lock_num = rx[r].lock_num
    BY <2>0, <2>01, <2>02, RxTyped, LevelFacts, NewTyped DEF RxType
  <2>3. rx' = [rx EXCEPT ![r] = q]
    BY <1>4, <2>0, <2>01, <2>02, RxTyped DEF TakeInfo, RxType, Inv, TypeOK
  <2>4. tx' = tx /\ ring' = ring
    BY <1>4 DEF TakeInfo
  <2>5. rx[r].pc \notin {"reading", "release"}
    BY <1>4 DEF TakeInfo
  <2>6. q.info \in {None, rx[r].info} \/ \E j \in Slots : q.info = ring.infos[j]
    BY <2>0, <2>01, <2>02, <2>2
  <2>7. /\ q.init \/ q.pc \in {"remap", "load", "cas", "reading", "release",
             "destroy", "last"} => q.seg # 0
        /\ q.pc \in {"acquire", "remap", "load", "cas", "reading", "release"} =>
             q.info # None
        /\ q.lock_num >= 0
    BY <1>4, <2>0, <2>01, <2>02, <2>2, RxTyped DEF TakeInfo
  <2> HIDE DEF q
  <2>8. QuietRx(r, q)
    BY <2>1, <2>2, <2>3, <2>4, <2>5, <2>6, <2>7 DEF QuietRx
  <2> QED
    BY <2>2, <2>8, RxQuiet
<1> QED
  BY <1>1, <1>2, <1>3, <1>4

(* AcquireBlockToRead until the block is locked: OpenOnly, Remap, load     *)
LEMMA AcquireInv ==
  ASSUME Inv, NEW r \in Readers, AcquireBlockToRead(r)
  PROVE  Inv'
<1>1. CASE Crash(r)
  <2>1. QuietShm
    BY <1>1, QuietSame, OpenedQuiet DEF AcquireBlockToRead, Inv
  <2> QED
    BY <1>1, <2>1, GoneInv, RxTyped DEF AcquireBlockToRead, Crash
<1>2. CASE ~Crash(r) /\ rx[r].init
  <2> DEFINE q == [rx[r] EXCEPT !.pc = "remap", !.init = TRUE, !.seg = rx[r].seg,
                               !.conf = rx[r].conf]
  <2>1. QuietShm /\ MayMap(rx[r].seg, rx[r].seg) /\ key' \in 0..Len(shm)
    BY <1>2, QuietSame, RxTyped DEF Inv, AcquireBlockToRead, MayMap
  <2>2. /\ q \in RxType /\ q.pc = "remap"
        /\ q.seg = rx[r].seg /\ q.init = TRUE
        /\ q.info = rx[r].info /\ q.lock_num = rx[r].lock_num
    BY RxTyped, LevelFacts, NewTyped DEF RxType
  <2>3. rx' = [rx EXCEPT ![r] = q]
    BY <1>2, RxTyped DEF AcquireBlockToRead, RxType, Inv, TypeOK
  <2>4. tx' = tx /\ ring' = ring
    BY <1>2 DEF AcquireBlockToRead
  <2>5. rx[r].pc \notin {"reading", "release"}
    BY <1>2 DEF AcquireBlockToRead
  <2>6. q.info \in {None, rx[r].info} \/ \E j \in Slots : q.info = ring.infos[j]
    BY <2>2
  <2>7. /\ q.init \/ q.pc \in {"remap", "load", "cas", "reading", "release",
             "destroy", "last"} => q.seg # 0
        /\ q.pc \in {"acquire", "remap", "load", "cas", "reading", "release"} =>
             q.info # None
        /\ q.lock_num >= 0
    BY <1>2, <2>2, RxTyped DEF AcquireBlockToRead
  <2> HIDE DEF q
  <2>8. QuietRx(r, q)
    BY <2>1, <2>2, <2>3, <2>4, <2>5, <2>6, <2>7 DEF QuietRx
  <2> QED
    BY <2>2, <2>8, RxQuiet
<1>3. CASE ~Crash(r) /\ ~rx[r].init
  <2> DEFINE q == [rx[r] EXCEPT !.pc = "remap", !.init = TRUE, !.seg = key,
                               !.conf = Conf(shm[key].ceiling)]
  <2>1. QuietShm /\ MayMap(rx[r].seg, key) /\ key' \in 0..Len(shm)
        /\ Conf(shm[key].ceiling) \in Levels /\ key \in Nat /\ key # 0
    BY <1>3, OpenedQuiet, RxTyped DEF Inv, AcquireBlockToRead
  <2>2. /\ q \in RxType /\ q.pc = "remap"
        /\ q.seg = key /\ q.init = TRUE
        /\ q.info = rx[r].info /\ q.lock_num = rx[r].lock_num
    BY <2>1, RxTyped, LevelFacts, NewTyped DEF RxType
  <2>3. rx' = [rx EXCEPT ![r] = q]
    BY <1>3, <2>1, RxTyped DEF AcquireBlockToRead, RxType, Inv, TypeOK
  <2>4. tx' = tx /\ ring' = ring
    BY <1>3 DEF AcquireBlockToRead
  <2>5. rx[r].pc \notin {"reading", "release"}
    BY <1>3 DEF AcquireBlockToRead
  <2>6. q.info \in {None, rx[r].info} \/ \E j \in Slots : q.info = ring.infos[j]
    BY <2>1, <2>2
  <2>7. /\ q.init \/ q.pc \in {"remap", "load", "cas", "reading", "release",
             "destroy", "last"} => q.seg # 0
        /\ q.pc \in {"acquire", "remap", "load", "cas", "reading", "release"} =>
             q.info # None
        /\ q.lock_num >= 0
    BY <1>3, <2>1, <2>2, RxTyped DEF AcquireBlockToRead
  <2> HIDE DEF q
  <2>8. QuietRx(r, q)
    BY <2>1, <2>2, <2>3, <2>4, <2>5, <2>6, <2>7 DEF QuietRx
  <2> QED
    BY <2>2, <2>8, RxQuiet
<1> QED
  BY <1>1, <1>2, <1>3

LEMMA RemapToReadInv ==
  ASSUME Inv, NEW r \in Readers, RemapToRead(r)
  PROVE  Inv'
<1> DEFINE needed == shm[rx[r].seg].need_remap
<1>1. CASE Crash(r)
  <2>1. QuietShm
    BY <1>1, QuietSame, OpenedQuiet, SpoiledQuiet DEF RemapToRead, Inv
  <2> QED
    BY <1>1, <2>1, GoneInv, RxTyped DEF RemapToRead, Crash
<1>2. CASE ~Crash(r) /\ ~needed
  <2> DEFINE q == [rx[r] EXCEPT !.pc = "load", !.tries = 0]
  <2>1. QuietShm /\ MayMap(rx[r].seg, rx[r].seg) /\ key' \in 0..Len(shm)
    BY <1>2, QuietSame, RxTyped DEF Inv, RemapToRead, MayMap
  <2>2. /\ q \in RxType /\ q.pc = "load"
        /\ q.seg = rx[r].seg /\ q.init = rx[r].init
        /\ q.info = rx[r].info /\ q.lock_num = rx[r].lock_num
    BY RxTyped, LevelFacts, NewTyped DEF RxType
  <2>3. rx' = [rx EXCEPT ![r] = q]
    BY <1>2, RxTyped DEF RemapToRead, RxType, Inv, TypeOK
  <2>4. tx' = tx /\ ring' = ring
    BY <1>2 DEF RemapToRead
  <2>5. rx[r].pc \notin {"reading", "release"}
    BY <1>2 DEF RemapToRead
  <2>6. q.info \in {None, rx[r].info} \/ \E j \in Slots : q.info = ring.infos[j]
    BY <2>2
  <2>7. /\ q.init \/ q.pc \in {"remap", "load", "cas", "reading", "release",
             "destroy", "last"} => q.seg # 0
        /\ q.pc \in {"acquire", "remap", "load", "cas", "reading", "release"} =>
             q.info # None
        /\ q.lock_num >= 0
    BY <1>2, <2>2, RxTyped DEF RemapToRead
  <2> HIDE DEF q
  <2>8. QuietRx(r, q)
    BY <2>1, <2>2, <2>3, <2>4, <2>5, <2>6, <2>7 DEF QuietRx
  <2> QED
    BY <2>2, <2>8, RxQuiet
<1>3. CASE ~Crash(r) /\ needed
  <2> DEFINE q == [rx[r] EXCEPT !.seg = key, !.pc = "load",
                               !.conf = Conf(shm[key].ceiling), !.tries = 0]
  <2>1. QuietShm /\ MayMap(rx[r].seg, key) /\ key' \in 0..Len(shm)
        /\ Conf(shm[key].ceiling) \in Levels /\ key \in Nat /\ key # 0
    BY <1>3, OpenedQuiet, RxTyped DEF Inv, RemapToRead
  <2>2. /\ q \in RxType /\ q.pc = "load"
        /\ q.seg = key /\ q.init = rx[r].init
        /\ q.info = rx[r].info /\ q.lock_num = rx[r].lock_num
    BY <2>1, RxTyped, LevelFacts, NewTyped DEF RxType
  <2>3. rx' = [rx EXCEPT ![r] = q]
    BY <1>3, <2>1, RxTyped DEF RemapToRead, RxType, Inv, TypeOK
  <2>4. tx' = tx /\ ring' = ring
    BY <1>3 DEF RemapToRead
  <2>5. rx[r].pc \notin {"reading", "release"}
    BY <1>3 DEF RemapToRead
  <2>6. q.info \in {None, rx[r].info} \/ \E j \in Slots : q.info = ring.infos[j]
    BY <2>1, <2>2
  <2>7. /\ q.init \/ q.pc \in {"remap", "load", "cas", "reading", "release",
             "destroy", "last"} => q.seg # 0
        /\ q.pc \in {"acquire", "remap", "load", "cas", "reading", "release"} =>
             q.info # None
        /\ q.lock_num >= 0
    BY <1>3, <2>1, <2>2, RxTyped DEF RemapToRead
  <2> HIDE DEF q
  <2>8. QuietRx(r, q)
    BY <2>1, <2>2, <2>3, <2>4, <2>5, <2>6, <2>7 DEF QuietRx
  <2> QED
    BY <2>2, <2>8, RxQuiet
<1> QED
  BY <1>1, <1>2, <1>3

LEMMA LoadInv ==
  ASSUME Inv, NEW r \in Readers, LoadLockNum(r)
  PROVE  Inv'
<1>1. CASE Crash(r)
  BY <1>1, GoneInv, QuietSame, RxTyped DEF LoadLockNum, Crash, Inv
<1>2. CASE ~Crash(r)
  <2>0. PICK n \in Int : n >= 0 /\ n = shm[rx[r].seg].lock_num[rx[r].info.block_index]
    <3>1. rx[r].seg \in Segments /\ rx[r].info \in InfoType
      BY <1>2, RxTyped DEF LoadLockNum
    <3>2. shm[rx[r].seg].lock_num[rx[r].info.block_index] \in Int
      BY <3>1, SegmentAt, InfoFacts DEF Inv
    <3> QED
      BY <1>2, <3>2 DEF LoadLockNum
  <2> DEFINE q == [rx[r] EXCEPT !.pc = "cas", !.lock_num = n]
  <2>1. QuietShm /\ MayMap(rx[r].seg, rx[r].seg) /\ key' \in 0..Len(shm)
    BY <1>2, QuietSame, RxTyped DEF Inv, LoadLockNum, MayMap
  <2>2. /\ q \in RxType /\ q.pc = "cas"
        /\ q.seg = rx[r].seg /\ q.init = rx[r].init
        /\ q.info = rx[r].info /\ q.lock_num = n
    BY <2>0, RxTyped, LevelFacts, NewTyped DEF RxType
  <2>3. rx' = [rx EXCEPT ![r] = q]
    BY <1>2, <2>0, RxTyped DEF LoadLockNum, RxType, Inv, TypeOK
  <2>4. tx' = tx /\ ring' = ring
    BY <1>2 DEF LoadLockNum
  <2>5. rx[r].pc \notin {"reading", "release"}
    BY <1>2 DEF LoadLockNum
  <2>6. q.info \in {None, rx[r].info} \/ \E j \in Slots : q.info = ring.infos[j]
    BY <2>0, <2>2
  <2>7. /\ q.init \/ q.pc \in {"remap", "load", "cas", "reading", "release",
             "destroy", "last"} => q.seg # 0
        /\ q.pc \in {"acquire", "remap", "load", "cas", "reading", "release"} =>
             q.info # None
        /\ q.lock_num >= 0
    BY <1>2, <2>0, <2>2, RxTyped DEF LoadLockNum
  <2> HIDE DEF q
  <2>8. QuietRx(r, q)
    BY <2>1, <2>2, <2>3, <2>4, <2>5, <2>6, <2>7 DEF QuietRx
  <2> QED
    BY <2>2, <2>8, RxQuiet
<1> QED
  BY <1>1, <1>2

(* A CompareAndSwap that fails                                             *)
LEMMA CasFailsInv ==
  ASSUME Inv, NEW r \in Readers, CasLockNum(r),
         shm[rx[r].seg].lock_num[rx[r].info.block_index] # rx[r].lock_num
  PROVE  Inv'
<1>1. CASE Crash(r)
  BY <1>1, GoneInv, QuietSame, RxTyped DEF CasLockNum, Crash, Inv
<1>2. CASE ~Crash(r)
  <2>0. PICK n \in Nat, z \in Int : n = rx[r].tries + 1 /\ z = 0
    BY RxTyped DEF RxType
  <2> DEFINE q == [rx[r] EXCEPT !.pc = "load", !.lock_num = z, !.tries = n]
  <2>1. QuietShm /\ MayMap(rx[r].seg, rx[r].seg) /\ key' \in 0..Len(shm)
    BY <1>2, QuietSame, RxTyped DEF Inv, CasLockNum, MayMap
  <2>2. /\ q \in RxType /\ q.pc = "load"
        /\ q.seg = rx[r].seg /\ q.init = rx[r].init
        /\ q.info = rx[r].info /\ q.lock_num = z
    BY <2>0, RxTyped, LevelFacts, NewTyped DEF RxType
  <2>3. rx' = [rx EXCEPT ![r] = q]
    BY <1>2, <2>0, RxTyped DEF CasLockNum, RxType, Inv, TypeOK
  <2>4. tx' = tx /\ ring' = ring
    BY <1>2 DEF CasLockNum
  <2>5. rx[r].pc \notin {"reading", "release"}
    BY <1>2 DEF CasLockNum
  <2>6. q.info \in {None, rx[r].info} \/ \E j \in Slots : q.info = ring.infos[j]
    BY <2>0, <2>2
  <2>7. /\ q.init \/ q.pc \in {"remap", "load", "cas", "reading", "release",
             "destroy", "last"} => q.seg # 0
        /\ q.pc \in {"acquire", "remap", "load", "cas", "reading", "release"} =>
             q.info # None
        /\ q.lock_num >= 0
    BY <1>2, <2>0, <2>2, RxTyped DEF CasLockNum
  <2> HIDE DEF q
  <2>8. QuietRx(r, q)
    BY <2>1, <2>2, <2>3, <2>4, <2>5, <2>6, <2>7 DEF QuietRx
  <2> QED
    BY <2>2, <2>8, RxQuiet
<1> QED
  BY <1>1, <1>2

LEMMA ShutdownInv ==
  ASSUME Inv, NEW r \in Readers,
         Shutdown(r) \/ ShutdownTest(r) \/ ShutdownRemove(r)
  PROVE  Inv'
<1>1. CASE Shutdown(r) /\ rx[r].init
  <2> DEFINE q == [rx[r] EXCEPT !.init = FALSE, !.pc = "destroy", !.next_seq = 0]
  <2>1. QuietShm /\ MayMap(rx[r].seg, rx[r].seg) /\ key' \in 0..Len(shm)
    BY <1>1, DecreasedQuiet, RxTyped DEF Inv, Shutdown, MayMap
  <2>2. /\ q \in RxType /\ q.pc = "destroy"
        /\ q.seg = rx[r].seg /\ q.init = FALSE
        /\ q.info = rx[r].info /\ q.lock_num = rx[r].lock_num
    BY RxTyped, LevelFacts, NewTyped DEF RxType
  <2>3. rx' = [rx EXCEPT ![r] = q]
    BY <1>1, RxTyped DEF Shutdown, RxType, Inv, TypeOK
  <2>4. tx' = tx /\ ring' = ring
    BY <1>1 DEF Shutdown
  <2>5. rx[r].pc \notin {"reading", "release"}
    BY <1>1 DEF Shutdown
  <2>6. q.info \in {None, rx[r].info} \/ \E j \in Slots : q.info = ring.infos[j]
    BY <2>2
  <2>7. /\ q.init \/ q.pc \in {"remap", "load", "cas", "reading", "release",
             "destroy", "last"} => q.seg # 0
        /\ q.pc \in {"acquire", "remap", "load", "cas", "reading", "release"} =>
             q.info # None
        /\ q.lock_num >= 0
    BY <1>1, <2>2, RxTyped DEF Shutdown
  <2> HIDE DEF q
  <2>8. QuietRx(r, q)
    BY <2>1, <2>2, <2>3, <2>4, <2>5, <2>6, <2>7 DEF QuietRx
  <2> QED
    BY <2>2, <2>8, RxQuiet
<1>2. CASE Shutdown(r) /\ ~rx[r].init
  <2> DEFINE q == [rx[r] EXCEPT !.init = FALSE, !.pc = "off", !.next_seq = 0]
  <2>1. QuietShm /\ MayMap(rx[r].seg, rx[r].seg) /\ key' \in 0..Len(shm)
    BY <1>2, QuietSame, RxTyped DEF Inv, Shutdown, MayMap
  <2>2. /\ q \in RxType /\ q.pc = "off"
        /\ q.seg = rx[r].seg /\ q.init = FALSE
        /\ q.info = rx[r].info /\ q.lock_num = rx[r].lock_num
    BY RxTyped, LevelFacts, NewTyped DEF RxType
  <2>3. rx' = [rx EXCEPT ![r] = q]
    BY <1>2, RxTyped DEF Shutdown, RxType, Inv, TypeOK
  <2>4. tx' = tx /\ ring' = ring
    BY <1>2 DEF Shutdown
  <2>5. rx[r].pc \notin {"reading", "release"}
    BY <1>2 DEF Shutdown
  <2>6. q.info \in {None, rx[r].info} \/ \E j \in Slots : q.info = ring.infos[j]
    BY <2>2
  <2>7. /\ q.init \/ q.pc \in {"remap", "load", "cas", "reading", "release",
             "destroy", "last"} => q.seg # 0
        /\ q.pc \in {"acquire", "remap", "load", "cas", "reading", "release"} =>
             q.info # None
        /\ q.lock_num >= 0
    BY <1>2, <2>2, RxTyped DEF Shutdown
  <2> HIDE DEF q
  <2>8. QuietRx(r, q)
    BY <2>1, <2>2, <2>3, <2>4, <2>5, <2>6, <2>7 DEF QuietRx
  <2> QED
    BY <2>2, <2>8, RxQuiet
<1>3. CASE ShutdownTest(r) /\ shm[rx[r].seg].reference_count = 0
  <2> DEFINE q == [rx[r] EXCEPT !.pc = "last"]
  <2>1. QuietShm /\ MayMap(rx[r].seg, rx[r].seg) /\ key' \in 0..Len(shm)
    BY <1>3, QuietSame, RxTyped DEF Inv, ShutdownTest, MayMap
  <2>2. /\ q \in RxType /\ q.pc = "last"
        /\ q.seg = rx[r].seg /\ q.init = rx[r].init
        /\ q.info = rx[r].info /\ q.lock_num = rx[r].lock_num
    BY RxTyped, LevelFacts, NewTyped DEF RxType
  <2>3. rx' = [rx EXCEPT ![r] = q]
    BY <1>3, RxTyped DEF ShutdownTest, RxType, Inv, TypeOK
  <2>4. tx' = tx /\ ring' = ring /\ rx[r].pc = "destroy"
    BY <1>3 DEF ShutdownTest
  <2>5. q.info \in {None, rx[r].info} \/ \E j \in Slots : q.info = ring.infos[j]
    BY <2>2
  <2>6. q.seg # 0 /\ q.lock_num >= 0
    BY <2>2, <2>4, RxTyped
  <2> HIDE DEF q
  <2>7. QuietRx(r, q)
    BY <2>1, <2>2, <2>3, <2>4, <2>5, <2>6 DEF QuietRx
  <2> QED
    BY <2>2, <2>7, RxQuiet
<1>4. CASE \/ ShutdownTest(r) /\ shm[rx[r].seg].reference_count # 0
           \/ ShutdownRemove(r)
  <2>1. /\ key' \in 0..Len(shm) /\ QuietShm /\ UNCHANGED <<ring, tx>>
        /\ rx' = [rx EXCEPT ![r] = [NewDispatcher EXCEPT !.pc = "off"]]
        /\ rx[r].pc \notin {"reading", "release"}
    BY <1>4, RxTyped, QuietSame DEF ShutdownTest, ShutdownRemove, Inv
  <2> QED
    BY <2>1, GoneInv
<1> QED
  BY <1>1, <1>2, <1>3, <1>4

(* A thread that parses keeps its block; its copy stays if the segment was *)
(* clean.                                                                  *)
LEMMA ParsedInv ==
  ASSUME Inv, NEW r \in Readers, Parsed(r)
  PROVE  Inv'
<1> DEFINE c == IF rx[r].copy = shm[rx[r].seg].buf[rx[r].info.block_index]
                THEN rx[r].copy ELSE Torn
           q == [rx[r] EXCEPT !.pc = "release", !.copy = c]
<1>1. c \in Contents /\ (Whole(rx[r].seg) => c = rx[r].copy)
  BY RxTyped, NewTyped DEF Inv, Bufs, Parsed, RxType
<1> HIDE DEF c
<1>2. /\ q \in RxType /\ q.pc = "release" /\ q.seg = rx[r].seg /\ q.init = rx[r].init
      /\ q.info = rx[r].info /\ q.lock_num = rx[r].lock_num /\ q.copy = c
  BY <1>1, RxTyped DEF RxType
<1>3. QuietShm /\ MayMap(rx[r].seg, rx[r].seg) /\ key' \in 0..Len(shm)
  BY QuietSame, RxTyped DEF Inv, Parsed, MayMap
<1>4. rx' = [rx EXCEPT ![r] = q] /\ tx' = tx /\ ring' = ring
  BY RxTyped DEF Parsed, c, RxType, Inv, TypeOK
<1> HIDE DEF q
<1>5. QuietRx(r, q)
  BY <1>1, <1>2, <1>3, <1>4, RxTyped DEF QuietRx, Parsed
<1> QED
  BY <1>2, <1>5, RxQuiet

-----------------------------------------------------------------------------
(* Entering and leaving a block, and what is in it *)

LEMMA Update ==
  ASSUME TypeOK, NEW s \in Segments, NEW e \in SegmentType,
         shm' = [shm EXCEPT ![s] = e]
  PROVE  /\ shm' \in Seq(SegmentType) /\ Len(shm') = Len(shm) /\ Segments' = Segments
         /\ DOMAIN shm = Segments /\ DOMAIN shm' = Segments
         /\ shm'[s] = e /\ \A u \in Segments : u # s => shm'[u] = shm[u]
<1>1. shm \in Seq(SegmentType)
  BY DEF TypeOK
<1>2. shm' \in Seq(SegmentType) /\ Len(shm') = Len(shm)
      /\ \A u \in 1..Len(shm) : shm'[u] = IF u = s THEN e ELSE shm[u]
  BY <1>1, ExceptSeq DEF Segments
<1> QED
  BY <1>1, <1>2, LenProperties DEF Segments

(* Segments keep their histories, and objects what they map.               *)
LEMMA FreshKept ==
  ASSUME Inv, Segments' = Segments,
         \A s \in Segments : (shm'[s].built <=> shm[s].built)
                            /\ (shm'[s].early <=> shm[s].early),
         \A w \in Writers : tx'[w].seg = tx[w].seg
                           /\ (tx'[w].pc \in Constructing <=> tx[w].pc \in Constructing),
         \A r \in Readers : rx'[r].seg = rx[r].seg
  PROVE  Fresh'
<1>1. \A w \in Writers : tx[w].pc \in Constructing => tx[w].seg \in Segments
  BY DEF Inv, Mapped
<1>2. \A s \in Segments : Clean(s)' <=> Clean(s)
  BY DEF Clean
<1> QED
  BY <1>1, <1>2 DEF Inv, Fresh

(* So do objects that are not at a copy, or copy into a spoiled segment.   *)
LEMMA CopiesKept ==
  ASSUME Inv, \A s \in Segments : shm[s].spoiled => shm'[s].spoiled,
         \A w \in Writers : tx'[w].pc = "copy" =>
           tx'[w] = tx[w] \/ (Overruns(w)' => shm'[tx'[w].seg].spoiled)
  PROVE  \A w \in Writers :
           (tx[w].pc = "copy" /\ Overruns(w) => shm[tx[w].seg].spoiled)'
BY DEF Inv, Bufs, Mapped, Overruns

(* A buffer gets torn, or the last message of a transmitter.               *)
Grows ==
  /\ Segments \subseteq Segments'
  /\ \A w \in Writers : tx'[w].sent = tx[w].sent
  /\ \A s \in Segments, b \in Blocks :
       \/ shm'[s].buf[b] \in {shm[s].buf[b], Torn}
       \/ \E w \in Writers : shm'[s].buf[b] = <<w, tx[w].sent>> /\ tx[w].sent > 0

LEMMA AnnouncesGrows ==
  ASSUME Inv, Grows, NEW a \in InfoType, Announces(a)
  PROVE  Announces(a)'
<1>1. a.seg \in Segments /\ a.block_index \in Blocks /\ a.msg[1] \in Writers
      /\ a.msg[2] \in Nat
  BY InfoFacts DEF Announces
<1> DEFINE x == shm[a.seg].buf[a.block_index]
           y == shm'[a.seg].buf[a.block_index]
<1>2. \A w \in Writers : tx[w].sent \in 0..MaxMsgs
  BY DEF Inv, TypeOK, TxType
<1>3. y # None /\ \A n \in Nat : y = <<a.msg[1], n>> => n >= a.msg[2]
  <2>1. CASE y = x
    BY <2>1 DEF Announces
  <2>2. CASE y = Torn
    BY <1>1, <2>2, Nones DEF Torn
  <2>3. CASE \E w \in Writers : y = <<w, tx[w].sent>> /\ tx[w].sent > 0
    <3>1. PICK w \in Writers : y = <<w, tx[w].sent>> /\ tx[w].sent > 0
      BY <2>3
    <3>2. <<w, tx[w].sent>> \in Messages
      BY <1>2, <3>1, ConfAssumption DEF Messages
    <3>3. \A n \in Nat : y = <<a.msg[1], n>> => w = a.msg[1] /\ n = tx[w].sent
      BY <3>1
    <3> HIDE DEF y
    <3> QED
      BY <3>1, <3>2, <3>3, Nones DEF Announces
  <2> QED
    BY <1>1, <2>1, <2>2, <2>3 DEF Grows
<1> QED
  BY <1>1, <1>3 DEF Grows, Announces

LEMMA AnnouncedGrows ==
  ASSUME Inv, Grows, ring'.infos = ring.infos,
         \A r \in Readers : rx'[r].info \in {None, rx[r].info},
         \A w \in Writers : tx'[w].pc \in {"claim", "info"} =>
           (tx[w].pc \in {"claim", "info"} /\ tx'[w] = tx[w]) \/ Announces(Info(w))'
  PROVE  Announced'
<1>1. \A a \in InfoType : Announces(a) => Announces(a)'
  BY AnnouncesGrows DEF Announces
<1>2. \A i \in Slots : (ring.infos[i] # None => Announces(ring.infos[i]))'
  BY <1>1 DEF Inv, TypeOK, RingType, Announced, Announces
<1>3. \A r \in Readers : (rx[r].info # None => Announces(rx[r].info))'
  BY <1>1 DEF Inv, TypeOK, RxType, Announced, Announces
<1>4. ASSUME NEW w \in Writers, tx'[w].pc \in {"claim", "info"}, tx'[w] = tx[w]
      PROVE  Announces(Info(w))'
  <2>1. Info(w) \in InfoType /\ Announces(Info(w))
    BY <1>4, InfoTyped DEF Inv, Announced
  <2>2. /\ Info(w)'.seg = Info(w).seg /\ Info(w)'.msg = Info(w).msg
        /\ Info(w)'.block_index = Info(w).block_index
    BY <1>4 DEF Info
  <2> QED
    BY <1>1, <2>1, <2>2 DEF Announces
<1> QED
  BY <1>2, <1>3, <1>4 DEF Announced

(* shmget creates the segment: nobody else has it mapped.                  *)
LEMMA CreateInv ==
  ASSUME Inv, NEW w \in Writers, OpenOrCreate(w), key = 0
  PROVE  Inv'
<1>0. PICK n : n = Len(shm) + 1
  OBVIOUS
<1>1. /\ shm \in Seq(SegmentType) /\ Len(shm) \in Nat /\ DOMAIN shm = Segments
      /\ NewSegment \in SegmentType /\ ~NewSegment.built /\ ~NewSegment.early
      /\ \A b \in Blocks : NewSegment.lock_num[b] = 0 /\ NewSegment.buf[b] = None
  BY LenProperties, LevelFacts
     DEF Inv, TypeOK, Segments, NewSegment, SegmentType, Contents
<1>2. shm' = Append(shm, NewSegment) /\ key' = Len(shm') /\ UNCHANGED <<ring, rx>>
      /\ tx[w].pc = "open" /\ tx' = [tx EXCEPT ![w].seg = key', ![w].pc = "construct"]
  BY DEF OpenOrCreate
<1>3. /\ shm' \in Seq(SegmentType) /\ Len(shm') = n /\ shm'[n] = NewSegment
      /\ \A s \in Segments : shm'[s] = shm[s]
  BY <1>0, <1>1, <1>2, AppendProperties DEF Segments
<1>4. Segments' = Segments \cup {n} /\ n \notin Segments /\ n \in Nat
      /\ DOMAIN shm' = Segments'
  BY <1>0, <1>1, <1>3, LenProperties DEF Segments
<1> DEFINE t == [tx[w] EXCEPT !.seg = n, !.pc = "construct"]
<1>5. t \in TxType /\ t.pc = "construct" /\ t.seg = n /\ t.init = tx[w].init
      /\ t.sent = tx[w].sent
  BY <1>4, TxTyped DEF TxType
<1>6. tx' = [tx EXCEPT ![w] = t]
  BY <1>2, <1>3, TxTyped DEF TxType, Inv, TypeOK
<1> HIDE DEF t
<1>7. /\ tx' \in [Writers -> TxType] /\ tx'[w] = t
      /\ \A v \in Writers : v # w => tx'[v] = tx[v]
  BY <1>5, <1>6 DEF Inv, TypeOK
<1>8. TypeOK'
  BY <1>2, <1>3, <1>4, <1>7 DEF Inv, TypeOK
<1>9. Mapped'
  <2>1. 0..Len(shm) \subseteq 0..Len(shm') /\ n \in 0..Len(shm') /\ Segments \subseteq Segments'
    BY <1>0, <1>1, <1>3, <1>4
  <2>2. t.sent \in 1..MaxMsgs /\ n \in Segments'
    BY <1>2, <1>4, <1>5, TxTyped
  <2>3. ASSUME NEW v \in Writers
        PROVE  /\ tx'[v].seg \in 0..Len(shm')
               /\ tx'[v].init \/ tx'[v].pc \in AtSegment =>
                    tx'[v].seg \in Segments'
               /\ tx'[v].pc \in {"remove", "destroy", "last"} => ~tx'[v].init
               /\ tx'[v].pc \notin {"off", "idle", "destroy", "last", "crashed"} =>
                    tx'[v].sent \in 1..MaxMsgs
    <3>1. CASE v = w
      BY <1>5, <1>7, <2>1, <2>2, <3>1
    <3>2. CASE v # w
      BY <1>7, <2>1, <3>2 DEF Inv, Mapped
    <3> QED
      BY <3>1, <3>2
  <2>4. \A r \in Readers :
         /\ rx[r].seg \in 0..Len(shm')
         /\ rx[r].init \/ rx[r].pc \in {"remap", "load", "cas", "reading",
              "release", "destroy", "last"} => rx[r].seg \in Segments'
    BY <2>1 DEF Inv, Mapped
  <2> QED
    BY <1>2, <2>3, <2>4 DEF Inv, Mapped
<1>10. /\ \A v \in Writers : v # w => tx'[v].seg # n
       /\ \A r \in Readers : rx[r].seg # n
  BY <1>0, <1>1, <1>7 DEF Inv, Mapped
<1>11. Fresh'
  <2>1. \A v \in Writers : tx[v].pc \in Constructing => tx[v].seg \in Segments
    BY DEF Inv, Mapped
  <2>2. \A v \in Writers : (tx[v].pc \in Constructing => ~shm[tx[v].seg].built)'
    BY <1>1, <1>3, <1>5, <1>7, <2>1 DEF Inv, Fresh
  <2>3. \A u, v \in Writers : (tx[u].pc \in Constructing /\ tx[v].pc \in Constructing
                               /\ tx[u].seg = tx[v].seg => u = v)'
    BY <1>5, <1>7, <1>10 DEF Inv, Fresh
  <2>4. \A s \in Segments' : (Clean(s) /\ ~shm[s].built =>
          /\ \A v \in Writers : tx[v].seg = s => tx[v].pc \in Constructing
          /\ \A r \in Readers : rx[r].seg # s)'
    BY <1>2, <1>3, <1>4, <1>5, <1>7, <1>10 DEF Inv, Fresh, Clean
  <2> QED
    BY <2>2, <2>3, <2>4 DEF Fresh
<1>12. /\ \A s, b : WritersIn(s, b)' = WritersIn(s, b)
       /\ \A s, b : ReadersIn(s, b)' = ReadersIn(s, b)
  BY <1>2, <1>5, <1>7 DEF WritersIn, ReadersIn
<1>13. \A b : WritersIn(n, b) = {} /\ ReadersIn(n, b) = {}
  <2>1. \A v \in Writers : tx[v].seg # n
    BY <1>0, <1>1 DEF Inv, Mapped
  <2> QED
    BY <1>10, <2>1 DEF WritersIn, ReadersIn
<1>14. LockNumCounts'
  <2>1. ASSUME NEW s \in Segments, Clean(s)', NEW b \in Blocks
        PROVE  \/ /\ shm'[s].lock_num[b] = -1
                  /\ Cardinality(WritersIn(s, b)') = 1
                  /\ ReadersIn(s, b)' = {}
               \/ /\ shm'[s].lock_num[b] = Cardinality(ReadersIn(s, b)')
                  /\ WritersIn(s, b)' = {}
    BY <1>1, <1>3, <1>12, <2>1 DEF Inv, LockNumCounts, Clean
  <2>2. \A b \in Blocks : shm'[n].lock_num[b] = Cardinality(ReadersIn(n, b)')
                          /\ WritersIn(n, b)' = {}
    BY <1>1, <1>3, <1>12, <1>13, FS_EmptySet
  <2> QED
    BY <1>4, <2>1, <2>2 DEF LockNumCounts
<1>15. Bufs'
  <2>1. \A s \in Segments' : (Whole(s) => \A b \in Blocks :
          shm[s].buf[b] = Torn => WritersIn(s, b) # {})'
    BY <1>1, <1>3, <1>4, <1>12, Nones DEF Inv, Bufs, Clean, Whole
  <2>2. \A r \in Readers :
          (rx[r].pc \in {"reading", "release"} /\ Whole(rx[r].seg) =>
             rx[r].copy = shm[rx[r].seg].buf[rx[r].info.block_index])'
    BY <1>2, <1>3 DEF Inv, Bufs, Clean, Whole, Mapped
  <2>3. \A v \in Writers :
          (tx[v].pc = "copy" /\ Overruns(v) => shm[tx[v].seg].spoiled)'
    BY <1>3, <1>5, <1>7, CopiesKept
  <2> QED
    BY <2>1, <2>2, <2>3 DEF Bufs
<1>16. Announced'
  <2>1. Grows
    BY <1>3, <1>4, <1>5, <1>7 DEF Grows
  <2> QED
    BY <1>2, <1>5, <1>7, <2>1, AnnouncedGrows
<1> QED
  BY <1>8, <1>9, <1>11, <1>14, <1>15, <1>16 DEF Inv

(* Placement new of State, and the count of the creator.                   *)
LEMMA StateInv ==
  ASSUME Inv, NEW w \in Writers, ConstructState(w) \/ CountUser(w)
  PROVE  Inv'
<1>0. PICK s \in Segments : s = tx[w].seg
  BY TxTyped DEF ConstructState, CountUser
<1>1. shm[s] \in SegmentType /\ tx[w].conf \in Levels /\ 0 \in Blocks
      /\ \A n \in Nat : n + 1 \in Nat
  BY SegmentAt, TxTyped, LevelFacts DEF Inv, TxType
<1>2. ASSUME ConstructState(w) PROVE QuietShm
  <2> DEFINE e == [shm[s] EXCEPT !.ceiling = tx[w].conf, !.need_remap = FALSE,
                                 !.seq = 0, !.reference_count = 0]
  <2>1. shm' = [shm EXCEPT ![s] = e]
    BY <1>0, <1>1, <1>2 DEF ConstructState, SegmentType, Inv, TypeOK
  <2>2. /\ e \in SegmentType /\ e.lock_num = shm[s].lock_num /\ e.buf = shm[s].buf
        /\ e.built = shm[s].built /\ e.early = shm[s].early /\ e.spoiled = shm[s].spoiled
    BY <1>1 DEF SegmentType
  <2> HIDE DEF e
  <2> QED
    BY <2>1, <2>2, QuietUpdate DEF Inv
<1>3. ASSUME CountUser(w) PROVE QuietShm
  <2> DEFINE e == [shm[s] EXCEPT !.reference_count = @ + 1]
  <2>1. shm' = [shm EXCEPT ![s] = e]
    BY <1>0, <1>1, <1>3 DEF CountUser, SegmentType, Inv, TypeOK
  <2>2. /\ e \in SegmentType /\ e.lock_num = shm[s].lock_num /\ e.buf = shm[s].buf
        /\ e.built = shm[s].built /\ e.early = shm[s].early /\ e.spoiled = shm[s].spoiled
    BY <1>1 DEF SegmentType
  <2> HIDE DEF e
  <2> QED
    BY <2>1, <2>2, QuietUpdate DEF Inv
<1>4. CASE ConstructState(w)
  <2> DEFINE t == [tx[w] EXCEPT !.pc = "blocks"]
  <2>1. QuietShm /\ MayMap(tx[w].seg, tx[w].seg) /\ key' \in 0..Len(shm)
    BY <1>4, <1>2, TxTyped DEF Inv, ConstructState, MayMap
  <2>2. /\ t \in TxType /\ t.pc = "blocks"
        /\ t.seg = tx[w].seg /\ t.init = tx[w].init
        /\ t.sent = tx[w].sent /\ t.index = tx[w].index
    BY TxTyped, LevelFacts DEF TxType
  <2>3. tx' = [tx EXCEPT ![w] = t]
    BY <1>4, TxTyped DEF ConstructState, TxType, Inv, TypeOK
  <2>4. /\ rx' = rx /\ ring'.infos = ring.infos /\ ring' \in RingType
    BY <1>4, TxTyped, LevelFacts DEF ConstructState, RingType
  <2>5. t.sent >= tx[w].sent
    BY <2>2, TxTyped
  <2>6. tx[w].pc \notin {"copy", "overran"} /\ (tx[w].pc \in Constructing <=> t.pc = "blocks")
    BY <1>4, <2>2 DEF ConstructState
  <2>7. /\ t.init \/ t.pc \in AtSegment => t.seg # 0
        /\ t.pc \in {"remove", "destroy", "last"} => ~t.init
        /\ t.pc \notin {"off", "idle", "destroy", "last", "crashed"} => t.sent \in 1..MaxMsgs
    BY <1>4, <2>2, TxTyped DEF ConstructState
  <2> HIDE DEF t
  <2>8. QuietTx(w, t)
    BY <1>4, <2>1, <2>2, <2>3, <2>4, <2>5, <2>6, <2>7 DEF QuietTx, ConstructState
  <2> QED
    BY <2>2, <2>8, TxQuiet
<1>5. CASE CountUser(w)
  <2> DEFINE t == [tx[w] EXCEPT !.init = TRUE, !.recreating = FALSE, !.pc = AfterOpen(w)]
  <2>1. QuietShm /\ MayMap(tx[w].seg, tx[w].seg) /\ key' \in 0..Len(shm)
    BY <1>5, <1>3, TxTyped DEF Inv, CountUser, MayMap
  <2>2. /\ t \in TxType /\ t.pc \in {"lock", "remap"}
        /\ t.seg = tx[w].seg /\ t.init = TRUE
        /\ t.sent = tx[w].sent /\ t.index = tx[w].index
    BY TxTyped, LevelFacts DEF TxType, AfterOpen
  <2>3. tx' = [tx EXCEPT ![w] = t]
    BY <1>5, TxTyped DEF CountUser, TxType, Inv, TypeOK
  <2>4. /\ rx' = rx /\ ring'.infos = ring.infos /\ ring' \in RingType
    BY <1>5, TxTyped, LevelFacts DEF CountUser, RingType
  <2>5. t.sent >= tx[w].sent
    BY <2>2, TxTyped
  <2>6. tx[w].pc \notin {"copy", "overran"} /\ (tx[w].pc \in Constructing <=> t.pc = "blocks")
    BY <1>5, <2>2 DEF CountUser
  <2>7. /\ t.init \/ t.pc \in AtSegment => t.seg # 0
        /\ t.pc \in {"remove", "destroy", "last"} => ~t.init
        /\ t.pc \notin {"off", "idle", "destroy", "last", "crashed"} => t.sent \in 1..MaxMsgs
    BY <1>5, <2>2, TxTyped DEF CountUser
  <2> HIDE DEF t
  <2>8. QuietTx(w, t)
    BY <1>5, <2>1, <2>2, <2>3, <2>4, <2>5, <2>6, <2>7 DEF QuietTx, CountUser
  <2> QED
    BY <2>2, <2>8, TxQuiet
<1> QED
  BY <1>4, <1>5

(* Placement new of the Blocks. A segment that is still clean is nobody    *)
(* else's: only its creator is at it, who is in no block.                  *)
LEMMA BlocksInv ==
  ASSUME Inv, NEW w \in Writers, ConstructBlocks(w)
  PROVE  Inv'
<1>0. PICK s \in Segments : s = tx[w].seg /\ ~shm[s].built
  BY TxTyped DEF ConstructBlocks, Inv, Fresh
<1>1. shm[s] \in SegmentType
  BY SegmentAt DEF Inv
<1>2. PICK e \in SegmentType :
        /\ e.built /\ (e.early <=> shm[s].early) /\ (e.spoiled <=> shm[s].spoiled)
        /\ e.buf = shm[s].buf /\ e.lock_num = [b \in Blocks |-> 0]
        /\ shm' = [shm EXCEPT ![s] = e]
  <2> DEFINE L == [b \in Blocks |-> 0]
             e1 == [shm[s] EXCEPT !.lock_num = L, !.built = TRUE]
  <2>1. shm' = [shm EXCEPT ![s] = e1]
    BY <1>0, <1>1 DEF ConstructBlocks, SegmentType, Inv, TypeOK
  <2>2. L \in [Blocks -> Int]
    OBVIOUS
  <2> HIDE DEF L
  <2>3. /\ e1 \in SegmentType /\ e1.built = TRUE /\ e1.buf = shm[s].buf
        /\ e1.lock_num = L /\ e1.early = shm[s].early /\ e1.spoiled = shm[s].spoiled
    BY <1>1, <2>2 DEF SegmentType
  <2> HIDE DEF e1
  <2> QED
    BY <2>1, <2>3 DEF L
<1>3. /\ shm' \in Seq(SegmentType) /\ Len(shm') = Len(shm) /\ Segments' = Segments
      /\ DOMAIN shm = Segments /\ DOMAIN shm' = Segments
      /\ shm'[s] = e /\ \A u \in Segments : u # s => shm'[u] = shm[u]
  BY <1>2, Update DEF Inv
<1> DEFINE t == [tx[w] EXCEPT !.pc = "count"]
<1>4. /\ t \in TxType /\ t.pc = "count" /\ t.seg = s /\ t.sent = tx[w].sent
      /\ t.init = tx[w].init
      /\ tx' = [tx EXCEPT ![w] = t] /\ UNCHANGED <<key, ring, rx>>
      /\ tx[w].pc = "blocks" /\ s # 0
  <2>1. t \in TxType /\ t.pc = "count" /\ t.seg = tx[w].seg /\ t.sent = tx[w].sent
        /\ t.init = tx[w].init
    BY TxTyped DEF TxType
  <2>2. tx' = [tx EXCEPT ![w] = t]
    BY TxTyped DEF ConstructBlocks, TxType, Inv, TypeOK
  <2> QED
    BY <1>0, <2>1, <2>2, TxTyped DEF ConstructBlocks
<1> HIDE DEF t
<1>5. /\ tx' \in [Writers -> TxType] /\ tx'[w] = t
      /\ \A v \in Writers : v # w => tx'[v] = tx[v]
  BY <1>4 DEF Inv, TypeOK
<1>6. TypeOK'
  BY <1>3, <1>4, <1>5 DEF Inv, TypeOK
<1>7. Mapped'
  <2>1. ASSUME NEW v \in Writers
        PROVE  /\ tx'[v].seg \in 0..Len(shm)
               /\ tx'[v].init \/ tx'[v].pc \in AtSegment =>
                    tx'[v].seg \in Segments
               /\ tx'[v].pc \in {"remove", "destroy", "last"} => ~tx'[v].init
               /\ tx'[v].pc \notin {"off", "idle", "destroy", "last", "crashed"} =>
                    tx'[v].sent \in 1..MaxMsgs
    <3>1. CASE v = w
      BY <1>0, <1>4, <1>5, <3>1, TxTyped
    <3>2. CASE v # w
      BY <1>5, <3>2 DEF Inv, Mapped
    <3> QED
      BY <3>1, <3>2
  <2> QED
    BY <1>3, <1>4, <2>1 DEF Inv, Mapped
<1>8. \A v \in Writers : v # w /\ tx[v].pc \in Constructing =>
        tx[v].seg \in Segments /\ tx[v].seg # s
  BY <1>0, <1>4 DEF Inv, Fresh, Mapped
<1>9. /\ \A u \in Segments : Clean(u)' <=> Clean(u)
      /\ \A u \in Segments : Whole(u)' <=> Whole(u)
      /\ \A u \in Segments, b \in Blocks : shm'[u].buf[b] = shm[u].buf[b]
  BY <1>2, <1>3 DEF Clean, Whole
<1>10. Fresh'
  <2>1. \A v \in Writers : (tx[v].pc \in Constructing => ~shm[tx[v].seg].built)'
    BY <1>3, <1>4, <1>5, <1>8 DEF Inv, Fresh
  <2>2. \A u, v \in Writers : (tx[u].pc \in Constructing /\ tx[v].pc \in Constructing
                               /\ tx[u].seg = tx[v].seg => u = v)'
    BY <1>4, <1>5 DEF Inv, Fresh
  <2>3. \A u \in Segments : (Clean(u) /\ ~shm[u].built =>
          /\ \A v \in Writers : tx[v].seg = u => tx[v].pc \in Constructing
          /\ \A r \in Readers : rx[r].seg # u)'
    BY <1>2, <1>3, <1>4, <1>5, <1>9 DEF Inv, Fresh
  <2> QED
    BY <1>3, <2>1, <2>2, <2>3 DEF Fresh
<1>11. /\ \A u, b : WritersIn(u, b)' = WritersIn(u, b)
       /\ \A u, b : ReadersIn(u, b)' = ReadersIn(u, b)
  BY <1>4, <1>5 DEF WritersIn, ReadersIn
<1>12. Clean(s) => \A b : WritersIn(s, b) = {} /\ ReadersIn(s, b) = {}
  BY <1>0 DEF Inv, Fresh, WritersIn, ReadersIn
<1>13. LockNumCounts'
  <2>1. ASSUME NEW u \in Segments, u # s, Clean(u)', NEW b \in Blocks
        PROVE  \/ /\ shm'[u].lock_num[b] = -1
                  /\ Cardinality(WritersIn(u, b)') = 1
                  /\ ReadersIn(u, b)' = {}
               \/ /\ shm'[u].lock_num[b] = Cardinality(ReadersIn(u, b)')
                  /\ WritersIn(u, b)' = {}
    BY <1>3, <1>9, <1>11, <2>1 DEF Inv, LockNumCounts
  <2>2. Clean(s)' => \A b \in Blocks :
          shm'[s].lock_num[b] = Cardinality(ReadersIn(s, b)') /\ WritersIn(s, b)' = {}
    <3>1. \A b \in Blocks : shm'[s].lock_num[b] = 0
      BY <1>2, <1>3
    <3>2. Clean(s)' => Clean(s)
      BY <1>9
    <3> QED
      BY <1>11, <1>12, <3>1, <3>2, FS_EmptySet
  <2> QED
    BY <1>3, <2>1, <2>2 DEF LockNumCounts
<1>14. Bufs'
  <2>1. \A u \in Segments : (Whole(u) => \A b \in Blocks :
          shm[u].buf[b] = Torn => WritersIn(u, b) # {})'
    BY <1>9, <1>11 DEF Inv, Bufs
  <2>2. ASSUME NEW r \in Readers, rx[r].pc \in {"reading", "release"}, Whole(rx[r].seg)'
        PROVE  rx[r].copy = shm'[rx[r].seg].buf[rx[r].info.block_index]
    <3>1. rx[r].seg \in Segments /\ rx[r].info \in InfoType /\ rx'[r] = rx[r]
      BY <1>4, <2>2, RxTyped
    <3>2. Whole(rx[r].seg) /\ rx[r].info.block_index \in Blocks
      BY <1>9, <2>2, <3>1, InfoFacts DEF Clean, Whole
    <3> QED
      BY <1>9, <2>2, <3>1, <3>2 DEF Inv, Bufs
  <2>3. \A v \in Writers :
          (tx[v].pc = "copy" /\ Overruns(v) => shm[tx[v].seg].spoiled)'
    BY <1>2, <1>3, <1>4, <1>5, CopiesKept
  <2> QED
    BY <1>3, <1>4, <2>1, <2>2, <2>3 DEF Bufs
<1>15. Announced'
  <2>1. Grows
    BY <1>3, <1>4, <1>5, <1>9 DEF Grows
  <2> QED
    BY <1>4, <1>5, <2>1, AnnouncedGrows
<1> QED
  BY <1>6, <1>7, <1>10, <1>13, <1>14, <1>15 DEF Inv

(* A step in one block of one segment                                      *)
LEMMA OneBlock ==
  ASSUME Inv, NEW s \in Segments, NEW b \in Blocks,
         DOMAIN shm' = Segments,
         \A u \in Segments : Clean(u)' <=> Clean(u),
         \A u \in Segments, c \in Blocks : u # s \/ c # b =>
           /\ shm'[u].lock_num[c] = shm[u].lock_num[c]
           /\ WritersIn(u, c)' = WritersIn(u, c) /\ ReadersIn(u, c)' = ReadersIn(u, c),
         Clean(s) =>
           \/ /\ shm'[s].lock_num[b] = -1
              /\ Cardinality(WritersIn(s, b)') = 1 /\ ReadersIn(s, b)' = {}
           \/ /\ shm'[s].lock_num[b] = Cardinality(ReadersIn(s, b)')
              /\ WritersIn(s, b)' = {}
  PROVE  LockNumCounts'
<1>1. DOMAIN shm = Segments
  BY LenProperties DEF Inv, TypeOK, Segments
<1>2. ASSUME NEW u \in Segments, Clean(u)', NEW c \in Blocks
      PROVE  \/ /\ shm'[u].lock_num[c] = -1
                /\ Cardinality(WritersIn(u, c)') = 1 /\ ReadersIn(u, c)' = {}
             \/ /\ shm'[u].lock_num[c] = Cardinality(ReadersIn(u, c)')
                /\ WritersIn(u, c)' = {}
  <2>1. CASE u = s /\ c = b
    BY <1>2, <2>1
  <2>2. CASE u # s \/ c # b
    BY <1>1, <1>2, <2>2 DEF Inv, LockNumCounts
  <2> QED
    BY <2>1, <2>2
<1> QED
  BY <1>2 DEF LockNumCounts

LEMMA InBlock ==
  ASSUME Inv, NEW s \in Segments, Clean(s), NEW b \in Blocks
  PROVE  /\ IsFiniteSet(WritersIn(s, b)) /\ IsFiniteSet(ReadersIn(s, b))
         /\ Cardinality(ReadersIn(s, b)) \in Nat
         /\ shm[s].lock_num[b] \in Int
         /\ \/ /\ shm[s].lock_num[b] = -1
               /\ Cardinality(WritersIn(s, b)) = 1 /\ ReadersIn(s, b) = {}
            \/ /\ shm[s].lock_num[b] = Cardinality(ReadersIn(s, b))
               /\ WritersIn(s, b) = {}
<1>1. IsFiniteSet(WritersIn(s, b)) /\ IsFiniteSet(ReadersIn(s, b))
      /\ Cardinality(ReadersIn(s, b)) \in Nat
  <2>1. WritersIn(s, b) \in SUBSET Writers /\ ReadersIn(s, b) \in SUBSET Readers
    BY DEF WritersIn, ReadersIn
  <2> QED
    BY <2>1, FS_Subset, FS_CardinalityType, ConfAssumption
<1>2. DOMAIN shm = Segments
  BY LenProperties DEF Inv, TypeOK, Segments
<1>3. shm[s].lock_num[b] \in Int
  BY SegmentAt DEF Inv
<1> QED
  BY <1>1, <1>2, <1>3 DEF Inv, LockNumCounts

(* One round of GetNextWritableBlockIndex                                  *)
LEMMA NextBlockInv ==
  ASSUME Inv, NEW w \in Writers, NextBlock(w)
  PROVE  Inv'
<1>0. PICK s \in Segments, b \in Blocks : s = tx[w].seg /\ b = Turn(w)
  <2>1. tx[w].seg \in Segments /\ tx[w].conf \in Levels
    BY TxTyped DEF NextBlock, TxType
  <2>2. shm[tx[w].seg].seq \in Nat
    BY <2>1, SegmentAt DEF Inv, Blocks
  <2> QED
    BY <2>1, <2>2, LevelFacts DEF Turn
<1>1. shm[s] \in SegmentType /\ shm[s].seq \in Nat
  BY SegmentAt DEF Inv, Blocks
<1>2. PICK n \in Blocks : n = (shm[s].seq + 1) % BlockNum[1]
  BY <1>1, LevelFacts
<1>3. QuietShm
  <2> DEFINE e == [shm[s] EXCEPT !.seq = n]
  <2>1. shm' = [shm EXCEPT ![s] = e]
    BY <1>0, <1>1, <1>2 DEF NextBlock, SegmentType, Inv, TypeOK
  <2>2. /\ e \in SegmentType /\ e.lock_num = shm[s].lock_num /\ e.buf = shm[s].buf
        /\ e.built = shm[s].built /\ e.early = shm[s].early /\ e.spoiled = shm[s].spoiled
    BY <1>1 DEF SegmentType
  <2> HIDE DEF e
  <2> QED
    BY <2>1, <2>2, QuietUpdate DEF Inv
<1>4. CASE NextBlock(w)
  <2> DEFINE t == [tx[w] EXCEPT !.index = b, !.pc = "trylock"]
  <2>1. QuietShm /\ MayMap(tx[w].seg, tx[w].seg) /\ key' \in 0..Len(shm)
    BY <1>4, <1>3, TxTyped DEF Inv, NextBlock, MayMap
  <2>2. /\ t \in TxType /\ t.pc = "trylock"
        /\ t.seg = tx[w].seg /\ t.init = tx[w].init
        /\ t.sent = tx[w].sent /\ t.index = b
    BY TxTyped, LevelFacts DEF TxType
  <2>3. tx' = [tx EXCEPT ![w] = t]
    BY <1>0, <1>4, TxTyped DEF NextBlock, TxType, Inv, TypeOK
  <2>4. /\ rx' = rx /\ ring'.infos = ring.infos /\ ring' \in RingType
    BY <1>4, TxTyped, LevelFacts DEF NextBlock, RingType
  <2>5. t.sent >= tx[w].sent
    BY <2>2, TxTyped
  <2>6. tx[w].pc \notin {"copy", "overran"} /\ (tx[w].pc \in Constructing <=> t.pc = "blocks")
    BY <1>4, <2>2 DEF NextBlock
  <2>7. /\ t.init \/ t.pc \in AtSegment => t.seg # 0
        /\ t.pc \in {"remove", "destroy", "last"} => ~t.init
        /\ t.pc \notin {"off", "idle", "destroy", "last", "crashed"} => t.sent \in 1..MaxMsgs
    BY <1>4, <2>2, TxTyped DEF NextBlock
  <2> HIDE DEF t
  <2>8. QuietTx(w, t)
    BY <1>4, <2>1, <2>2, <2>3, <2>4, <2>5, <2>6, <2>7 DEF QuietTx, NextBlock
  <2> QED
    BY <2>2, <2>8, TxQuiet
<1> QED
  BY <1>4

(* TryLockForWrite: who gets the block is alone in it.                     *)
LEMMA LockInv ==
  ASSUME Inv, NEW w \in Writers, LockForWrite(w)
  PROVE  Inv'
<1>0. PICK s \in Segments, b \in Blocks : s = tx[w].seg /\ b = tx[w].index
  BY TxTyped DEF LockForWrite, TxType
<1>1. /\ shm[s] \in SegmentType
      /\ shm[s].lock_num \in [Blocks -> Int] /\ shm[s].buf \in [Blocks -> Contents]
      /\ Torn \in Contents
  BY SegmentAt, NewTyped DEF Inv
<1> DEFINE free == shm[s].lock_num[b] = 0
<1>3. CASE LockForWrite(w) /\ ~free
  <2> DEFINE t == [tx[w] EXCEPT !.pc = "lock"]
  <2>1. QuietShm /\ MayMap(tx[w].seg, tx[w].seg) /\ key' \in 0..Len(shm)
    BY <1>0, <1>3, QuietSame, TxTyped DEF Inv, LockForWrite, MayMap
  <2>2. /\ t \in TxType /\ t.pc = "lock"
        /\ t.seg = tx[w].seg /\ t.init = tx[w].init
        /\ t.sent = tx[w].sent /\ t.index = tx[w].index
    BY TxTyped, LevelFacts DEF TxType
  <2>3. tx' = [tx EXCEPT ![w] = t]
    BY <1>0, <1>3, TxTyped DEF LockForWrite, TxType, Inv, TypeOK
  <2>4. /\ rx' = rx /\ ring'.infos = ring.infos /\ ring' \in RingType
    BY <1>0, <1>3, TxTyped, LevelFacts DEF LockForWrite, RingType
  <2>5. t.sent >= tx[w].sent
    BY <2>2, TxTyped
  <2>6. tx[w].pc \notin {"copy", "overran"} /\ (tx[w].pc \in Constructing <=> t.pc = "blocks")
    BY <1>0, <1>3, <2>2 DEF LockForWrite
  <2>7. /\ t.init \/ t.pc \in AtSegment => t.seg # 0
        /\ t.pc \in {"remove", "destroy", "last"} => ~t.init
        /\ t.pc \notin {"off", "idle", "destroy", "last", "crashed"} => t.sent \in 1..MaxMsgs
    BY <1>0, <1>3, <2>2, TxTyped DEF LockForWrite
  <2> HIDE DEF t
  <2>8. QuietTx(w, t)
    BY <1>0, <1>3, <2>1, <2>2, <2>3, <2>4, <2>5, <2>6, <2>7 DEF QuietTx, LockForWrite
  <2> QED
    BY <2>2, <2>8, TxQuiet
<1>4. CASE free
  <2> DEFINE L == [shm[s].lock_num EXCEPT ![b] = -1]
             B == [shm[s].buf EXCEPT ![b] = Torn]
  <2>0. PICK o \in BOOLEAN : o = (shm[s].spoiled \/ Overruns(w))
    OBVIOUS
  <2>1. L \in [Blocks -> Int] /\ B \in [Blocks -> Contents]
    BY <1>1
  <2>2. PICK e \in SegmentType :
          /\ e.lock_num = L /\ e.buf = B /\ e.spoiled = o
          /\ (e.built <=> shm[s].built) /\ e.ceiling = shm[s].ceiling
          /\ (e.early <=> shm[s].early) /\ shm' = [shm EXCEPT ![s] = e]
    <3> DEFINE e1 == [shm[s] EXCEPT !.lock_num = L, !.buf = B, !.spoiled = o]
    <3>1. shm' = [shm EXCEPT ![s].lock_num[b] = -1, ![s].buf[b] = Torn,
                             ![s].spoiled = @ \/ Overruns(w)]
      BY <1>0, <1>4 DEF LockForWrite
    <3>2. shm' = [shm EXCEPT ![s] = e1]
      BY <1>1, <2>0, <3>1 DEF SegmentType, Inv, TypeOK
    <3> HIDE DEF L, B
    <3>3. /\ e1 \in SegmentType /\ e1.lock_num = L /\ e1.buf = B /\ e1.spoiled = o
          /\ e1.built = shm[s].built
          /\ e1.ceiling = shm[s].ceiling /\ e1.early = shm[s].early
      BY <1>1, <2>1 DEF SegmentType
    <3> HIDE DEF e1
    <3> QED
      BY <3>2, <3>3
  <2>3. /\ shm' \in Seq(SegmentType) /\ Len(shm') = Len(shm) /\ Segments' = Segments
        /\ DOMAIN shm = Segments /\ DOMAIN shm' = Segments
        /\ shm'[s] = e /\ \A u \in Segments : u # s => shm'[u] = shm[u]
    BY <2>2, Update DEF Inv
  <2>4. /\ shm'[s].lock_num[b] = -1 /\ shm'[s].buf[b] = Torn
        /\ \A u \in Segments, c \in Blocks : u # s \/ c # b =>
             /\ shm'[u].lock_num[c] = shm[u].lock_num[c]
             /\ shm'[u].buf[c] = shm[u].buf[c]
        /\ \A u \in Segments : /\ (shm'[u].built <=> shm[u].built)
                               /\ (shm'[u].early <=> shm[u].early)
                               /\ (shm[u].spoiled => shm'[u].spoiled)
        /\ Overruns(w) => shm'[s].spoiled
    <3>1. /\ L[b] = -1 /\ B[b] = Torn
          /\ \A c \in Blocks : c # b => L[c] = shm[s].lock_num[c] /\ B[c] = shm[s].buf[c]
      BY <1>1
    <3>2. (shm[s].spoiled => e.spoiled) /\ (Overruns(w) => e.spoiled)
      BY <2>0, <2>2
    <3> HIDE DEF L, B
    <3> QED
      BY <2>2, <2>3, <3>1, <3>2
  <2>5. /\ \A u \in Segments : Clean(u)' <=> Clean(u)
        /\ \A u \in Segments : Whole(u)' => Whole(u)
    BY <2>4 DEF Clean, Whole
  <2> DEFINE t == [tx[w] EXCEPT !.pc = "copy"]
  <2>6. /\ t \in TxType /\ t.pc = "copy" /\ t.seg = s /\ t.index = b
        /\ t.sent = tx[w].sent /\ t.init = tx[w].init
        /\ t.size = tx[w].size /\ t.conf = tx[w].conf
        /\ tx' = [tx EXCEPT ![w] = t] /\ UNCHANGED <<key, ring, rx>> /\ tx[w].pc = "trylock"
    <3>1. /\ t \in TxType /\ t.pc = "copy" /\ t.seg = tx[w].seg /\ t.index = tx[w].index
          /\ t.sent = tx[w].sent /\ t.init = tx[w].init
          /\ t.size = tx[w].size /\ t.conf = tx[w].conf
      BY TxTyped DEF TxType
    <3>2. tx' = [tx EXCEPT ![w] = t]
      BY <1>0, <1>4, TxTyped DEF LockForWrite, TxType, Inv, TypeOK
    <3> QED
      BY <1>0, <3>1, <3>2 DEF LockForWrite
  <2> HIDE DEF t, L, B
  <2>7. /\ tx' \in [Writers -> TxType] /\ tx'[w] = t
        /\ \A v \in Writers : v # w => tx'[v] = tx[v]
    BY <2>6 DEF Inv, TypeOK
  <2>8. TypeOK'
    BY <2>3, <2>6, <2>7 DEF Inv, TypeOK
  <2>9. Mapped'
    <3>1. ASSUME NEW v \in Writers
        PROVE  /\ tx'[v].seg \in 0..Len(shm)
               /\ tx'[v].init \/ tx'[v].pc \in AtSegment =>
                    tx'[v].seg \in Segments
               /\ tx'[v].pc \in {"remove", "destroy", "last"} => ~tx'[v].init
               /\ tx'[v].pc \notin {"off", "idle", "destroy", "last", "crashed"} =>
                    tx'[v].sent \in 1..MaxMsgs
      <4>1. CASE v = w
      BY <1>0, <2>6, <2>7, <4>1, TxTyped
      <4>2. CASE v # w
      BY <2>7, <4>2 DEF Inv, Mapped
      <4> QED
      BY <4>1, <4>2
    <3> QED
      BY <2>3, <2>6, <3>1 DEF Inv, Mapped
  <2>10. Fresh'
    BY <1>0, <2>3, <2>4, <2>6, <2>7, FreshKept
  <2>11. /\ \A u, c : u # s \/ c # b => WritersIn(u, c)' = WritersIn(u, c)
         /\ \A u, c : ReadersIn(u, c)' = ReadersIn(u, c)
         /\ WritersIn(s, b)' = WritersIn(s, b) \cup {w}
    BY <1>0, <2>6, <2>7 DEF WritersIn, ReadersIn
  <2>12. Clean(s) => ReadersIn(s, b) = {} /\ WritersIn(s, b) = {}
    BY <1>4, InBlock, FS_EmptySet
  <2>13. LockNumCounts'
    <3>1. Clean(s) => Cardinality(WritersIn(s, b)') = 1 /\ ReadersIn(s, b)' = {}
      <4>1. Clean(s) => WritersIn(s, b)' = {w}
        BY <2>11, <2>12
      <4> QED
        BY <2>11, <2>12, <4>1, FS_Singleton
    <3>2. \A u \in Segments, c \in Blocks : u # s \/ c # b =>
            /\ shm'[u].lock_num[c] = shm[u].lock_num[c]
            /\ WritersIn(u, c)' = WritersIn(u, c) /\ ReadersIn(u, c)' = ReadersIn(u, c)
      BY <2>4, <2>11
    <3> QED
      BY <2>3, <2>4, <2>5, <3>1, <3>2, OneBlock
  <2>14. Bufs'
    <3>1. \A u \in Segments : (Whole(u) => \A c \in Blocks :
            shm[u].buf[c] = Torn => WritersIn(u, c) # {})'
      BY <2>4, <2>5, <2>11 DEF Inv, Bufs
    <3>2. ASSUME NEW r \in Readers, rx[r].pc \in {"reading", "release"},
                 Whole(rx[r].seg)'
          PROVE  rx[r].copy = shm'[rx[r].seg].buf[rx[r].info.block_index]
      <4>1. rx[r].seg \in Segments /\ rx[r].info \in InfoType /\ rx'[r] = rx[r]
        BY <2>6, <3>2, RxTyped
      <4>2. Clean(rx[r].seg) /\ Whole(rx[r].seg) /\ rx[r].info.block_index \in Blocks
        BY <2>5, <3>2, <4>1, InfoFacts DEF Whole
      <4>3. r \in ReadersIn(rx[r].seg, rx[r].info.block_index)
        BY <3>2 DEF ReadersIn
      <4>4. rx[r].seg # s \/ rx[r].info.block_index # b
        BY <2>12, <4>2, <4>3
      <4> QED
        BY <2>4, <3>2, <4>1, <4>2, <4>4 DEF Inv, Bufs
    <3>3. \A v \in Writers :
            (tx[v].pc = "copy" /\ Overruns(v) => shm[tx[v].seg].spoiled)'
      <4>1. Overruns(w)' => Overruns(w)
        BY <2>6, <2>7 DEF Overruns
      <4>2. Overruns(w)' => shm'[tx'[w].seg].spoiled
        BY <2>4, <2>6, <2>7, <4>1
      <4> QED
        BY <2>4, <2>7, <4>2, CopiesKept
    <3> QED
      BY <2>3, <2>6, <3>1, <3>2, <3>3 DEF Bufs
  <2>15. Announced'
    <3>1. Grows
      BY <2>3, <2>4, <2>6, <2>7 DEF Grows
    <3> QED
      BY <2>6, <2>7, <3>1, AnnouncedGrows
  <2> QED
    BY <2>8, <2>9, <2>10, <2>13, <2>14, <2>15 DEF Inv
<1> QED
  BY <1>3, <1>4

(* The copy ends: its writer leaves the block, alone until then.           *)
LEMMA WrittenInv ==
  ASSUME Inv, NEW w \in Writers, Written(w)
  PROVE  Inv'
<1>0. PICK s \in Segments, b \in Blocks : s = tx[w].seg /\ b = tx[w].index
  BY TxTyped DEF Written, TxType
<1> DEFINE m == <<w, tx[w].sent>>
<1>1. /\ shm[s] \in SegmentType /\ shm[s].lock_num \in [Blocks -> Int]
      /\ shm[s].buf \in [Blocks -> Contents] /\ m \in Messages /\ m \in Contents
      /\ tx[w].pc = "copy" /\ tx[w].sent > 0
  <2>1. tx[w].pc = "copy" /\ tx[w].sent \in 1..MaxMsgs
    BY TxTyped DEF Written
  <2>2. m \in Messages
    BY <2>1 DEF Messages
  <2> QED
    BY <2>1, <2>2, SegmentAt DEF Inv, Contents
<1>11. PICK last \in Int :
         shm' = [shm EXCEPT
           ![s].buf = [c \in Blocks |->
              IF c = b THEN m ELSE IF c \in b..last THEN Torn ELSE @[c]],
           ![s].lock_num[b] = @ + 1]
         /\ (~Overruns(w) => last = b)
  <2>1. b \in Int /\ BlockNum[tx[w].conf] - 1 \in Int
    <3>1. tx[w].conf \in Levels /\ BlockNum[1] \in Nat
      BY TxTyped, LevelFacts DEF TxType
    <3>2. BlockNum[tx[w].conf] - 1 \in Int
      <4>1. PICK l \in Levels : l = tx[w].conf
        BY <3>1
      <4>2. BlockNum[l] \in Nat
        BY LevelFacts
      <4> QED
        BY <4>1, <4>2
    <3>3. b \in Int
      BY <3>1 DEF Blocks
    <3> QED
      BY <3>2, <3>3
  <2>2. PICK last \in b..(IF Overruns(w) THEN BlockNum[tx[w].conf] - 1 ELSE b) :
          shm' = [shm EXCEPT
           ![s].buf = [c \in Blocks |->
              IF c = b THEN m ELSE IF c \in b..last THEN Torn ELSE @[c]],
           ![s].lock_num[b] = @ + 1]
    BY <1>0 DEF Written
  <2>3. last \in Int /\ (~Overruns(w) => last = b)
    BY <2>1, <2>2
  <2> QED
    BY <2>2, <2>3
<1> DEFINE x == shm[s].lock_num[b] + 1
           L == [shm[s].lock_num EXCEPT ![b] = x]
           B == [c \in Blocks |->
                  IF c = b THEN m ELSE IF c \in b..last THEN Torn ELSE shm[s].buf[c]]
<1>2. PICK e \in SegmentType :
        /\ e.lock_num = L /\ e.buf = B /\ (e.built <=> shm[s].built)
        /\ (e.spoiled <=> shm[s].spoiled)
        /\ (e.early <=> shm[s].early) /\ shm' = [shm EXCEPT ![s] = e]
  <2> DEFINE e1 == [shm[s] EXCEPT !.buf = B, !.lock_num = L]
  <2>1. x \in Int
    BY <1>1
  <2>2. shm' = [shm EXCEPT ![s].buf = B, ![s].lock_num[b] = x]
    BY <1>1, <1>11 DEF SegmentType, Inv, TypeOK
  <2> HIDE DEF B
  <2>3. shm' = [shm EXCEPT ![s] = e1]
    BY <1>1, <2>2 DEF SegmentType, Inv, TypeOK
  <2>4. L \in [Blocks -> Int] /\ B \in [Blocks -> Contents]
    BY <1>1, <2>1, NewTyped DEF B
  <2> HIDE DEF L
  <2>5. /\ e1 \in SegmentType /\ e1.lock_num = L /\ e1.buf = B
        /\ e1.built = shm[s].built /\ e1.early = shm[s].early
        /\ e1.spoiled = shm[s].spoiled
    BY <1>1, <2>4 DEF SegmentType
  <2> HIDE DEF e1
  <2> QED
    BY <2>3, <2>5
<1>3. /\ shm' \in Seq(SegmentType) /\ Len(shm') = Len(shm) /\ Segments' = Segments
      /\ DOMAIN shm = Segments /\ DOMAIN shm' = Segments
      /\ shm'[s] = e /\ \A u \in Segments : u # s => shm'[u] = shm[u]
  BY <1>2, Update DEF Inv
<1>30. Overruns(w) => shm[s].spoiled
  BY <1>0, <1>1 DEF Inv, Bufs
<1>31. /\ shm'[s].lock_num[b] = shm[s].lock_num[b] + 1
       /\ shm'[s].buf[b] = <<w, tx[w].sent>>
       /\ \A u \in Segments, c \in Blocks : u # s \/ c # b =>
            /\ shm'[u].lock_num[c] = shm[u].lock_num[c]
            /\ shm'[u].buf[c] \in {shm[u].buf[c], Torn}
            /\ ~shm[u].spoiled => shm'[u].buf[c] = shm[u].buf[c]
       /\ \A u \in Segments : /\ (shm'[u].built <=> shm[u].built)
                              /\ (shm'[u].early <=> shm[u].early)
                              /\ (shm'[u].spoiled <=> shm[u].spoiled)
  <2>1. ~shm[s].spoiled => last = b
    BY <1>11, <1>30
  <2>2. \A c \in Blocks : c \in Int
    BY DEF Blocks
  <2>3. \A c \in Blocks : c # b =>
          B[c] \in {shm[s].buf[c], Torn} /\ (last = b => B[c] = shm[s].buf[c])
    BY <2>2
  <2>4. B[b] = m
    OBVIOUS
  <2>5. L[b] = x /\ \A c \in Blocks : c # b => L[c] = shm[s].lock_num[c]
    BY <1>1
  <2> HIDE DEF B, L
  <2> QED
    BY <1>1, <1>2, <1>3, <2>1, <2>3, <2>4, <2>5
<1>32. /\ \A u \in Segments : Clean(u)' <=> Clean(u)
       /\ \A u \in Segments : Whole(u)' <=> Whole(u)
  BY <1>31 DEF Clean, Whole
<1> HIDE DEF m, x, L, B
<1> DEFINE t == [tx[w] EXCEPT !.pc = "claim", !.recreating = FALSE]
<1>4. /\ t \in TxType /\ t.pc = "claim" /\ t.seg = s /\ t.index = b
      /\ t.sent = tx[w].sent /\ t.init = tx[w].init
      /\ tx' = [tx EXCEPT ![w] = t] /\ UNCHANGED <<key, ring, rx>>
  <2>1. /\ t \in TxType /\ t.pc = "claim" /\ t.seg = tx[w].seg
        /\ t.index = tx[w].index /\ t.sent = tx[w].sent /\ t.init = tx[w].init
    BY TxTyped DEF TxType
  <2>2. tx' = [tx EXCEPT ![w] = t]
    BY TxTyped DEF Written, TxType, Inv, TypeOK
  <2> QED
    BY <1>0, <2>1, <2>2 DEF Written
<1> HIDE DEF t
<1>5. /\ tx' \in [Writers -> TxType] /\ tx'[w] = t
      /\ \A v \in Writers : v # w => tx'[v] = tx[v]
  BY <1>4 DEF Inv, TypeOK
<1>6. TypeOK'
  BY <1>3, <1>4, <1>5 DEF Inv, TypeOK
<1>7. Mapped'
  <2>1. ASSUME NEW v \in Writers
        PROVE  /\ tx'[v].seg \in 0..Len(shm)
               /\ tx'[v].init \/ tx'[v].pc \in AtSegment =>
                    tx'[v].seg \in Segments
               /\ tx'[v].pc \in {"remove", "destroy", "last"} => ~tx'[v].init
               /\ tx'[v].pc \notin {"off", "idle", "destroy", "last", "crashed"} =>
                    tx'[v].sent \in 1..MaxMsgs
    <3>1. CASE v = w
      BY <1>0, <1>1, <1>4, <1>5, <3>1, TxTyped
    <3>2. CASE v # w
      BY <1>5, <3>2 DEF Inv, Mapped
    <3> QED
      BY <3>1, <3>2
  <2> QED
    BY <1>3, <1>4, <2>1 DEF Inv, Mapped
<1>8. Fresh'
  BY <1>0, <1>1, <1>3, <1>31, <1>4, <1>5, FreshKept
<1>9. /\ \A u, c : u # s \/ c # b => WritersIn(u, c)' = WritersIn(u, c)
      /\ \A u, c : ReadersIn(u, c)' = ReadersIn(u, c)
      /\ WritersIn(s, b)' = WritersIn(s, b) \ {w} /\ w \in WritersIn(s, b)
  BY <1>0, <1>1, <1>4, <1>5 DEF WritersIn, ReadersIn
<1>10. Clean(s) => shm[s].lock_num[b] = -1 /\ ReadersIn(s, b) = {}
                   /\ WritersIn(s, b) = {w}
  BY <1>9, InBlock, FS_Singleton
<1>33. LockNumCounts'
  <2>1. Clean(s) => shm'[s].lock_num[b] = Cardinality(ReadersIn(s, b)')
                    /\ WritersIn(s, b)' = {}
    BY <1>31, <1>9, <1>10, FS_EmptySet, SMTT(30)
  <2>2. \A u \in Segments, c \in Blocks : u # s \/ c # b =>
          /\ shm'[u].lock_num[c] = shm[u].lock_num[c]
          /\ WritersIn(u, c)' = WritersIn(u, c) /\ ReadersIn(u, c)' = ReadersIn(u, c)
    BY <1>31, <1>9
  <2> QED
    BY <1>3, <1>32, <2>1, <2>2, OneBlock
<1>12. Bufs'
  <2>1. \A u \in Segments : (Whole(u) => \A c \in Blocks :
          shm[u].buf[c] = Torn => WritersIn(u, c) # {})'
    BY <1>31, <1>32, <1>9, Nones DEF Inv, Bufs, Whole
  <2>2. ASSUME NEW r \in Readers, rx[r].pc \in {"reading", "release"},
               Whole(rx[r].seg)'
        PROVE  rx[r].copy = shm'[rx[r].seg].buf[rx[r].info.block_index]
    <3>1. rx[r].seg \in Segments /\ rx[r].info \in InfoType /\ rx'[r] = rx[r]
      BY <1>4, <2>2, RxTyped
    <3>2. /\ Clean(rx[r].seg) /\ Whole(rx[r].seg) /\ ~shm[rx[r].seg].spoiled
          /\ rx[r].info.block_index \in Blocks
      BY <1>32, <2>2, <3>1, InfoFacts DEF Whole
    <3>3. r \in ReadersIn(rx[r].seg, rx[r].info.block_index)
      BY <2>2 DEF ReadersIn
    <3>4. rx[r].seg # s \/ rx[r].info.block_index # b
      BY <1>10, <3>2, <3>3
    <3> QED
      BY <1>31, <2>2, <3>1, <3>2, <3>4 DEF Inv, Bufs
  <2>3. \A v \in Writers :
          (tx[v].pc = "copy" /\ Overruns(v) => shm[tx[v].seg].spoiled)'
    BY <1>31, <1>4, <1>5, CopiesKept
  <2> QED
    BY <1>3, <1>4, <2>1, <2>2, <2>3 DEF Bufs
<1>13. Announced'
  <2>1. Grows
    BY <1>1, <1>3, <1>31, <1>4, <1>5 DEF Grows
  <2>2. Announces(Info(w))'
    <3>1. /\ Info(w)'.seg = s /\ Info(w)'.block_index = b
          /\ Info(w)'.msg = <<w, tx[w].sent>>
      BY <1>4, <1>5 DEF Info
    <3>2. tx[w].sent \in Nat /\ tx'[w].sent = tx[w].sent /\ s \in Segments'
      BY <1>3, <1>4, <1>5, TxTyped
    <3>3. shm'[s].buf[b] # None
      BY <1>1, <1>31, Nones DEF m
    <3>4. Info(w)'.msg[1] = w /\ Info(w)'.msg[2] = tx[w].sent
      BY <3>1
    <3>5. \A n \in Nat : shm'[s].buf[b] = <<w, n>> => n = tx[w].sent
      BY <1>31
    <3> QED
      BY <3>1, <3>2, <3>3, <3>4, <3>5 DEF Announces
  <2> QED
    BY <1>4, <1>5, <2>1, <2>2, AnnouncedGrows
<1> QED
  BY <1>6, <1>7, <1>8, <1>33, <1>12, <1>13 DEF Inv

(* A copy that ends in the middle spoils the buffers behind.               *)
LEMMA OverrunInv ==
  ASSUME Inv, NEW w \in Writers, Overrun(w)
  PROVE  Inv'
<1>0. PICK s \in Segments, b \in Blocks : s = tx[w].seg /\ b = tx[w].index
  BY TxTyped DEF Overrun, TxType
<1>1. shm[s] \in SegmentType /\ shm[s].buf \in [Blocks -> Contents] /\ Torn \in Contents
      /\ shm[s].spoiled /\ tx[w].pc = "copy"
  BY <1>0, SegmentAt, NewTyped DEF Inv, Bufs, Overrun
<1>2. QuietShm
  <2> DEFINE n == BlockNum[tx[w].conf] - 1
             B == [c \in Blocks |-> IF c \in b..n THEN Torn ELSE shm[s].buf[c]]
             e == [shm[s] EXCEPT !.buf = B]
  <2>1. shm' = [shm EXCEPT ![s].buf = B]
    BY <1>0 DEF Overrun
  <2>2. B \in [Blocks -> Contents] /\ \A c \in Blocks : B[c] \in {Torn, shm[s].buf[c]}
    BY <1>1
  <2> HIDE DEF B
  <2>3. shm' = [shm EXCEPT ![s] = e]
    BY <1>1, <2>1 DEF SegmentType, Inv, TypeOK
  <2>4. /\ e \in SegmentType /\ e.lock_num = shm[s].lock_num /\ e.buf = B
        /\ e.built = shm[s].built /\ e.early = shm[s].early /\ e.spoiled = shm[s].spoiled
    BY <1>1, <2>2 DEF SegmentType
  <2> HIDE DEF e
  <2> QED
    BY <1>1, <2>2, <2>3, <2>4, QuietUpdate DEF Inv
<1> DEFINE t == [tx[w] EXCEPT !.pc = "overran"]
<1>3. /\ t \in TxType /\ t.pc = "overran" /\ t.seg = tx[w].seg /\ t.init = tx[w].init
      /\ t.sent = tx[w].sent /\ t.index = tx[w].index
  BY TxTyped DEF TxType
<1>4. tx' = [tx EXCEPT ![w] = t] /\ UNCHANGED <<key, ring, rx>>
  BY TxTyped DEF Overrun, TxType, Inv, TypeOK
<1>5. MayMap(tx[w].seg, t.seg) /\ t.sent >= tx[w].sent /\ t.seg # 0
      /\ t.sent \in 1..MaxMsgs
  BY <1>0, <1>1, <1>3, TxTyped DEF MayMap
<1> HIDE DEF t
<1>6. QuietTx(w, t)
  BY <1>1, <1>2, <1>3, <1>4, <1>5, TxTyped DEF QuietTx
<1> QED
  BY <1>3, <1>6, TxQuiet

(* The information is stored in its place of the ring.                     *)
LEMMA NotifyInfoInv ==
  ASSUME Inv, NEW w \in Writers, NotifyInfo(w)
  PROVE  Inv'
<1> DEFINE t == [tx[w] EXCEPT !.pc = "seq"]
<1>1. /\ t \in TxType /\ t.pc = "seq" /\ t.seg = tx[w].seg /\ t.index = tx[w].index
      /\ t.sent = tx[w].sent /\ t.init = tx[w].init
      /\ tx' = [tx EXCEPT ![w] = t] /\ UNCHANGED <<key, shm, rx>> /\ tx[w].pc = "info"
  <2>1. /\ t \in TxType /\ t.pc = "seq" /\ t.seg = tx[w].seg
        /\ t.index = tx[w].index /\ t.sent = tx[w].sent /\ t.init = tx[w].init
    BY TxTyped DEF TxType
  <2>2. tx' = [tx EXCEPT ![w] = t]
    BY TxTyped DEF NotifyInfo, TxType, Inv, TypeOK
  <2> QED
    BY <2>1, <2>2 DEF NotifyInfo
<1> HIDE DEF t
<1>2. /\ tx' \in [Writers -> TxType] /\ tx'[w] = t
      /\ \A v \in Writers : v # w => tx'[v] = tx[v]
  BY <1>1 DEF Inv, TypeOK
<1>3. Info(w) \in InfoType /\ Announces(Info(w))
  BY <1>1, InfoTyped DEF Inv, Announced
<1>4. PICK i \in Slots : i = tx[w].claim % BufLength
  BY TxTyped, LevelFacts DEF TxType
<1>5. /\ ring' \in RingType /\ ring'.infos[i] = Info(w)
      /\ \A k \in Slots : k # i => ring'.infos[k] = ring.infos[k]
  <2>1. ring' = [ring EXCEPT !.infos[i] = Info(w)]
    BY <1>4 DEF NotifyInfo
  <2> QED
    BY <1>3, <2>1, TxTyped DEF RingType
<1>6. shm' = shm /\ Segments' = Segments
  BY <1>1 DEF Segments
<1>7. TypeOK'
  BY <1>1, <1>2, <1>5 DEF Inv, TypeOK
<1>8. Mapped'
  <2>1. ASSUME NEW v \in Writers
        PROVE  /\ tx'[v].seg \in 0..Len(shm)
               /\ tx'[v].init \/ tx'[v].pc \in AtSegment =>
                    tx'[v].seg \in Segments
               /\ tx'[v].pc \in {"remove", "destroy", "last"} => ~tx'[v].init
               /\ tx'[v].pc \notin {"off", "idle", "destroy", "last", "crashed"} =>
                    tx'[v].sent \in 1..MaxMsgs
    <3>1. CASE v = w
      BY <1>1, <1>2, <3>1, TxTyped
    <3>2. CASE v # w
      BY <1>2, <3>2 DEF Inv, Mapped
    <3> QED
      BY <3>1, <3>2
  <2> QED
    BY <1>1, <1>6, <2>1 DEF Inv, Mapped
<1>9. Fresh'
  BY <1>1, <1>2, <1>6, FreshKept
<1>10. QuietShm /\ (\A u, c : WritersIn(u, c)' = WritersIn(u, c))
       /\ \A u, c : ReadersIn(u, c)' = ReadersIn(u, c)
  BY <1>1, <1>2, QuietSame DEF Inv, WritersIn, ReadersIn
<1>11. LockNumCounts' /\ Bufs'
  <2>1. \A r \in Readers :
          (rx[r].pc \in {"reading", "release"} /\ Whole(rx[r].seg) =>
             rx[r].copy = shm[rx[r].seg].buf[rx[r].info.block_index])'
    BY <1>1 DEF Inv, Bufs, Clean, Whole
  <2>2. \A v \in Writers :
          (tx[v].pc = "copy" /\ Overruns(v) => shm[tx[v].seg].spoiled)'
    BY <1>1, <1>2, <1>6, CopiesKept
  <2> QED
    BY <1>6, <1>10, <2>1, <2>2, BlocksKept DEF Bufs
<1>12. Announced'
  <2>1. Grows
    BY <1>1, <1>2, <1>6 DEF Grows
  <2>2. \A a \in InfoType : Announces(a) => Announces(a)'
    BY <2>1, AnnouncesGrows DEF Announces
  <2>3. ASSUME NEW k \in Slots, ring'.infos[k] # None
        PROVE  Announces(ring.infos[k])'
    <3>1. CASE k = i
      BY <1>3, <1>5, <2>2, <3>1 DEF Announces
    <3>2. CASE k # i
      <4>1. ring.infos[k] \in InfoType /\ Announces(ring.infos[k])
            /\ ring'.infos[k] = ring.infos[k]
        BY <1>5, <2>3, <3>2, TxTyped DEF Inv, RingType, Announced
      <4> QED
        BY <2>2, <4>1 DEF Announces
    <3> QED
      BY <3>1, <3>2
  <2>4. \A r \in Readers : (rx[r].info # None => Announces(rx[r].info))'
    BY <1>1, <2>2 DEF Inv, TypeOK, RxType, Announced, Announces
  <2>5. ASSUME NEW v \in Writers, tx'[v].pc \in {"claim", "info"}
        PROVE  Announces(Info(v))'
    <3>1. tx'[v] = tx[v]
      BY <1>1, <1>2, <2>5
    <3>2. Info(v) \in InfoType /\ Announces(Info(v))
      BY <2>5, <3>1, InfoTyped DEF Inv, Announced
    <3>3. /\ Info(v)'.seg = Info(v).seg /\ Info(v)'.msg = Info(v).msg
          /\ Info(v)'.block_index = Info(v).block_index
      BY <3>1 DEF Info
    <3> QED
      BY <2>2, <3>2, <3>3 DEF Announces
  <2> QED
    BY <2>3, <2>4, <2>5 DEF Announced
<1> QED
  BY <1>7, <1>8, <1>9, <1>11, <1>12 DEF Inv

(* A dispatcher enters or leaves its block, where no writer is: lock_num_  *)
(* follows the number of readers.                                          *)
LEMMA CountedInv ==
  ASSUME Inv, NEW r \in Readers, NEW q \in RxType, NEW s \in Segments,
         NEW b \in Blocks, NEW x \in Int,
         shm' = [shm EXCEPT ![s].lock_num[b] = x], rx' = [rx EXCEPT ![r] = q],
         UNCHANGED <<key, ring, tx>>,
         s = rx[r].seg, b = rx[r].info.block_index, q.seg = s,
         q.info \in {None, rx[r].info}, q.lock_num >= 0,
         q.pc \in {"reading", "listen"},
         q.pc = "reading" => q.info = rx[r].info /\ q.info # None
                             /\ q.copy = shm[s].buf[b],
         Clean(s) => x = Cardinality(ReadersIn(s, b)') /\ WritersIn(s, b) = {}
  PROVE  Inv'
<1>1. shm[s] \in SegmentType /\ shm[s].lock_num \in [Blocks -> Int]
  BY SegmentAt DEF Inv
<1>2. PICK e \in SegmentType :
        /\ e.lock_num = [shm[s].lock_num EXCEPT ![b] = x] /\ e.buf = shm[s].buf
        /\ e.built = shm[s].built /\ e.spoiled = shm[s].spoiled
        /\ (e.early <=> shm[s].early) /\ shm' = [shm EXCEPT ![s] = e]
  <2> DEFINE L == [shm[s].lock_num EXCEPT ![b] = x]
             e1 == [shm[s] EXCEPT !.lock_num = L]
  <2>1. shm' = [shm EXCEPT ![s] = e1]
    BY <1>1 DEF SegmentType, Inv, TypeOK
  <2>2. L \in [Blocks -> Int]
    BY <1>1
  <2> HIDE DEF L
  <2>3. /\ e1 \in SegmentType /\ e1.lock_num = L /\ e1.buf = shm[s].buf
        /\ e1.built = shm[s].built /\ e1.early = shm[s].early
          /\ e1.spoiled = shm[s].spoiled
    BY <1>1, <2>2 DEF SegmentType
  <2> HIDE DEF e1
  <2> QED
    BY <2>1, <2>3 DEF L
<1>3. /\ shm' \in Seq(SegmentType) /\ Len(shm') = Len(shm) /\ Segments' = Segments
      /\ DOMAIN shm = Segments /\ DOMAIN shm' = Segments
      /\ shm'[s] = e /\ \A u \in Segments : u # s => shm'[u] = shm[u]
  BY <1>2, Update DEF Inv
<1>4. /\ shm'[s].lock_num[b] = x
      /\ \A u \in Segments, c \in Blocks : u # s \/ c # b =>
           shm'[u].lock_num[c] = shm[u].lock_num[c]
      /\ \A u \in Segments : /\ shm'[u].buf = shm[u].buf
                             /\ (shm'[u].built <=> shm[u].built)
                             /\ (shm'[u].spoiled <=> shm[u].spoiled)
                             /\ (shm'[u].early <=> shm[u].early)
  BY <1>1, <1>2, <1>3, SMTT(30)
<1>5. \A u \in Segments : (Clean(u)' <=> Clean(u)) /\ (Whole(u)' <=> Whole(u))
  BY <1>4 DEF Clean, Whole
<1>6. /\ rx' \in [Readers -> RxType] /\ rx'[r] = q
      /\ \A u \in Readers : u # r => rx'[u] = rx[u]
  BY DEF Inv, TypeOK
<1>7. TypeOK'
  BY <1>3, <1>6 DEF Inv, TypeOK
<1>8. Mapped'
  <2>1. ASSUME NEW u \in Readers
        PROVE  /\ rx'[u].seg \in 0..Len(shm)
               /\ rx'[u].init \/ rx'[u].pc \in {"remap", "load", "cas", "reading",
                    "release", "destroy", "last"} => rx'[u].seg \in Segments
               /\ rx'[u].pc \in {"acquire", "remap", "load", "cas", "reading",
                    "release"} => rx'[u].info # None
               /\ rx'[u].lock_num >= 0
    <3>1. CASE u = r
      BY <1>6, <3>1, RxTyped
    <3>2. CASE u # r
      BY <1>6, <3>2 DEF Inv, Mapped
    <3> QED
      BY <3>1, <3>2
  <2> QED
    BY <1>3, <2>1 DEF Inv, Mapped
<1>9. Fresh'
  <2>1. \A u \in Readers : rx'[u].seg = rx[u].seg
    BY <1>6
  <2> QED
    BY <1>3, <1>4, <2>1, FreshKept
<1>10. /\ \A u, c : WritersIn(u, c)' = WritersIn(u, c)
       /\ \A u, c : u # s \/ c # b => ReadersIn(u, c)' = ReadersIn(u, c)
  BY <1>6 DEF WritersIn, ReadersIn
<1>11. LockNumCounts'
  <2>1. \A u \in Segments, c \in Blocks : u # s \/ c # b =>
          /\ shm'[u].lock_num[c] = shm[u].lock_num[c]
          /\ WritersIn(u, c)' = WritersIn(u, c) /\ ReadersIn(u, c)' = ReadersIn(u, c)
    BY <1>4, <1>10
  <2>2. Clean(s) =>
          \/ /\ shm'[s].lock_num[b] = -1
             /\ Cardinality(WritersIn(s, b)') = 1 /\ ReadersIn(s, b)' = {}
          \/ /\ shm'[s].lock_num[b] = Cardinality(ReadersIn(s, b)')
             /\ WritersIn(s, b)' = {}
    BY <1>4, <1>10
  <2>3. DOMAIN shm' = Segments
    BY <1>3
  <2> QED
    BY <1>5, <2>1, <2>2, <2>3, OneBlock
<1>12. Bufs'
  <2>1. \A u \in Segments : (Whole(u) => \A c \in Blocks :
          shm[u].buf[c] = Torn => WritersIn(u, c) # {})'
    BY <1>4, <1>5, <1>10 DEF Inv, Bufs
  <2>2. ASSUME NEW u \in Readers, rx'[u].pc \in {"reading", "release"},
               Whole(rx[u].seg)'
        PROVE  rx'[u].copy = shm'[rx'[u].seg].buf[rx'[u].info.block_index]
    <3>1. CASE u = r
      BY <1>4, <1>6, <2>2, <3>1
    <3>2. CASE u # r
      <4>1. rx'[u] = rx[u] /\ rx[u].seg \in Segments
        BY <1>6, <2>2, <3>2, RxTyped
      <4> QED
        BY <1>4, <1>5, <2>2, <4>1 DEF Inv, Bufs
    <3> QED
      BY <3>1, <3>2
  <2>3. \A v \in Writers :
          (tx[v].pc = "copy" /\ Overruns(v) => shm[tx[v].seg].spoiled)'
    BY <1>4, CopiesKept
  <2> QED
    BY <1>3, <2>1, <2>2, <2>3 DEF Bufs
<1>13. Announced'
  <2>1. Grows
    BY <1>3, <1>4 DEF Grows
  <2>2. \A u \in Readers : rx'[u].info \in {None, rx[u].info}
    BY <1>6
  <2> QED
    BY <2>1, <2>2, AnnouncedGrows
<1> QED
  BY <1>7, <1>8, <1>9, <1>11, <1>12, <1>13 DEF Inv

(* A CompareAndSwap that succeeds: the loaded number was not negative, so  *)
(* no writer is in the block.                                              *)
LEMMA CasInv ==
  ASSUME Inv, NEW r \in Readers, CasLockNum(r),
         shm[rx[r].seg].lock_num[rx[r].info.block_index] = rx[r].lock_num
  PROVE  Inv'
<1>1. PICK s \in Segments, b \in Blocks : s = rx[r].seg /\ b = rx[r].info.block_index
  BY RxTyped, InfoFacts DEF CasLockNum
<1>2. PICK x \in Int : x = shm[s].lock_num[b] + 1
  BY SegmentAt DEF Inv
<1>3. shm[s].buf[b] \in Contents
  BY SegmentAt DEF Inv
<1> DEFINE q == [rx[r] EXCEPT !.pc = "reading", !.lock_num = 0, !.tries = 0,
                              !.copy = shm[s].buf[b]]
<1>4. /\ q \in RxType /\ q.pc = "reading" /\ q.seg = rx[r].seg /\ q.info = rx[r].info
      /\ q.lock_num = 0 /\ q.copy = shm[s].buf[b]
  <2>1. PICK z \in Int, n \in Nat, c \in Contents : z = 0 /\ n = 0 /\ c = shm[s].buf[b]
    BY <1>3
  <2>2. q = [rx[r] EXCEPT !.pc = "reading", !.lock_num = z, !.tries = n, !.copy = c]
    BY <2>1
  <2> HIDE DEF q
  <2> QED
    BY <2>1, <2>2, RxTyped DEF RxType
<1>5. rx' = [rx EXCEPT ![r] = q] /\ shm' = [shm EXCEPT ![s].lock_num[b] = x]
      /\ UNCHANGED <<key, ring, tx>> /\ rx[r].pc = "cas"
  BY <1>1, <1>2, RxTyped DEF CasLockNum, RxType, Inv, TypeOK
<1> HIDE DEF q
<1>6. rx'[r] = q /\ \A u \in Readers : u # r => rx'[u] = rx[u]
  BY <1>4, <1>5 DEF Inv, TypeOK
<1>7. ReadersIn(s, b)' = ReadersIn(s, b) \cup {r} /\ r \notin ReadersIn(s, b)
  BY <1>1, <1>4, <1>5, <1>6 DEF ReadersIn
<1>8. ASSUME Clean(s)
      PROVE  x = Cardinality(ReadersIn(s, b)') /\ WritersIn(s, b) = {}
  <2>1. shm[s].lock_num[b] >= 0
    BY <1>1, RxTyped
  <2>2. shm[s].lock_num[b] = Cardinality(ReadersIn(s, b)) /\ WritersIn(s, b) = {}
        /\ IsFiniteSet(ReadersIn(s, b))
    BY <1>8, <2>1, InBlock
  <2> QED
    BY <1>2, <1>7, <2>2, FS_AddElement
<1>9. q.lock_num >= 0 /\ q.info # None
  BY <1>4, <1>5, RxTyped
<1> QED
  BY <1>1, <1>4, <1>5, <1>8, <1>9, CountedInv

LEMMA ReleaseInv ==
  ASSUME Inv, NEW r \in Readers, ReleaseReadBlock(r)
  PROVE  Inv'
<1>1. PICK s \in Segments, b \in Blocks : s = rx[r].seg /\ b = rx[r].info.block_index
  BY RxTyped, InfoFacts DEF ReleaseReadBlock
<1>2. PICK x \in Int : x = shm[s].lock_num[b] - 1
  BY SegmentAt DEF Inv
<1> DEFINE q == [rx[r] EXCEPT !.pc = "listen", !.info = None, !.copy = None]
<1>4. /\ q \in RxType /\ q.pc = "listen" /\ q.seg = rx[r].seg /\ q.info = None
      /\ q.lock_num = rx[r].lock_num
  BY RxTyped DEF RxType, Contents
<1>5. rx' = [rx EXCEPT ![r] = q] /\ shm' = [shm EXCEPT ![s].lock_num[b] = x]
      /\ UNCHANGED <<key, ring, tx>> /\ rx[r].pc = "release"
  BY <1>1, <1>2, RxTyped DEF ReleaseReadBlock, RxType, Inv, TypeOK
<1> HIDE DEF q
<1>6. rx'[r] = q /\ \A u \in Readers : u # r => rx'[u] = rx[u]
  BY <1>4, <1>5 DEF Inv, TypeOK
<1>7. ReadersIn(s, b)' = ReadersIn(s, b) \ {r} /\ r \in ReadersIn(s, b)
  BY <1>1, <1>4, <1>5, <1>6 DEF ReadersIn
<1>8. ASSUME Clean(s)
      PROVE  x = Cardinality(ReadersIn(s, b)') /\ WritersIn(s, b) = {}
  <2>1. shm[s].lock_num[b] = Cardinality(ReadersIn(s, b)) /\ WritersIn(s, b) = {}
        /\ IsFiniteSet(ReadersIn(s, b))
    BY <1>7, <1>8, InBlock
  <2> QED
    BY <1>2, <1>7, <2>1, FS_RemoveElement
<1>9. q.lock_num >= 0
  BY <1>4, RxTyped
<1> QED
  BY <1>1, <1>4, <1>5, <1>8, <1>9, CountedInv

-----------------------------------------------------------------------------
LEMMA InitInv == Init => Inv
<1> SUFFICES ASSUME Init PROVE Inv
  OBVIOUS
<1>1. shm \in Seq(SegmentType) /\ Len(shm) = 0 /\ DOMAIN shm = {} /\ Segments = {}
  BY DEF Init, Segments
<1>2. tx \in [Writers -> TxType]
  BY LevelFacts, ConfAssumption DEF Init, TxType
<1>3. rx \in [Readers -> RxType]
  BY NewTyped DEF Init
<1>4. ring \in RingType /\ \A i \in Slots : ring.infos[i] = None
  BY DEF Init, RingType
<1>5. TypeOK
  BY <1>1, <1>2, <1>3, <1>4 DEF Init, TypeOK
<1>6. Mapped
  BY <1>1 DEF Init, Mapped, NewDispatcher
<1>7. Fresh /\ LockNumCounts
  BY <1>1 DEF Init, Fresh, LockNumCounts
<1>8. Bufs /\ Announced
  BY <1>1, <1>4 DEF Init, Bufs, Announced, NewDispatcher
<1> QED
  BY <1>5, <1>6, <1>7, <1>8 DEF Inv

LEMMA StutterInv ==
  ASSUME Inv, UNCHANGED vars
  PROVE  Inv'
<1>1. UNCHANGED <<shm, key, ring, tx, rx>>
  BY DEF vars
<1>2. TypeOK' /\ Segments' = Segments
  BY <1>1 DEF Inv, TypeOK, Segments
<1>3. Mapped'
  BY <1>1, <1>2 DEF Inv, Mapped
<1>4. Fresh'
  BY <1>1, <1>2 DEF Inv, Fresh, Clean
<1>5. /\ \A s, b : WritersIn(s, b)' = WritersIn(s, b)
      /\ \A s, b : ReadersIn(s, b)' = ReadersIn(s, b)
  BY <1>1 DEF WritersIn, ReadersIn
<1>6. LockNumCounts'
  BY <1>1, <1>5, QuietSame, BlocksKept DEF Inv
<1>7. Bufs'
  <2>1. \A s : Whole(s)' <=> Whole(s)
    BY <1>1 DEF Clean, Whole
  <2>2. \A w \in Writers : Overruns(w)' <=> Overruns(w)
    BY <1>1 DEF Overruns
  <2> QED
    BY <1>1, <1>2, <1>5, <2>1, <2>2 DEF Inv, Bufs
<1>8. Announced'
  <2>1. \A a : Announces(a)' <=> Announces(a)
    BY <1>1, <1>2 DEF Announces
  <2>2. \A w \in Writers : Info(w)' = Info(w)
    BY <1>1 DEF Info
  <2> QED
    BY <1>1, <2>1, <2>2 DEF Inv, Announced
<1> QED
  BY <1>2, <1>3, <1>4, <1>6, <1>7, <1>8 DEF Inv

LEMMA TxInv ==
  ASSUME Inv, NEW w \in Writers,
         \/ Enable(w) \/ Disable(w) \/ TxSteps(w)
         \/ \E size \in Sizes : Transmit(w, size)
  PROVE  Inv'
<1>1. CASE Enable(w) \/ \E size \in Sizes : Transmit(w, size)
  BY <1>1, CallsInv, LevelFacts
<1>2. CASE \/ OpenOrCreate(w) \/ OpenOnly(w)
           \/ ConstructState(w) \/ ConstructBlocks(w) \/ CountUser(w)
  BY <1>2, OpenInv, CreateInv, StateInv, BlocksInv
<1>3. CASE RemapToWrite(w) \/ TestSize(w) \/ RecreateRemove(w)
  BY <1>3, RemapToWriteInv, TestSizeInv
<1>4. CASE NextBlock(w) \/ LockForWrite(w) \/ Written(w) \/ Overrun(w)
  BY <1>4, NextBlockInv, LockInv, WrittenInv, OverrunInv
<1>5. CASE NotifyClaim(w) \/ NotifyInfo(w) \/ NotifySeq(w)
  BY <1>5, NotifyInv, NotifyInfoInv
<1>6. CASE Disable(w) \/ DisableTest(w) \/ DisableRemove(w)
  BY <1>6, DisableInv
<1> QED
  BY <1>1, <1>2, <1>3, <1>4, <1>5, <1>6 DEF TxSteps

LEMMA RxInv ==
  ASSUME Inv, NEW r \in Readers, StartListening(r) \/ Shutdown(r) \/ RxSteps(r)
  PROVE  Inv'
<1>1. CASE StartListening(r) \/ Listen(r) \/ TakeInfo(r)
  BY <1>1, ListenInv
<1>2. CASE AcquireBlockToRead(r) \/ RemapToRead(r) \/ LoadLockNum(r)
  BY <1>2, AcquireInv, RemapToReadInv, LoadInv
<1>3. CASE CasLockNum(r)
  BY <1>3, CasFailsInv, CasInv
<1>4. CASE Parsed(r) \/ ReleaseReadBlock(r)
  BY <1>4, ParsedInv, ReleaseInv
<1>5. CASE Shutdown(r) \/ ShutdownTest(r) \/ ShutdownRemove(r)
  BY <1>5, ShutdownInv
<1> QED
  BY <1>1, <1>2, <1>3, <1>4, <1>5 DEF RxSteps

LEMMA NextInv == Inv /\ [Next]_vars => Inv'
<1> SUFFICES ASSUME Inv, [Next]_vars PROVE Inv'
  OBVIOUS
<1>1. ASSUME NEW w \in Writers,
             \/ Enable(w) \/ Disable(w) \/ TxSteps(w)
             \/ \E size \in Sizes : Transmit(w, size)
      PROVE  Inv'
  BY <1>1, TxInv
<1>2. ASSUME NEW r \in Readers, StartListening(r) \/ Shutdown(r) \/ RxSteps(r)
      PROVE  Inv'
  BY <1>2, RxInv
<1>3. CASE UNCHANGED vars
  BY <1>3, StutterInv
<1> QED
  BY <1>1, <1>2, <1>3 DEF Next, TxSteps, RxSteps

(* What holds of every reachable state of a channel over shared memory.    *)
THEOREM Invariance == Spec => []Inv
BY InitInv, NextInv, PTL DEF Spec

(* The state of the channel stays in its sets: in particular no count of a *)
(* segment's users wraps (state.h, DecreaseReferenceCounts), and a block   *)
(* that a transmitter takes exists.                                        *)
THEOREM TypeCorrect == Spec => []TypeOK
BY Invariance, PTL DEF Inv

(* lock_num_ says who is in a block, -1 for one writer and no reader and   *)
(* otherwise the number of readers (TryLockForWrite, TryLockForRead and    *)
(* the two releases), in every segment that was not opened too early.      *)
THEOREM LockNumIsACount == Spec => []LockNumCounts
BY Invariance, PTL DEF Inv

LEMMA WholeIfClean == Inv => ReadsWhole
<1> SUFFICES ASSUME Inv, NEW r \in Readers, rx[r].pc = "release", Whole(rx[r].seg)
             PROVE  /\ rx[r].copy # Torn
                    /\ rx[r].info.seg = rx[r].seg => rx[r].copy \in Messages
                    /\ rx[r].info.seg = rx[r].seg /\ rx[r].copy[1] = rx[r].info.msg[1]
                         => rx[r].copy[2] >= rx[r].info.msg[2]
  BY DEF ReadsWhole
<1>1. PICK s \in Segments, b \in Blocks :
        s = rx[r].seg /\ b = rx[r].info.block_index /\ rx[r].info \in InfoType
        /\ Announces(rx[r].info)
  BY RxTyped, InfoFacts DEF Inv, Announced
<1>2. rx[r].copy = shm[s].buf[b] /\ rx[r].copy \in Contents
  BY <1>1, RxTyped DEF Inv, Bufs, RxType
<1>3. rx[r].copy # Torn
  <2>1. r \in ReadersIn(s, b)
    BY <1>1 DEF ReadersIn
  <2>2. WritersIn(s, b) = {}
    BY <1>1, <2>1, InBlock DEF Whole
  <2> QED
    BY <1>1, <1>2, <2>2 DEF Inv, Bufs
<1>4. ASSUME rx[r].info.seg = rx[r].seg
      PROVE  rx[r].copy \in Messages
  BY <1>1, <1>2, <1>3, <1>4 DEF Announces, Contents
<1>5. ASSUME rx[r].info.seg = rx[r].seg, rx[r].copy[1] = rx[r].info.msg[1]
      PROVE  rx[r].copy[2] >= rx[r].info.msg[2]
  <2>1. PICK v \in Writers, n \in 1..MaxMsgs : rx[r].copy = <<v, n>>
    BY <1>4, <1>5 DEF Messages
  <2>2. n \in Nat /\ v = rx[r].info.msg[1] /\ rx[r].copy[2] = n
    BY <1>5, <2>1, ConfAssumption
  <2> QED
    BY <1>1, <1>2, <1>5, <2>1, <2>2 DEF Announces
<1> QED
  BY <1>3, <1>4, <1>5

(* What a callback parsed is one whole message and not older than its      *)
(* notification announced (AcquireBlockToRead, OnMessage), in every        *)
(* segment that was not opened too early and in which nothing was written  *)
(* outside of its block.                                                   *)
THEOREM WholeMessages == Spec => []ReadsWhole
BY WholeIfClean, Invariance, PTL

-----------------------------------------------------------------------------
(* The ring. What a slot's sequence number, a transmitter that is about to *)
(* store one or a dispatcher that has read one expects, the slot has.      *)

NotOlder(a, q) == a # None => a.seq >= q \/ a.lapped

Ordered ==
  /\ \A w \in Writers :
       /\ tx[w].pc \in {"info", "seq"} => tx[w].claim < ring.next_seq
       /\ tx[w].pc = "seq" =>
            NotOlder(ring.infos[tx[w].claim % BufLength], tx[w].claim)
  /\ \A i \in Slots :
       /\ NotOlder(ring.infos[i], ring.seqs[i])
       /\ \/ ring.seqs[i] = 0
          \/ ring.seqs[i] % BufLength = i /\ ring.seqs[i] < ring.next_seq
  /\ \A r \in Readers :
       /\ rx[r].pc = "take" =>
            /\ NotOlder(ring.infos[rx[r].next_seq % BufLength], rx[r].next_seq)
            /\ rx[r].next_seq = 0 \/ rx[r].next_seq < ring.next_seq
       /\ rx[r].pc \in {"new", "listen", "take"} => rx[r].info = None
       /\ NotOlder(rx[r].info, rx[r].next_seq - 1)

(* Two numbers of one slot are a whole ring apart.                         *)
LEMMA RingApart ==
  ASSUME NEW c \in Nat, NEW q \in Nat, c < q, c % BufLength = q % BufLength
  PROVE  c + BufLength <= q
<1> DEFINE a == c \div BufLength
           b == q \div BufLength
<1>1. /\ BufLength \in Nat \ {0} /\ a \in Int /\ b \in Int
      /\ c = BufLength * a + (c % BufLength) /\ c % BufLength \in Int
      /\ q = BufLength * b + (q % BufLength)
  BY ConfAssumption
<1> HIDE DEF a, b
<1>2. BufLength * a < BufLength * b /\ BufLength * a \in Int /\ BufLength * b \in Int
  BY <1>1
<1>3. a < b
  BY <1>1, <1>2
<1>4. BufLength * (a + 1) <= BufLength * b /\ BufLength * (a + 1) = BufLength * a + BufLength
  BY <1>1, <1>3
<1> QED
  BY <1>1, <1>2, <1>4

(* The numbers of the ring, of transmitters and of dispatchers.            *)
LEMMA RingTyped ==
  ASSUME Inv
  PROVE  /\ ring.next_seq \in Nat /\ BufLength \in Nat \ {0}
         /\ \A i \in Slots : ring.seqs[i] \in Nat /\ ring.infos[i] \in InfoType \cup {None}
         /\ \A w \in Writers : tx[w].claim \in Nat /\ tx[w].claim % BufLength \in Slots
         /\ \A r \in Readers : rx[r].next_seq \in Nat
                               /\ rx[r].next_seq % BufLength \in Slots
BY LevelFacts, ConfAssumption DEF Inv, TypeOK, RingType, TxType, RxType

(* A step that stores nothing in the ring.                                 *)
LEMMA NothingStored ==
  ASSUME Inv, Ordered, rx' = rx, ring'.infos = ring.infos, ring'.seqs = ring.seqs,
         ring'.next_seq \in Nat, ring'.next_seq >= ring.next_seq,
         \A w \in Writers : tx'[w].pc \in {"info", "seq"} =>
           \/ (tx'[w].pc = tx[w].pc /\ tx'[w].claim = tx[w].claim)
           \/ (tx'[w].pc = "info" /\ tx'[w].claim < ring'.next_seq)
  PROVE  Ordered'
<1>1. \A n \in Nat : n < ring.next_seq => n < ring'.next_seq
  BY RingTyped
<1>2. \A w \in Writers :
        /\ tx'[w].pc \in {"info", "seq"} => tx'[w].claim < ring'.next_seq
        /\ tx'[w].pc = "seq" =>
             NotOlder(ring'.infos[tx'[w].claim % BufLength], tx'[w].claim)
  BY <1>1, RingTyped DEF Ordered
<1>3. \A i \in Slots :
        /\ NotOlder(ring'.infos[i], ring'.seqs[i])
        /\ \/ ring'.seqs[i] = 0
           \/ ring'.seqs[i] % BufLength = i /\ ring'.seqs[i] < ring'.next_seq
  BY <1>1, RingTyped DEF Ordered
<1>4. \A r \in Readers :
        /\ rx'[r].pc = "take" =>
             /\ NotOlder(ring'.infos[rx'[r].next_seq % BufLength], rx'[r].next_seq)
             /\ rx'[r].next_seq = 0 \/ rx'[r].next_seq < ring'.next_seq
        /\ rx'[r].pc \in {"new", "listen", "take"} => rx'[r].info = None
        /\ NotOlder(rx'[r].info, rx'[r].next_seq - 1)
  BY <1>1, RingTyped DEF Ordered
<1> QED
  BY <1>2, <1>3, <1>4 DEF Ordered, NotOlder

LEMMA InfoOrdered ==
  ASSUME Inv, Ordered, NEW w \in Writers, NotifyInfo(w)
  PROVE  Ordered'
<1>1. PICK c \in Nat, i \in Slots : c = tx[w].claim /\ i = c % BufLength
  BY RingTyped
<1>2. /\ ring'.next_seq = ring.next_seq /\ ring'.seqs = ring.seqs
      /\ ring'.infos[i] = Info(w)
      /\ \A k \in Slots : k # i => ring'.infos[k] = ring.infos[k]
      /\ c < ring.next_seq /\ rx' = rx
  BY <1>1, TxTyped DEF NotifyInfo, RingType, Ordered
<1>3. /\ tx'[w].claim = c
      /\ \A v \in Writers : v # w => tx'[v] = tx[v]
  BY <1>1, TxTyped DEF NotifyInfo, Inv, TypeOK, TxType
<1>4. /\ Info(w).seq = c
      /\ c + BufLength < ring.next_seq => Info(w).lapped
  BY <1>1 DEF Info
<1>5. \A q \in Nat : q % BufLength = i /\ (q = 0 \/ q < ring.next_seq) =>
        NotOlder(ring'.infos[i], q)
  <2> SUFFICES ASSUME NEW q \in Nat, q % BufLength = i, q = 0 \/ q < ring.next_seq, c < q
               PROVE  Info(w).lapped
    BY <1>2, <1>4 DEF NotOlder
  <2>1. c + BufLength <= q
    BY <1>1, RingApart
  <2> QED
    BY <1>4, <2>1, RingTyped
<1>6. \A v \in Writers :
        /\ tx'[v].pc \in {"info", "seq"} => tx'[v].claim < ring'.next_seq
        /\ tx'[v].pc = "seq" =>
             NotOlder(ring'.infos[tx'[v].claim % BufLength], tx'[v].claim)
  <2> SUFFICES ASSUME NEW v \in Writers
               PROVE  /\ tx'[v].pc \in {"info", "seq"} => tx'[v].claim < ring'.next_seq
                      /\ tx'[v].pc = "seq" =>
                           NotOlder(ring'.infos[tx'[v].claim % BufLength], tx'[v].claim)
    OBVIOUS
  <2>1. CASE v = w
    BY <1>1, <1>2, <1>3, <1>5, <2>1
  <2>2. CASE v # w
    BY <1>2, <1>3, <1>5, <2>2, RingTyped DEF Ordered
  <2> QED
    BY <2>1, <2>2
<1>7. \A k \in Slots : NotOlder(ring'.infos[k], ring'.seqs[k])
  <2> SUFFICES ASSUME NEW k \in Slots PROVE NotOlder(ring'.infos[k], ring.seqs[k])
    BY <1>2
  <2>1. CASE k = i /\ ring.seqs[k] # 0
    BY <1>5, <2>1, RingTyped DEF Ordered
  <2>2. CASE k = i /\ ring.seqs[k] = 0
    BY <1>2, <1>4, <2>2 DEF NotOlder
  <2>3. CASE k # i
    BY <1>2, <2>3 DEF Ordered
  <2> QED
    BY <2>1, <2>2, <2>3
<1>8. \A r \in Readers : rx[r].pc = "take" =>
        NotOlder(ring'.infos[rx[r].next_seq % BufLength], rx[r].next_seq)
  BY <1>2, <1>5, RingTyped DEF Ordered
<1> QED
  BY <1>2, <1>6, <1>7, <1>8 DEF Ordered, NotOlder

LEMMA SeqOrdered ==
  ASSUME Inv, Ordered, NEW w \in Writers, NotifySeq(w)
  PROVE  Ordered'
<1>1. PICK c \in Nat, i \in Slots : c = tx[w].claim /\ i = c % BufLength
  BY RingTyped
<1>2. /\ ring'.next_seq = ring.next_seq /\ ring'.infos = ring.infos
      /\ ring'.seqs[i] = c
      /\ \A k \in Slots : k # i => ring'.seqs[k] = ring.seqs[k]
      /\ c < ring.next_seq /\ NotOlder(ring.infos[i], c) /\ rx' = rx
  BY <1>1, TxTyped DEF NotifySeq, RingType, Ordered
<1>3. /\ tx'[w].pc = "idle"
      /\ \A v \in Writers : v # w => tx'[v] = tx[v]
  BY TxTyped DEF NotifySeq, Inv, TypeOK, TxType
<1>4. \A k \in Slots :
        /\ NotOlder(ring'.infos[k], ring'.seqs[k])
        /\ \/ ring'.seqs[k] = 0
           \/ ring'.seqs[k] % BufLength = k /\ ring'.seqs[k] < ring'.next_seq
  BY <1>1, <1>2 DEF Ordered
<1>5. \A v \in Writers :
        /\ tx'[v].pc \in {"info", "seq"} => tx'[v].claim < ring'.next_seq
        /\ tx'[v].pc = "seq" =>
             NotOlder(ring'.infos[tx'[v].claim % BufLength], tx'[v].claim)
  BY <1>2, <1>3 DEF Ordered
<1> QED
  BY <1>2, <1>4, <1>5 DEF Ordered, NotOlder

(* A step of a dispatcher.                                                 *)
LEMMA ReaderOrdered ==
  ASSUME Inv, Ordered, NEW r \in Readers,
         UNCHANGED <<ring, tx>>, \A u \in Readers : u # r => rx'[u] = rx[u],
         rx'[r].pc = "take" =>
           /\ NotOlder(ring.infos[rx'[r].next_seq % BufLength], rx'[r].next_seq)
           /\ rx'[r].next_seq = 0 \/ rx'[r].next_seq < ring.next_seq,
         rx'[r].pc \in {"new", "listen", "take"} => rx'[r].info = None,
         NotOlder(rx'[r].info, rx'[r].next_seq - 1)
  PROVE  Ordered'
<1>1. \A u \in Readers :
        /\ rx'[u].pc = "take" =>
             /\ NotOlder(ring.infos[rx'[u].next_seq % BufLength], rx'[u].next_seq)
             /\ rx'[u].next_seq = 0 \/ rx'[u].next_seq < ring.next_seq
        /\ rx'[u].pc \in {"new", "listen", "take"} => rx'[u].info = None
        /\ NotOlder(rx'[u].info, rx'[u].next_seq - 1)
  BY DEF Ordered
<1> QED
  BY <1>1 DEF Ordered, NotOlder

LEMMA TxOrdered ==
  ASSUME Inv, Ordered, NEW w \in Writers,
         \/ Enable(w) \/ Disable(w) \/ TxSteps(w)
         \/ \E size \in Sizes : Transmit(w, size)
  PROVE  Ordered'
<1>1. CASE NotifyInfo(w) \/ NotifySeq(w)
  BY <1>1, InfoOrdered, SeqOrdered
<1>2. CASE ~(NotifyInfo(w) \/ NotifySeq(w))
  <2>1. /\ rx' = rx /\ ring'.infos = ring.infos /\ ring'.seqs = ring.seqs
        /\ ring'.next_seq \in Nat /\ ring'.next_seq >= ring.next_seq
        /\ \A v \in Writers : v # w => tx'[v] = tx[v]
        /\ tx'[w].pc \in {"info", "seq"} =>
             tx'[w].pc = "info" /\ tx'[w].claim < ring'.next_seq
    <3> DEFINE Quiet == /\ rx' = rx /\ ring' = ring
                        /\ \A v \in Writers : v # w => tx'[v] = tx[v]
                        /\ tx'[w].pc \notin {"info", "seq"}
    <3>1. CASE NotifyClaim(w)
      <4>1. ring' = [ring EXCEPT !.next_seq = ring.next_seq + 1]
            /\ tx' = [tx EXCEPT ![w].claim = ring.next_seq, ![w].pc = "info"]
            /\ rx' = rx
        BY <3>1 DEF NotifyClaim
      <4> QED
        BY <4>1, RingTyped, TxTyped, SMTT(30) DEF RingType, Inv, TypeOK, TxType
    <3>2. ASSUME NEW size \in Sizes, Transmit(w, size)
          PROVE  Quiet
      BY <3>2, TxTyped, ZenonT(40) DEF Transmit, Inv, TypeOK, TxType
    <3>3. Enable(w) => Quiet
      BY TxTyped DEF Enable, Inv, TypeOK, TxType
    <3>4. OpenOrCreate(w) => Quiet
      BY TxTyped DEF OpenOrCreate, Inv, TypeOK, TxType
    <3>5. OpenOnly(w) => Quiet
      BY TxTyped DEF OpenOnly, AfterOpen, Inv, TypeOK, TxType
    <3>6. ConstructState(w) \/ ConstructBlocks(w) => Quiet
      BY TxTyped DEF ConstructState, ConstructBlocks, Inv, TypeOK, TxType
    <3>61. CountUser(w) => Quiet
      BY TxTyped DEF CountUser, AfterOpen, Inv, TypeOK, TxType
    <3>7. RemapToWrite(w) => Quiet
      BY TxTyped DEF RemapToWrite, Inv, TypeOK, TxType
    <3>8. TestSize(w) => Quiet
      BY TxTyped DEF TestSize, Inv, TypeOK, TxType
    <3>9. RecreateRemove(w) => Quiet
      BY TxTyped DEF RecreateRemove, Inv, TypeOK, TxType
    <3>10. LockForWrite(w) => Quiet
      BY TxTyped, SMTT(30) DEF LockForWrite, Inv, TypeOK, TxType
    <3>101. NextBlock(w) => Quiet
      BY TxTyped, SMTT(30) DEF NextBlock, Inv, TypeOK, TxType
    <3>11. Written(w) => Quiet
      BY TxTyped DEF Written, Inv, TypeOK, TxType
    <3>111. Overrun(w) => Quiet
      BY TxTyped DEF Overrun, Inv, TypeOK, TxType
    <3>12. Disable(w) => Quiet
      BY TxTyped DEF Disable, Inv, TypeOK, TxType
    <3>121. DisableTest(w) => Quiet
      BY TxTyped DEF DisableTest, Inv, TypeOK, TxType
    <3>13. DisableRemove(w) => Quiet
      BY TxTyped DEF DisableRemove, Inv, TypeOK, TxType
    <3> QED
      BY <1>2, <3>1, <3>2, <3>3, <3>4, <3>5, <3>6, <3>61, <3>7, <3>8, <3>9, <3>10,
         <3>101, <3>11, <3>111, <3>12, <3>121, <3>13, RingTyped
         DEF TxSteps
  <2> QED
    BY <2>1, NothingStored
<1> QED
  BY <1>1, <1>2

LEMMA RxOrdered ==
  ASSUME Inv, Ordered, NEW r \in Readers,
         StartListening(r) \/ Shutdown(r) \/ RxSteps(r)
  PROVE  Ordered'
<1>1. /\ UNCHANGED <<ring, tx>> /\ \A u \in Readers : u # r => rx'[u] = rx[u]
  BY DEF StartListening, Shutdown, RxSteps, Listen, TakeInfo, AcquireBlockToRead,
         RemapToRead, LoadLockNum, CasLockNum, Parsed, ReleaseReadBlock,
         ShutdownTest, ShutdownRemove, Crash, Inv, TypeOK
<1>2. \A q : NotOlder(None, q)
  BY DEF NotOlder
<1>3. NewDispatcher.info = None
      /\ [NewDispatcher EXCEPT !.pc = "off"].info = None
      /\ [NewDispatcher EXCEPT !.pc = "off"].pc = "off"
      /\ [NewDispatcher EXCEPT !.pc = "crashed"].info = None
      /\ [NewDispatcher EXCEPT !.pc = "crashed"].pc = "crashed"
  BY DEF NewDispatcher
<1>31. Crash(r) => rx'[r].info = None /\ rx'[r].pc = "crashed"
  BY <1>3 DEF Crash, Inv, TypeOK
<1>4. /\ rx'[r].pc = "take" =>
           /\ NotOlder(ring.infos[rx'[r].next_seq % BufLength], rx'[r].next_seq)
           /\ rx'[r].next_seq = 0 \/ rx'[r].next_seq < ring.next_seq
      /\ rx'[r].pc \in {"new", "listen", "take"} => rx'[r].info = None
      /\ NotOlder(rx'[r].info, rx'[r].next_seq - 1)
  <2>1. CASE StartListening(r) \/ Shutdown(r)
    <3>1. rx'[r].info = None /\ rx'[r].pc \in {"listen", "destroy", "off"}
      BY <2>1, RxTyped DEF StartListening, Shutdown, Ordered, Inv, TypeOK, RxType
    <3> QED
      BY <1>2, <3>1
  <2>2. CASE Listen(r)
    <3>1. PICK j \in Slots, q \in Nat :
            /\ j = rx[r].next_seq % BufLength /\ q = ring.seqs[j]
            /\ q >= rx[r].next_seq /\ rx[r].pc = "listen"
            /\ rx' = [rx EXCEPT ![r].pc = "take", ![r].next_seq = q]
      BY <2>2, RingTyped DEF Listen
    <3>2. /\ rx'[r].pc = "take" /\ rx'[r].next_seq = q /\ rx'[r].info = None
      BY <3>1, RxTyped DEF Ordered, Inv, TypeOK, RxType
    <3>3. q % BufLength = j /\ (q = 0 \/ q < ring.next_seq)
      BY <3>1, RingTyped DEF Ordered
    <3> QED
      BY <1>2, <3>1, <3>2, <3>3 DEF Ordered
  <2>3. CASE TakeInfo(r)
    <3>1. PICK j \in Slots, q \in Nat, a \in InfoType \cup {None} :
            /\ q = rx[r].next_seq /\ j = q % BufLength /\ a = ring.infos[j]
            /\ rx[r].pc = "take"
            /\ rx' = [rx EXCEPT ![r].info = a, ![r].next_seq = q + 1,
                        ![r].pc = IF a = None THEN "listen" ELSE "acquire"]
      <4>1. PICK j \in Slots, q \in Nat, a \in InfoType \cup {None} :
              q = rx[r].next_seq /\ j = q % BufLength /\ a = ring.infos[j]
        BY RingTyped
      <4> QED
        BY <2>3, <4>1 DEF TakeInfo
    <3>2. /\ rx'[r].info = a /\ rx'[r].next_seq = q + 1
          /\ rx'[r].pc = IF a = None THEN "listen" ELSE "acquire"
      BY <3>1, RxTyped DEF Inv, TypeOK, RxType
    <3>3. NotOlder(a, q) /\ (q + 1) - 1 = q
      BY <3>1 DEF Ordered
    <3> QED
      BY <3>2, <3>3
  <2>4. CASE AcquireBlockToRead(r) \/ RemapToRead(r) \/ LoadLockNum(r)
    <3>1. \/ rx'[r].info = None /\ rx'[r].pc = "crashed"
          \/ /\ rx'[r].info = rx[r].info /\ rx'[r].next_seq = rx[r].next_seq
             /\ rx'[r].pc \in {"remap", "load", "cas"}
      <4>1. CASE AcquireBlockToRead(r)
        BY <1>31, <4>1, RxTyped DEF AcquireBlockToRead, Inv, TypeOK, RxType
      <4>2. CASE RemapToRead(r)
        BY <1>31, <4>2, RxTyped DEF RemapToRead, Inv, TypeOK, RxType
      <4>3. CASE LoadLockNum(r)
        BY <1>31, <4>3, RxTyped DEF LoadLockNum, Inv, TypeOK, RxType
      <4> QED
        BY <2>4, <4>1, <4>2, <4>3
    <3> QED
      BY <1>2, <3>1 DEF Ordered
  <2>5. CASE CasLockNum(r) \/ Parsed(r)
    <3>1. \/ rx'[r].info = None /\ rx'[r].pc = "crashed"
          \/ /\ rx'[r].info = rx[r].info /\ rx'[r].next_seq = rx[r].next_seq
             /\ rx'[r].pc \in {"load", "reading", "release"}
      <4>1. CASE CasLockNum(r)
        BY <1>31, <4>1, RxTyped DEF CasLockNum, Inv, TypeOK, RxType
      <4>2. CASE Parsed(r)
        BY <1>31, <4>2, RxTyped DEF Parsed, Inv, TypeOK, RxType
      <4> QED
        BY <2>5, <4>1, <4>2
    <3> QED
      BY <1>2, <3>1 DEF Ordered
  <2>6. CASE ReleaseReadBlock(r) \/ ShutdownRemove(r)
    <3>1. rx'[r].info = None /\ rx'[r].pc \in {"listen", "off"}
      <4>1. CASE ReleaseReadBlock(r)
        BY <4>1, RxTyped DEF ReleaseReadBlock, Inv, TypeOK, RxType
      <4>2. CASE ShutdownRemove(r)
        BY <1>3, <4>2, RxTyped DEF ShutdownRemove, Inv, TypeOK, RxType
      <4> QED
        BY <2>6, <4>1, <4>2
    <3> QED
      BY <1>2, <3>1
  <2>7. CASE ShutdownTest(r)
    <3>1. \/ rx'[r].info = None /\ rx'[r].pc = "off"
          \/ /\ rx'[r].info = rx[r].info /\ rx'[r].next_seq = rx[r].next_seq
             /\ rx'[r].pc = "last"
      <4>1. CASE shm[rx[r].seg].reference_count = 0
        BY <2>7, <4>1, RxTyped DEF ShutdownTest, Inv, TypeOK, RxType
      <4>2. CASE shm[rx[r].seg].reference_count # 0
        BY <1>3, <2>7, <4>2, RxTyped DEF ShutdownTest, Inv, TypeOK, RxType
      <4> QED
        BY <4>1, <4>2
    <3> QED
      BY <1>2, <3>1 DEF Ordered
  <2> QED
    BY <2>1, <2>2, <2>3, <2>4, <2>5, <2>6, <2>7 DEF RxSteps
<1> QED
  BY <1>1, <1>4, ReaderOrdered

LEMMA OrderedNext == Inv /\ Ordered /\ [Next]_vars => Ordered'
<1> SUFFICES ASSUME Inv, Ordered, [Next]_vars PROVE Ordered'
  OBVIOUS
<1>1. ASSUME NEW w \in Writers,
             \/ Enable(w) \/ Disable(w) \/ TxSteps(w)
             \/ \E size \in Sizes : Transmit(w, size)
      PROVE  Ordered'
  BY <1>1, TxOrdered
<1>2. ASSUME NEW r \in Readers, StartListening(r) \/ Shutdown(r) \/ RxSteps(r)
      PROVE  Ordered'
  BY <1>2, RxOrdered
<1>3. CASE UNCHANGED vars
  BY <1>3, NothingStored, RingTyped DEF vars
<1> QED
  BY <1>1, <1>2, <1>3 DEF Next, TxSteps, RxSteps

(* A dispatcher gets an older notification than it expects only from a     *)
(* transmitter that was passed by a whole ring before it stored it         *)
(* (Notify, Listen), whatever the length of the ring.                      *)
THEOREM OnlyLappedIsStale == Spec => []NeverStale
<1>1. Init => Ordered
  <2> SUFFICES ASSUME Init PROVE Ordered
    OBVIOUS
  <2>1. /\ \A w \in Writers : tx[w].pc = "off"
        /\ \A r \in Readers : rx[r].pc = "new" /\ rx[r].info = None
        /\ \A i \in Slots : ring.infos[i] = None /\ ring.seqs[i] = 0
    BY DEF Init, NewDispatcher
  <2> QED
    BY <2>1 DEF Ordered, NotOlder
<1>2. Ordered => NeverStale
  BY DEF Ordered, NeverStale, NotOlder
<1> QED
  BY <1>1, <1>2, OrderedNext, Invariance, PTL DEF Spec

-----------------------------------------------------------------------------
(* Sizes. conf_ of a Segment object says the size of the segment that it   *)
(* has mapped, and who writes has compared with it, or created the segment *)
(* for the message.                                                        *)

SizedFor(w) ==
  /\ tx[w].pc \in {"open", "openonly", "construct", "blocks", "count"} => ~tx[w].init
  /\ tx[w].pc \in {"remap", "size", "lock", "trylock", "copy"} => tx[w].init
  /\ (tx[w].init \/ tx[w].pc \in {"blocks", "count"}) /\ Clean(tx[w].seg) =>
       tx[w].conf = shm[tx[w].seg].ceiling
  /\ tx[w].recreating => tx[w].pc \in {"open", "openonly", "construct", "blocks",
                                       "count", "lock", "trylock", "copy", "overran"}
  /\ tx[w].pc \in {"open", "construct", "blocks", "count"} /\ tx[w].recreating
       /\ tx[w].size \in Levels => tx[w].size = tx[w].conf
  /\ tx[w].pc \in {"lock", "trylock", "copy"} /\ ~tx[w].recreating
       /\ tx[w].size \in Levels => tx[w].size <= tx[w].conf

Sized ==
  /\ \A w \in Writers : SizedFor(w)
  /\ \A s \in Segments : shm[s].built /\ Clean(s) => shm[s].ceiling # 0

LEMMA SizesSame ==
  ASSUME DOMAIN shm' = Segments, DOMAIN shm = Segments, Inv,
         \A s \in Segments : /\ shm'[s].ceiling = shm[s].ceiling
                            /\ (shm'[s].early <=> shm[s].early)
                            /\ (shm'[s].built <=> shm[s].built)
  PROVE  SizesStay
<1>1. Segments' = Segments
  BY SegmentAt, LenProperties DEF Segments
<1> QED
  BY <1>1 DEF SizesStay, Clean

(* Only the placement new of State gives a segment another size, and only  *)
(* that of the Blocks makes one built.                                     *)
LEMMA TxSizes ==
  ASSUME Inv, NEW w \in Writers,
         \/ Enable(w) \/ Disable(w)
         \/ (TxSteps(w) /\ ~ConstructState(w) /\ ~ConstructBlocks(w))
         \/ \E size \in Sizes : Transmit(w, size)
  PROVE  SizesStay
<1>1. DOMAIN shm = Segments /\ shm \in Seq(SegmentType)
      /\ \A s \in Segments : shm[s] \in SegmentType
  BY SegmentAt, LenProperties DEF Inv, TypeOK, Segments
<1>2. shm' = shm => SizesStay
  BY QuietSame DEF Inv
<1>3. ASSUME key # 0, shm' = Opened PROVE SizesStay
  BY <1>3, OpenedQuiet DEF Inv
<1>4. ASSUME NEW s \in Segments, shm' = Decreased(s) PROVE SizesStay
  BY <1>4, DecreasedQuiet DEF Inv
<1>5. CASE OpenOrCreate(w)
  <2>1. ASSUME shm' = Append(shm, NewSegment) PROVE SizesStay
    <3>1. /\ Len(shm') = Len(shm) + 1 /\ shm'[Len(shm) + 1] = NewSegment
          /\ \A s \in Segments : shm'[s] = shm[s]
      BY <1>1, <2>1, AppendProperties DEF Segments
    <3>2. ~NewSegment.built
      BY DEF NewSegment
    <3>3. \A s \in Segments' : s \in Segments \/ s = Len(shm) + 1
      BY <1>1, <3>1, LenProperties DEF Segments
    <3> QED
      BY <3>1, <3>2, <3>3 DEF SizesStay, Clean
  <2> QED
    BY <1>2, <1>5, <2>1 DEF OpenOrCreate
<1>6. CASE TestSize(w)
  <2>1. ASSUME NEW u, shm' = [shm EXCEPT ![u].need_remap = TRUE]
        PROVE  SizesStay
    BY <1>1, <2>1, SizesSame DEF SegmentType
  <2> QED
    BY <1>2, <1>6, <2>1 DEF TestSize
<1>7. CASE NextBlock(w)
  <2>1. ASSUME NEW u, NEW n, shm' = [shm EXCEPT ![u].seq = n]
        PROVE  SizesStay
    BY <1>1, <2>1, SizesSame DEF SegmentType
  <2> QED
    BY <1>7, <2>1 DEF NextBlock
<1>8. CASE LockForWrite(w)
  <2>1. PICK u, b, n, m, o : /\ u = tx[w].seg /\ b = tx[w].index /\ n = -1 /\ m = Torn
                             /\ o = (shm[u].spoiled \/ Overruns(w))
    OBVIOUS
  <2>2. ASSUME shm' # shm
        PROVE  shm' = [shm EXCEPT ![u].lock_num[b] = n, ![u].buf[b] = m,
                                  ![u].spoiled = @ \/ Overruns(w)]
    BY <1>8, <2>1, <2>2 DEF LockForWrite
  <2>3. ASSUME shm' # shm
        PROVE  shm' = [shm EXCEPT ![u].lock_num[b] = n, ![u].buf[b] = m,
                                  ![u].spoiled = o]
    BY <1>1, <2>1, <2>2, <2>3 DEF SegmentType
  <2>4. ASSUME shm' = [shm EXCEPT ![u].lock_num[b] = n, ![u].buf[b] = m, ![u].spoiled = o]
        PROVE  SizesStay
    BY <1>1, <2>4, SizesSame DEF SegmentType
  <2> QED
    BY <1>2, <2>3, <2>4
<1>9. CASE Written(w)
  <2>1. ASSUME NEW u, NEW b, NEW n, NEW B,
               shm' = [shm EXCEPT ![u].buf = B, ![u].lock_num[b] = n]
        PROVE  SizesStay
    BY <1>1, <2>1, SizesSame DEF SegmentType
  <2> QED
    <3>1. PICK last :
            shm' = [shm EXCEPT
             ![tx[w].seg].buf = [b \in Blocks |->
                IF b = tx[w].index THEN <<w, tx[w].sent>>
                ELSE IF b \in tx[w].index..last THEN Torn ELSE @[b]],
             ![tx[w].seg].lock_num[tx[w].index] = @ + 1]
      BY <1>9 DEF Written
    <3> QED
      BY <2>1, <3>1
<1>10. CASE Overrun(w)
  <2>1. ASSUME NEW u, NEW B, shm' = [shm EXCEPT ![u].buf = B]
        PROVE  SizesStay
    BY <1>1, <2>1, SizesSame DEF SegmentType
  <2> QED
    BY <1>10, <2>1, ZenonT(40) DEF Overrun
<1>11. CASE CountUser(w)
  <2>1. ASSUME NEW u, NEW n, shm' = [shm EXCEPT ![u].reference_count = n]
        PROVE  SizesStay
    BY <1>1, <2>1, SizesSame DEF SegmentType
  <2> QED
    BY <1>11, <2>1 DEF CountUser
<1>12. CASE OpenOnly(w) \/ RemapToWrite(w)
  BY <1>2, <1>3, <1>12 DEF OpenOnly, RemapToWrite
<1>13. CASE Disable(w)
  BY <1>2, <1>4, <1>13, TxTyped DEF Disable
<1> QED
  BY <1>2, <1>5, <1>6, <1>7, <1>8, <1>9, <1>10, <1>11, <1>12, <1>13
     DEF TxSteps, Enable, Transmit, RecreateRemove, NotifyClaim, NotifyInfo, NotifySeq,
         DisableTest, DisableRemove

LEMMA RxSizes ==
  ASSUME Inv, NEW r \in Readers, StartListening(r) \/ Shutdown(r) \/ RxSteps(r)
  PROVE  SizesStay
<1>1. DOMAIN shm = Segments /\ \A s \in Segments : shm[s] \in SegmentType
  BY SegmentAt, LenProperties DEF Inv, TypeOK, Segments
<1>2. shm' = shm => SizesStay
  BY QuietSame DEF Inv
<1>3. ASSUME key # 0, shm' = Opened PROVE SizesStay
  BY <1>3, OpenedQuiet DEF Inv
<1>4. ASSUME NEW s \in Segments, shm' = Decreased(s) PROVE SizesStay
  BY <1>4, DecreasedQuiet DEF Inv
<1>5. ASSUME NEW u, NEW b, NEW n, shm' = [shm EXCEPT ![u].lock_num[b] = n]
      PROVE  SizesStay
  BY <1>1, <1>5, SizesSame DEF SegmentType
<1>6. CASE AcquireBlockToRead(r) \/ RemapToRead(r)
  BY <1>2, <1>3, <1>6, SpoiledQuiet DEF AcquireBlockToRead, RemapToRead, Inv
<1>7. CASE CasLockNum(r)
  <2> DEFINE u == rx[r].seg
             b == rx[r].info.block_index
  <2>1. shm' = shm \/ shm' = [shm EXCEPT ![u].lock_num[b] = shm[u].lock_num[b] + 1]
    BY <1>7 DEF CasLockNum
  <2> QED
    BY <1>2, <1>5, <2>1
<1>8. CASE ReleaseReadBlock(r)
  BY <1>5, <1>8 DEF ReleaseReadBlock
<1>9. CASE Shutdown(r)
  BY <1>2, <1>4, <1>9, RxTyped DEF Shutdown
<1> QED
  BY <1>2, <1>6, <1>7, <1>8, <1>9
     DEF RxSteps, StartListening, Listen, TakeInfo, LoadLockNum, Parsed, ShutdownTest,
         ShutdownRemove

(* Who does nothing keeps its size, and so do segments.                    *)
LEMMA SizedKept ==
  ASSUME Inv, NEW v \in Writers, SizedFor(v), tx'[v] = tx[v], SizesStay
  PROVE  SizedFor(v)'
BY TxTyped DEF SizedFor, SizesStay, Clean

LEMMA CeilingsKept ==
  ASSUME Inv, Sized, SizesStay
  PROVE  (\A s \in Segments : shm[s].built /\ Clean(s) => shm[s].ceiling # 0)'
BY DEF Sized, SizesStay, Clean

(* What OpenOnly says of the size, when nobody is to construct the segment.*)
LEMMA OpenedSize ==
  ASSUME Inv, Sized, key # 0, shm' = Opened
  PROVE  ~shm'[key].early => Conf(shm[key].ceiling) = shm'[key].ceiling
<1>1. /\ key \in Segments /\ 0 \notin Segments /\ QuietShm /\ SizesStay
      /\ MayMap(0, key)
  BY OpenedQuiet DEF Inv, Segments
<1>2. ~shm[key].built => shm'[key].early
  BY <1>1 DEF MayMap
<1>3. /\ shm'[key].ceiling = shm[key].ceiling
      /\ ~shm'[key].early => ~shm[key].early
      /\ shm[key].ceiling \in Levels \cup {0}
  BY <1>1, SegmentAt DEF SizesStay, Clean, Inv, SegmentType
<1>4. ~shm'[key].early => shm[key].ceiling \in Levels
  BY <1>1, <1>2, <1>3 DEF Sized, Clean
<1> QED
  BY <1>3, <1>4, LevelFacts

LEMMA SizesTyped ==
  ASSUME Inv, NEW w \in Writers
  PROVE  /\ tx[w].size \in Nat /\ tx[w].conf \in Nat
         /\ tx \in [Writers -> TxType] /\ tx[w] \in TxType
<1>1. tx[w].size \in Sizes /\ tx[w].conf \in Levels /\ tx[w] \in TxType
  BY TxTyped DEF TxType
<1> QED
  BY <1>1, LevelFacts DEF Inv, TypeOK

LEMMA ActorSized ==
  ASSUME Inv, Sized, NEW w \in Writers,
         \/ Enable(w) \/ Disable(w) 
         \/ (TxSteps(w) /\ ~ConstructState(w) /\ ~ConstructBlocks(w))
         \/ \E size \in Sizes : Transmit(w, size)
  PROVE  SizedFor(w)'
<1>1. SizesStay
  BY TxSizes
<1>2. SizedFor(w)
  BY DEF Sized
<1>3. ASSUME NEW size \in Sizes, Transmit(w, size)
      PROVE  SizedFor(w)'
  <2>1. /\ tx'[w].seg = tx[w].seg /\ (tx'[w].init <=> tx[w].init)
        /\ tx'[w].conf = tx[w].conf /\ (tx'[w].recreating <=> tx[w].recreating)
        /\ tx'[w].pc = IF tx[w].init THEN "remap" ELSE "open"
        /\ tx[w].pc = "idle"
    <3>1. PICK n :
            /\ tx[w].pc = "idle"
            /\ tx' = [tx EXCEPT ![w].sent = n, ![w].size = size,
                         ![w].pc = IF tx[w].init THEN "remap" ELSE "open"]
      BY <1>3 DEF Transmit
    <3> QED
      BY <3>1, SizesTyped DEF TxType
  <2> QED
    BY <1>1, <1>2, <2>1, TxTyped DEF SizedFor, SizesStay, Clean
<1>4. CASE Enable(w)
  BY <1>1, <1>2, <1>4, TxTyped, LevelFacts
     DEF Enable, SizedFor, SizesStay, Clean, Inv, TypeOK, TxType
<1>5. CASE OpenOrCreate(w)
  <2>1. /\ tx'[w].pc \in {"construct", "openonly"} /\ (tx'[w].init <=> tx[w].init)
        /\ tx'[w].conf = tx[w].conf /\ (tx'[w].recreating <=> tx[w].recreating)
        /\ tx'[w].size = tx[w].size /\ tx[w].pc = "open"
    <3>1. CASE key = 0
      <4>1. tx' = [tx EXCEPT ![w].seg = key', ![w].pc = "construct"] /\ tx[w].pc = "open"
        BY <1>5, <3>1 DEF OpenOrCreate
      <4> QED
        BY <4>1, SizesTyped DEF TxType
    <3>2. CASE key # 0
      <4>1. tx' = [tx EXCEPT ![w].pc = "openonly"] /\ tx[w].pc = "open"
        BY <1>5, <3>2 DEF OpenOrCreate
      <4> QED
        BY <4>1, SizesTyped DEF TxType
    <3> QED
      BY <3>1, <3>2
  <2>2. ~tx[w].init
    BY <1>2, <2>1 DEF SizedFor
  <2>3. tx[w].recreating /\ tx[w].size \in Levels => tx[w].size = tx[w].conf
    BY <1>2, <2>1 DEF SizedFor
  <2> QED
    BY <2>1, <2>2, <2>3 DEF SizedFor
<1>6. CASE OpenOnly(w)
  <2>1. CASE key = 0
    <3>1. /\ tx'[w].pc = "idle" /\ (tx'[w].init <=> tx[w].init) /\ ~tx'[w].recreating
          /\ tx[w].pc = "openonly"
      <4>1. /\ tx' = [tx EXCEPT ![w].pc = "idle", ![w].recreating = FALSE]
            /\ tx[w].pc = "openonly"
        BY <1>6, <2>1 DEF OpenOnly
      <4> QED
        BY <4>1, SizesTyped DEF TxType
    <3> QED
      BY <1>2, <3>1 DEF SizedFor
  <2>2. CASE key # 0
    <3>1. /\ tx'[w].pc = AfterOpen(w) /\ tx'[w].seg = key
          /\ tx'[w].init /\ (tx'[w].recreating <=> tx[w].recreating)
          /\ tx'[w].conf = Conf(shm[key].ceiling) /\ shm' = Opened
      <4>1. /\ tx' = [tx EXCEPT ![w].seg = key, ![w].init = TRUE,
                         ![w].conf = Conf(shm[key].ceiling), ![w].pc = AfterOpen(w)]
            /\ shm' = Opened
        BY <1>6, <2>2 DEF OpenOnly
      <4> QED
        BY <4>1, SizesTyped DEF TxType
    <3>2. ~shm'[key].early => Conf(shm[key].ceiling) = shm'[key].ceiling
      BY <2>2, <3>1, OpenedSize
    <3>3. /\ tx'[w].pc = IF tx'[w].recreating THEN "lock" ELSE "remap"
          /\ Clean(tx[w].seg)' => tx'[w].conf = shm'[tx'[w].seg].ceiling
      BY <3>1, <3>2 DEF AfterOpen, Clean
    <3> QED
      BY <3>1, <3>3 DEF SizedFor
  <2> QED
    BY <2>1, <2>2
<1>7. CASE RemapToWrite(w)
  <2>1. CASE ~shm[tx[w].seg].need_remap
    <3>1. /\ tx'[w].pc = "size" /\ tx'[w].seg = tx[w].seg
          /\ (tx'[w].init <=> tx[w].init) /\ tx'[w].conf = tx[w].conf
          /\ (tx'[w].recreating <=> tx[w].recreating) /\ tx[w].pc = "remap"
      <4>1. tx' = [tx EXCEPT ![w].pc = "size"] /\ tx[w].pc = "remap"
        BY <1>7, <2>1 DEF RemapToWrite
      <4> QED
        BY <4>1, SizesTyped DEF TxType
    <3> QED
      BY <1>1, <1>2, <3>1, TxTyped DEF SizedFor, SizesStay, Clean
  <2>2. CASE shm[tx[w].seg].need_remap /\ key = 0
    <3>1. /\ tx'[w].pc \in {"crashed", "idle"} /\ ~tx'[w].init
          /\ (tx'[w].recreating <=> tx[w].recreating) /\ tx[w].pc = "remap"
      BY <1>7, <2>2, TxTyped DEF RemapToWrite, Inv, TypeOK, TxType
    <3> QED
      BY <1>2, <3>1 DEF SizedFor
  <2>3. CASE shm[tx[w].seg].need_remap /\ key # 0
    <3>1. /\ tx'[w].pc = "size" /\ tx'[w].seg = key
          /\ (tx'[w].init <=> tx[w].init) /\ (tx'[w].recreating <=> tx[w].recreating)
          /\ tx'[w].conf = Conf(shm[key].ceiling) /\ shm' = Opened /\ tx[w].pc = "remap"
      <4>1. /\ tx' = [tx EXCEPT ![w].seg = key, ![w].pc = "size",
                         ![w].conf = Conf(shm[key].ceiling)]
            /\ shm' = Opened /\ tx[w].pc = "remap"
        BY <1>7, <2>3 DEF RemapToWrite
      <4> QED
        BY <4>1, SizesTyped DEF TxType
    <3>2. ~shm'[key].early => Conf(shm[key].ceiling) = shm'[key].ceiling
      BY <2>3, <3>1, OpenedSize
    <3> QED
      BY <1>2, <3>1, <3>2 DEF SizedFor, Clean
  <2> QED
    BY <2>1, <2>2, <2>3
<1>8. CASE TestSize(w)
  <2>1. CASE tx[w].size > tx[w].conf
    <3>1. /\ tx'[w].pc = "remove" /\ ~tx'[w].init
          /\ (tx'[w].recreating <=> tx[w].recreating) /\ tx[w].pc = "size"
      <4>1. /\ tx' = [tx EXCEPT ![w].init = FALSE, ![w].pc = "remove"]
            /\ tx[w].pc = "size"
        BY <1>8, <2>1 DEF TestSize
      <4> QED
        BY <4>1, SizesTyped DEF TxType
    <3> QED
      BY <1>2, <3>1 DEF SizedFor
  <2>2. CASE ~(tx[w].size > tx[w].conf)
    <3>1. /\ tx'[w].pc = "lock" /\ tx'[w].seg = tx[w].seg
          /\ (tx'[w].init <=> tx[w].init) /\ tx'[w].conf = tx[w].conf
          /\ tx'[w].size = tx[w].size
          /\ (tx'[w].recreating <=> tx[w].recreating) /\ tx[w].pc = "size"
      <4>1. /\ tx' = [tx EXCEPT ![w].pc = "lock"]
            /\ tx[w].pc = "size"
        BY <1>8, <2>2 DEF TestSize
      <4> QED
        BY <4>1, SizesTyped DEF TxType
    <3>2. tx[w].size <= tx[w].conf
      BY <2>2, SizesTyped
    <3> QED
      BY <1>1, <1>2, <3>1, <3>2, TxTyped DEF SizedFor, SizesStay, Clean
  <2> QED
    BY <2>1, <2>2
<1>9. CASE RecreateRemove(w)
  <2>1. /\ tx'[w].pc = "open" /\ ~tx'[w].init /\ tx'[w].size = tx[w].size
        /\ tx'[w].conf = Conf(tx[w].size)
    <3>1. /\ tx' = [tx EXCEPT ![w].pc = "open", ![w].seg = 0,
                      ![w].conf = Conf(tx[w].size), ![w].recreating = TRUE]
          /\ tx[w].pc = "remove"
      BY <1>9 DEF RecreateRemove
    <3> QED
      BY <3>1, SizesTyped, TxTyped DEF TxType
  <2> QED
    BY <2>1, LevelFacts DEF SizedFor
<1>10. CASE NextBlock(w) \/ LockForWrite(w)
  <2>1. /\ tx'[w].pc \in {"lock", "trylock", "copy"} /\ tx'[w].seg = tx[w].seg
        /\ (tx'[w].init <=> tx[w].init) /\ tx'[w].conf = tx[w].conf
        /\ tx'[w].size = tx[w].size
        /\ (tx'[w].recreating <=> tx[w].recreating)
        /\ tx[w].pc \in {"lock", "trylock"}
    <3>1. ASSUME NEW p \in {"lock", "copy"}, tx' = [tx EXCEPT ![w].pc = p]
          PROVE  /\ tx'[w].pc = p /\ tx'[w].seg = tx[w].seg
                 /\ tx'[w].init = tx[w].init /\ tx'[w].conf = tx[w].conf
                 /\ tx'[w].size = tx[w].size /\ tx'[w].recreating = tx[w].recreating
      BY <3>1, SizesTyped DEF TxType
    <3>2. CASE LockForWrite(w)
      BY <3>1, <3>2 DEF LockForWrite
    <3>3. CASE NextBlock(w)
      <4>1. PICK b : tx' = [tx EXCEPT ![w].index = b, ![w].pc = "trylock"]
                     /\ tx[w].pc = "lock"
        BY <3>3 DEF NextBlock
      <4> QED
        BY <4>1, SizesTyped DEF TxType
    <3> QED
      BY <1>10, <3>2, <3>3
  <2>2. /\ tx[w].init /\ tx[w].seg \in Segments
        /\ ~tx[w].recreating /\ tx[w].size \in Levels => tx[w].size <= tx[w].conf
    BY <1>2, <2>1, TxTyped DEF SizedFor
  <2>3. Clean(tx[w].seg)' => tx[w].conf = shm'[tx[w].seg].ceiling
    BY <1>1, <1>2, <2>1, <2>2 DEF SizedFor, SizesStay, Clean
  <2> QED
    BY <2>1, <2>2, <2>3 DEF SizedFor, Clean
<1>11. CASE Written(w)
  <2>1. tx' = [tx EXCEPT ![w].pc = "claim", ![w].recreating = FALSE] /\ tx[w].pc = "copy"
    BY <1>11 DEF Written
  <2>2. /\ tx'[w].pc = "claim" /\ ~tx'[w].recreating /\ tx'[w].seg = tx[w].seg
        /\ (tx'[w].init <=> tx[w].init) /\ tx'[w].conf = tx[w].conf
    BY <2>1, SizesTyped DEF TxType
  <2>3. Clean(tx[w].seg)' => tx[w].conf = shm'[tx[w].seg].ceiling
    BY <1>1, <1>2, <2>1, <2>2, TxTyped DEF SizedFor, SizesStay, Clean
  <2> QED
    BY <2>2, <2>3 DEF SizedFor, Clean
<1>111. CASE Overrun(w)
  BY <1>1, <1>2, <1>111, TxTyped, LevelFacts
     DEF Overrun, SizedFor, SizesStay, Clean, Inv, TypeOK, TxType
<1>112. CASE CountUser(w)
  <2>1. /\ tx'[w].pc = AfterOpen(w) /\ tx'[w].seg = tx[w].seg /\ tx'[w].init
        /\ ~tx'[w].recreating /\ tx'[w].conf = tx[w].conf /\ tx'[w].size = tx[w].size
        /\ tx[w].pc = "count"
    <3>1. /\ tx' = [tx EXCEPT ![w].init = TRUE, ![w].recreating = FALSE,
                              ![w].pc = AfterOpen(w)]
          /\ tx[w].pc = "count"
      BY <1>112 DEF CountUser
    <3> QED
      BY <3>1, SizesTyped DEF TxType
  <2>2. tx[w].recreating /\ tx[w].size \in Levels => tx[w].size <= tx[w].conf
    BY <1>2, <2>1, SizesTyped DEF SizedFor
  <2>3. Clean(tx[w].seg)' => tx[w].conf = shm'[tx[w].seg].ceiling
    BY <1>1, <1>2, <2>1, TxTyped DEF SizedFor, SizesStay, Clean
  <2> QED
    BY <2>1, <2>2, <2>3 DEF SizedFor, AfterOpen, Clean
<1>12. CASE NotifyClaim(w)
  BY <1>1, <1>2, <1>12, TxTyped, LevelFacts
     DEF NotifyClaim, SizedFor, SizesStay, Clean, Inv, TypeOK, TxType
<1>13. CASE NotifyInfo(w)
  BY <1>1, <1>2, <1>13, TxTyped, LevelFacts
     DEF NotifyInfo, SizedFor, SizesStay, Clean, Inv, TypeOK, TxType
<1>14. CASE NotifySeq(w)
  BY <1>1, <1>2, <1>14, TxTyped, LevelFacts
     DEF NotifySeq, SizedFor, SizesStay, Clean, Inv, TypeOK, TxType
<1>15. CASE Disable(w)
  BY <1>1, <1>2, <1>15, TxTyped, LevelFacts
     DEF Disable, SizedFor, SizesStay, Clean, Inv, TypeOK, TxType
<1>151. CASE DisableTest(w)
  BY <1>1, <1>2, <1>151, TxTyped, LevelFacts
     DEF DisableTest, SizedFor, SizesStay, Clean, Inv, TypeOK, TxType
<1>16. CASE DisableRemove(w)
  BY <1>1, <1>2, <1>16, TxTyped, LevelFacts
     DEF DisableRemove, SizedFor, SizesStay, Clean, Inv, TypeOK, TxType
<1> QED
  BY <1>3, <1>4, <1>5, <1>6, <1>7, <1>8, <1>9, <1>10, <1>11, <1>12, <1>13, <1>14,
     <1>111, <1>112, <1>15, <1>151, <1>16
     DEF TxSteps

(* Only its creator has a segment that is not built, unless somebody      *)
(* mapped it too early.                                                    *)
LEMMA OthersSized ==
  ASSUME Inv, Sized, NEW w \in Writers, NEW s \in Segments, tx[w].seg = s,
         tx[w].pc \in Constructing, NEW v \in Writers, v # w, tx'[v] = tx[v],
         shm'[s].early <=> shm[s].early,
         \A u \in Segments : u # s => shm'[u] = shm[u]
  PROVE  SizedFor(v)'
<1>1. SizedFor(v) /\ ~shm[s].built
  BY DEF Sized, Inv, Fresh
<1>2. ASSUME tx[v].init \/ tx[v].pc \in {"blocks", "count"}, Clean(tx[v].seg)'
      PROVE  tx[v].seg \in Segments \ {s}
  <2>1. tx[v].seg \in Segments
    BY <1>2, TxTyped
  <2>2. ASSUME tx[v].seg = s PROVE FALSE
    <3>1. Clean(s)
      BY <1>2, <2>2 DEF Clean
    <3>2. tx[v].pc \in Constructing
      BY <1>1, <2>2, <3>1 DEF Inv, Fresh
    <3> QED
      BY <2>2, <3>2 DEF Inv, Fresh
  <2> QED
    BY <2>1, <2>2
<1> QED
  BY <1>1, <1>2 DEF SizedFor, Clean

LEMMA StateSized ==
  ASSUME Inv, Sized, NEW w \in Writers, ConstructState(w)
  PROVE  Sized'
<1>1. PICK s \in Segments : s = tx[w].seg /\ ~shm[s].built
  BY TxTyped DEF ConstructState, Inv, Fresh
<1>2. /\ shm'[s].ceiling = tx[w].conf /\ (shm'[s].early <=> shm[s].early)
      /\ (shm'[s].built <=> shm[s].built) /\ Segments' = Segments
      /\ \A u \in Segments : u # s => shm'[u] = shm[u]
  <2>1. DOMAIN shm = Segments /\ shm[s] \in SegmentType
    BY SegmentAt, LenProperties DEF Inv, TypeOK, Segments
  <2>2. DOMAIN shm' = DOMAIN shm
    BY DEF ConstructState
  <2>3. Segments' = Segments
    BY <2>1, <2>2, StateInv, LenProperties DEF Inv, TypeOK, Segments
  <2> QED
    BY <1>1, <2>1, <2>3 DEF ConstructState, SegmentType
<1>3. /\ tx'[w].seg = s /\ (tx'[w].init <=> tx[w].init) /\ tx'[w].conf = tx[w].conf
      /\ (tx'[w].recreating <=> tx[w].recreating) /\ tx'[w].size = tx[w].size
      /\ tx[w].pc = "construct" /\ tx'[w].pc = "blocks"
      /\ \A v \in Writers : v # w => tx'[v] = tx[v]
  BY <1>1, TxTyped DEF ConstructState, Inv, TypeOK, TxType
<1>4. SizedFor(w)'
  BY <1>2, <1>3 DEF Sized, SizedFor
<1>5. \A v \in Writers : v # w => SizedFor(v)'
  BY <1>1, <1>2, <1>3, OthersSized
<1>6. (\A u \in Segments : shm[u].built /\ Clean(u) => shm[u].ceiling # 0)'
  BY <1>1, <1>2 DEF Sized, Clean
<1> QED
  BY <1>4, <1>5, <1>6 DEF Sized

LEMMA BlocksSized ==
  ASSUME Inv, Sized, NEW w \in Writers, ConstructBlocks(w)
  PROVE  Sized'
<1>1. PICK s \in Segments : s = tx[w].seg /\ ~shm[s].built
  BY TxTyped DEF ConstructBlocks, Inv, Fresh
<1>2. /\ shm'[s].ceiling = shm[s].ceiling /\ (shm'[s].early <=> shm[s].early)
      /\ Segments' = Segments
      /\ \A u \in Segments : u # s => shm'[u] = shm[u]
  <2>1. DOMAIN shm = Segments /\ shm[s] \in SegmentType
    BY SegmentAt, LenProperties DEF Inv, TypeOK, Segments
  <2>2. DOMAIN shm' = DOMAIN shm
    BY DEF ConstructBlocks
  <2>3. Segments' = Segments
    BY <2>1, <2>2, BlocksInv, LenProperties DEF Inv, TypeOK, Segments
  <2> QED
    BY <1>1, <2>1, <2>3 DEF ConstructBlocks, SegmentType
<1>3. /\ tx'[w].seg = s /\ (tx'[w].init <=> tx[w].init) /\ tx'[w].conf = tx[w].conf
      /\ (tx'[w].recreating <=> tx[w].recreating) /\ tx'[w].size = tx[w].size
      /\ tx[w].pc = "blocks" /\ tx'[w].pc = "count"
      /\ \A v \in Writers : v # w => tx'[v] = tx[v]
  BY <1>1, TxTyped DEF ConstructBlocks, Inv, TypeOK, TxType
<1>4. SizedFor(w)'
  BY <1>1, <1>2, <1>3 DEF Sized, SizedFor, Clean
<1>5. \A v \in Writers : v # w => SizedFor(v)'
  BY <1>1, <1>2, <1>3, OthersSized
<1>6. Clean(s) => shm[s].ceiling # 0
  <2>1. tx[w].conf # 0
    BY TxTyped, ConfAssumption DEF TxType, Levels
  <2> QED
    BY <1>1, <1>3, <2>1 DEF Sized, SizedFor
<1>7. (\A u \in Segments : shm[u].built /\ Clean(u) => shm[u].ceiling # 0)'
  BY <1>2, <1>6 DEF Sized, Clean
<1> QED
  BY <1>4, <1>5, <1>7 DEF Sized

LEMMA SizedNext == Inv /\ Sized /\ [Next]_vars => Sized'
<1> SUFFICES ASSUME Inv, Sized, [Next]_vars PROVE Sized'
  OBVIOUS
<1>1. ASSUME NEW w \in Writers,
             \/ Enable(w) \/ Disable(w)
             \/ (TxSteps(w) /\ ~ConstructState(w) /\ ~ConstructBlocks(w))
             \/ \E size \in Sizes : Transmit(w, size)
      PROVE  Sized'
  <2>1. \A v \in Writers : v # w => tx'[v] = tx[v]
    BY <1>1 DEF TxSteps, Enable, Disable, Transmit, OpenOrCreate, OpenOnly, CountUser,
                RemapToWrite, TestSize, RecreateRemove, NextBlock, LockForWrite, Written,
                Overrun, NotifyClaim, NotifyInfo, NotifySeq, DisableTest, DisableRemove,
                Inv, TypeOK
  <2>2. SizesStay /\ SizedFor(w)'
    BY <1>1, TxSizes, ActorSized
  <2>3. \A v \in Writers : SizedFor(v)'
    BY <2>1, <2>2, SizedKept DEF Sized
  <2> QED
    BY <2>2, <2>3, CeilingsKept DEF Sized
<1>2. ASSUME NEW w \in Writers, ConstructState(w) \/ ConstructBlocks(w)
      PROVE  Sized'
  BY <1>2, StateSized, BlocksSized
<1>3. ASSUME NEW r \in Readers, StartListening(r) \/ Shutdown(r) \/ RxSteps(r)
      PROVE  Sized'
  <2>1. tx' = tx
    BY <1>3 DEF StartListening, Shutdown, RxSteps, Listen, TakeInfo, AcquireBlockToRead,
                RemapToRead, LoadLockNum, CasLockNum, Parsed, ReleaseReadBlock,
                ShutdownTest, ShutdownRemove
  <2>2. SizesStay
    BY <1>3, RxSizes
  <2> QED
    BY <2>1, <2>2, SizedKept, CeilingsKept DEF Sized
<1>4. CASE UNCHANGED vars
  <2>1. SizesStay /\ tx' = tx
    BY <1>4, QuietSame DEF vars, Inv
  <2> QED
    BY <2>1, SizedKept, CeilingsKept DEF Sized
<1> QED
  BY <1>1, <1>2, <1>3, <1>4 DEF Next, TxSteps, RxSteps

(* A message up to the largest ceiling fits the buffer that it is copied   *)
(* to: the size that AcquireBlockToWrite tests is the size of the segment  *)
(* that is mapped, and a segment recreated for the message gets its level, *)
(* which ShmConf does not cap (the memcpy of shm_transmitter.h:109). And   *)
(* the count that DecreaseReferenceCounts tests does not wrap. For any     *)
(* transmitters and dispatchers; a message above the largest ceiling is    *)
(* excepted, which overruns its buffer.                                    *)
THEOREM MessagesFit == Spec => []BufFits
<1>1. Init => Sized
  <2> SUFFICES ASSUME Init, NEW w \in Writers PROVE SizedFor(w)
    BY DEF Sized, Init, Segments
  <2>1. tx[w].pc = "off" /\ ~tx[w].init /\ ~tx[w].recreating
    BY DEF Init
  <2> QED
    BY <2>1 DEF SizedFor
<1>2. Inv /\ Sized => BufFits
  <2> SUFFICES ASSUME Inv, Sized, NEW w \in Writers, tx[w].pc = "copy",
                      Clean(tx[w].seg), ~tx[w].recreating,
                      tx[w].size \in Levels
               PROVE  tx[w].size <= shm[tx[w].seg].ceiling
    BY DEF BufFits, Inv
  <2> QED
    BY DEF Sized, SizedFor
<1> QED
  BY <1>1, <1>2, SizedNext, Invariance, PTL DEF Spec

=============================================================================
