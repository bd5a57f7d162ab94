------------------------- MODULE Foundations_proofs -------------------------
(* What the other parts rest on: the lock of the tables (AtomicRWLock),    *)
(* the streams that changes and messages travel in (DataStream, ChangeMsg) *)
(* and the loops that run at a rate (Rate).                                *)
EXTENDS AtomicRWLock, ChangeMsg, FiniteSetTheorems, SequenceTheorems, TLAPS

CONSTANT expected_cycle_time_
VARIABLES start_, actual_cycle_time_, actual_end, slept
Loop == INSTANCE Rate

-----------------------------------------------------------------------------
(* The lock, for every finite set of threads. Exclusion is not inductive.  *)
(* What makes it so is that lock_num_ counts the readers or is -1          *)
(* (WordsCount) and that a reader at its CAS expects a value that is not   *)
(* negative (ExpectsNoWriter): a CAS that succeeds from such a value       *)
(* cannot meet a writer. BoundedOvertaking needs that a reader that        *)
(* overtook a waiting writer is not at its CAS again.                      *)

(* A reader at its CAS has seen a value that excludes a writer. *)
ExpectsNoWriter == \A t \in Threads : pc[t] = "read_cas" => seen[t] >= 0

(* The history is zero outside the wait, and with write_first a reader that *)
(* overtook a waiting writer is not about to do so again.                   *)
OvertakingInv ==
  \A w, r \in Threads :
    /\ pc[w] # "write_cas" => overtook[w][r] = 0
    /\ write_first /\ pc[w] = "write_cas" /\ overtook[w][r] # 0
         => overtook[w][r] = 1 /\ pc[r] # "read_cas"

(* The inductive invariant. *)
Inv == TypeOK /\ WordsCount /\ Exclusion /\ ExpectsNoWriter /\ OvertakingInv

-----------------------------------------------------------------------------

(* Sets of threads are finite and their cardinality is at most that of     *)
(* Threads, which is a natural number.                                     *)
LEMMA ThreadSets ==
  ASSUME NEW S \in SUBSET Threads
  PROVE  /\ IsFiniteSet(S)
         /\ Cardinality(S) \in Nat
         /\ Cardinality(Threads) \in Nat
         /\ Cardinality(S) <= Cardinality(Threads)
         /\ Cardinality(S) = 0 <=> S = {}
  BY ThreadsAssumption, FS_Subset, FS_CardinalityType, FS_EmptySet

(* Adding or removing one thread changes the cardinality by one.           *)
LEMMA AddRemove ==
  ASSUME NEW S \in SUBSET Threads, NEW t \in Threads
  PROVE  /\ t \notin S => Cardinality(S \cup {t}) = Cardinality(S) + 1
         /\ t \in S => Cardinality(S \ {t}) = Cardinality(S) - 1
  BY ThreadSets, FS_AddElement, FS_RemoveElement

(* The initial state satisfies the invariant.                              *)
LEMMA InitInv == Init => Inv
  <1> SUFFICES ASSUME Init PROVE Inv
    OBVIOUS
  <1> USE DEF Init
  <1>1. Readers = {} /\ WritersWaiting = {} /\ \A t \in Threads : ~Holding(t)
    BY DEF Readers, WritersWaiting, Holding
  <1>2. Cardinality({}) = 0 /\ Cardinality(Threads) \in Nat
    BY ThreadSets, FS_EmptySet
  <1>3. TypeOK
    BY <1>2 DEF TypeOK, Locations, RW_LOCK_FREE, WRITE_EXCLUSIVE
  <1>4. WordsCount /\ Exclusion
    BY <1>1, <1>2 DEF WordsCount, Exclusion, RW_LOCK_FREE
  <1>5. ExpectsNoWriter /\ OvertakingInv
    BY DEF ExpectsNoWriter, OvertakingInv
  <1> QED
    BY <1>3, <1>4, <1>5 DEF Inv

(* Every step keeps the invariant.                                         *)
LEMMA NextInv == Inv /\ [Next]_vars => Inv'
  <1> SUFFICES ASSUME Inv, [Next]_vars PROVE Inv'
    OBVIOUS
  <1> USE DEF Inv
  <1>c. /\ Cardinality(Threads) \in Nat
        /\ Readers \in SUBSET Threads /\ Readers' \in SUBSET Threads
        /\ WritersWaiting \in SUBSET Threads
        /\ WritersWaiting' \in SUBSET Threads
    BY ThreadSets DEF Readers, WritersWaiting
  <1>n. /\ Cardinality(Readers) \in Nat
        /\ Cardinality(Readers') \in Nat
        /\ Cardinality(Readers) <= Cardinality(Threads)
        /\ Cardinality(Readers') <= Cardinality(Threads)
        /\ Cardinality(WritersWaiting) \in Nat
        /\ Cardinality(WritersWaiting') \in Nat
        /\ Cardinality(WritersWaiting) <= Cardinality(Threads)
        /\ Cardinality(WritersWaiting') <= Cardinality(Threads)
        /\ Cardinality(Readers) = 0 <=> Readers = {}
        /\ Cardinality(WritersWaiting) = 0 <=> WritersWaiting = {}
    BY <1>c, ThreadSets
  <1> USE <1>c, <1>n
  <1>1. ASSUME NEW t \in Threads, ReadEnter(t) \/ ReadReload(t) \/ ReadCASFail(t)
        PROVE  Inv'
    <2> USE <1>1 DEF ReadEnter, ReadReload, ReadCASFail, Goto
    <2>1. Readers' = Readers /\ WritersWaiting' = WritersWaiting
          /\ \A u \in Threads : Holding(u)' = Holding(u)
      BY DEF Readers, WritersWaiting, Holding, TypeOK
    <2>2. TypeOK'
      BY DEF TypeOK, Locations
    <2>3. WordsCount' /\ Exclusion'
      BY <2>1 DEF WordsCount, Exclusion
    <2>4. ExpectsNoWriter' /\ OvertakingInv'
      BY DEF ExpectsNoWriter, OvertakingInv, TypeOK
    <2> QED
      BY <2>2, <2>3, <2>4
  <1>2. ASSUME NEW t \in Threads, ReadTest(t)
        PROVE  Inv'
    <2> USE <1>2 DEF ReadTest, Goto
    <2>1. Readers' = Readers /\ WritersWaiting' = WritersWaiting
          /\ \A u \in Threads : Holding(u)' = Holding(u)
      BY DEF Readers, WritersWaiting, Holding, TypeOK
    <2>2. TypeOK'
      BY DEF TypeOK, Locations
    <2>3. WordsCount' /\ Exclusion'
      BY <2>1 DEF WordsCount, Exclusion
    <2>4. ExpectsNoWriter'
      BY DEF ExpectsNoWriter, MustWait, RW_LOCK_FREE, TypeOK, WRITE_EXCLUSIVE
    <2>5. (\E w \in Threads : pc[w] = "write_cas") => write_lock_wait_num > 0
      BY DEF WordsCount, WritersWaiting
    <2>6. OvertakingInv'
      BY <2>5 DEF OvertakingInv, MustWait, TypeOK
    <2> QED
      BY <2>2, <2>3, <2>4, <2>6
  <1>3. ASSUME NEW t \in Threads, ReadCAS(t)
        PROVE  Inv'
    <2> USE <1>3 DEF ReadCAS, Goto
    <2>1. lock_num >= 0 /\ lock_num \in Int
      BY DEF ExpectsNoWriter, TypeOK, WRITE_EXCLUSIVE
    <2>2. \A u \in Threads : ~Holding(u)
      BY <2>1 DEF WordsCount, WRITE_EXCLUSIVE
    <2>3. lock_num = Cardinality(Readers)
      BY <2>2 DEF WordsCount
    <2>4. /\ Readers' = Readers \cup {t} /\ t \notin Readers
          /\ WritersWaiting' = WritersWaiting
          /\ \A u \in Threads : ~Holding(u)'
      BY <2>2 DEF Readers, WritersWaiting, Holding, TypeOK
    <2>5. Cardinality(Readers') = Cardinality(Readers) + 1
      BY <2>4, AddRemove
    <2>6. WordsCount' /\ Exclusion'
      BY <2>3, <2>4, <2>5 DEF WordsCount, Exclusion
    <2>7. TypeOK'
      <3>1. overtook' \in [Threads -> [Threads -> 0..2]]
        BY DEF TypeOK, CountOvertaking
      <3>2. lock_num' \in WRITE_EXCLUSIVE..Cardinality(Threads)
        BY <2>3, <2>5 DEF WRITE_EXCLUSIVE
      <3>3. pc' \in [Threads -> Locations]
            /\ seen' \in [Threads -> WRITE_EXCLUSIVE..Cardinality(Threads)]
        BY DEF TypeOK, Locations, RW_LOCK_FREE, WRITE_EXCLUSIVE
      <3> QED
        BY <3>1, <3>2, <3>3 DEF TypeOK
    <2>8. ExpectsNoWriter'
      BY DEF ExpectsNoWriter, TypeOK
    <2>9. OvertakingInv'
      BY DEF OvertakingInv, CountOvertaking, TypeOK
    <2> QED
      BY <2>6, <2>7, <2>8, <2>9
  <1>4. ASSUME NEW t \in Threads, ReadUnlock(t)
        PROVE  Inv'
    <2> USE <1>4 DEF ReadUnlock, Goto
    <2>1. t \in Readers /\ \A u \in Threads : ~Holding(u)
      BY DEF Exclusion, Readers
    <2>2. /\ Readers' = Readers \ {t} /\ WritersWaiting' = WritersWaiting
          /\ \A u \in Threads : ~Holding(u)'
      BY <2>1 DEF Readers, WritersWaiting, Holding, TypeOK
    <2>3. lock_num = Cardinality(Readers)
          /\ Cardinality(Readers') = Cardinality(Readers) - 1
      BY <2>1, <2>2, AddRemove DEF WordsCount
    <2>4. WordsCount' /\ Exclusion'
      BY <2>2, <2>3 DEF WordsCount, Exclusion
    <2>5. TypeOK'
      BY <2>3 DEF TypeOK, Locations, WRITE_EXCLUSIVE
    <2>6. ExpectsNoWriter' /\ OvertakingInv'
      BY DEF ExpectsNoWriter, OvertakingInv, TypeOK
    <2> QED
      BY <2>4, <2>5, <2>6
  <1>5. ASSUME NEW t \in Threads, WriteEnter(t)
        PROVE  Inv'
    <2> USE <1>5 DEF WriteEnter, Goto
    <2>1. /\ Readers' = Readers
          /\ WritersWaiting' = WritersWaiting \cup {t} /\ t \notin WritersWaiting
          /\ \A u \in Threads : Holding(u)' = Holding(u)
      BY DEF Readers, WritersWaiting, Holding, TypeOK
    <2>2. Cardinality(WritersWaiting') = Cardinality(WritersWaiting) + 1
      BY <2>1, AddRemove
    <2>3. WordsCount' /\ Exclusion'
      BY <2>1, <2>2 DEF WordsCount, Exclusion
    <2>4. TypeOK'
      BY <2>2 DEF TypeOK, Locations, WordsCount
    <2>5. ExpectsNoWriter' /\ OvertakingInv'
      BY DEF ExpectsNoWriter, OvertakingInv, TypeOK
    <2> QED
      BY <2>3, <2>4, <2>5
  <1>6. ASSUME NEW t \in Threads, WriteCAS(t)
        PROVE  Inv'
    <2> USE <1>6 DEF WriteCAS, Goto
    <2>1. \A u \in Threads : ~Holding(u)
      BY DEF WordsCount, WRITE_EXCLUSIVE, RW_LOCK_FREE
    <2>2. Readers = {}
      BY <2>1 DEF WordsCount, RW_LOCK_FREE
    <2>3. /\ Readers' = {} /\ WritersWaiting' = WritersWaiting
          /\ \A u \in Threads : Holding(u)' <=> u = t
      BY <2>1, <2>2 DEF Readers, WritersWaiting, Holding, TypeOK
    <2>4. WordsCount' /\ Exclusion'
      BY <2>3 DEF WordsCount, Exclusion
    <2>5. TypeOK'
      BY DEF TypeOK, Locations, WRITE_EXCLUSIVE
    <2>6. ExpectsNoWriter' /\ OvertakingInv'
      BY DEF ExpectsNoWriter, OvertakingInv, TypeOK
    <2> QED
      BY <2>4, <2>5, <2>6
  <1>7. ASSUME NEW t \in Threads, WriteGot(t)
        PROVE  Inv'
    <2> USE <1>7 DEF WriteGot, Goto
    <2>1. /\ Readers' = Readers
          /\ WritersWaiting' = WritersWaiting \ {t} /\ t \in WritersWaiting
          /\ \A u \in Threads : Holding(u)' = Holding(u)
      BY DEF Readers, WritersWaiting, Holding, TypeOK
    <2>2. Cardinality(WritersWaiting') = Cardinality(WritersWaiting) - 1
      BY <2>1, AddRemove
    <2>3. WordsCount' /\ Exclusion'
      BY <2>1, <2>2 DEF WordsCount, Exclusion
    <2>4. TypeOK'
      BY <2>2 DEF TypeOK, Locations, WordsCount
    <2>5. ExpectsNoWriter' /\ OvertakingInv'
      BY DEF ExpectsNoWriter, OvertakingInv, TypeOK
    <2> QED
      BY <2>3, <2>4, <2>5
  <1>8. ASSUME NEW t \in Threads, WriteUnlock(t)
        PROVE  Inv'
    <2> USE <1>8 DEF WriteUnlock, Goto
    <2>1. Holding(t) /\ Readers = {} /\ \A u \in Threads : Holding(u) => u = t
      BY DEF Exclusion, Holding
    <2>2. lock_num = -1
      BY <2>1 DEF WordsCount, WRITE_EXCLUSIVE
    <2>3. /\ Readers' = {} /\ WritersWaiting' = WritersWaiting
          /\ \A u \in Threads : ~Holding(u)'
      BY <2>1 DEF Readers, WritersWaiting, Holding, TypeOK
    <2>4. Cardinality(Readers') = 0
      BY <2>1, <2>3
    <2>5. WordsCount' /\ Exclusion'
      BY <2>2, <2>3, <2>4 DEF WordsCount, Exclusion
    <2>6. TypeOK'
      BY <2>2 DEF TypeOK, Locations, WRITE_EXCLUSIVE
    <2>7. ExpectsNoWriter' /\ OvertakingInv'
      BY DEF ExpectsNoWriter, OvertakingInv, TypeOK
    <2> QED
      BY <2>5, <2>6, <2>7
  <1>9. CASE UNCHANGED vars
    BY <1>9 DEF vars, TypeOK, WordsCount, Exclusion, ExpectsNoWriter,
                OvertakingInv, Readers, WritersWaiting, Holding
  <1> QED
    BY <1>1, <1>2, <1>3, <1>4, <1>5, <1>6, <1>7, <1>8, <1>9 DEF Next

(* Spec implies the inductive invariant.                                   *)
LEMMA SpecInv == Spec => []Inv
  BY InitInv, NextInv, PTL DEF Spec

-----------------------------------------------------------------------------

(* lock_num_ and write_lock_wait_num_ never leave their ranges.            *)
THEOREM TypeCorrect == Spec => []TypeOK
  BY SpecInv, PTL DEF Inv

(* A writer excludes all other threads, for any number of threads.         *)
THEOREM MutualExclusion == Spec => []Exclusion
  BY SpecInv, PTL DEF Inv

(* The two atomic words count the holders and the waiting writers.         *)
THEOREM WordsAreCounts == Spec => []WordsCount
  BY SpecInv, PTL DEF Inv

(* With write_first_ a waiting writer is overtaken at most once by each    *)
(* reader.                                                                 *)
THEOREM WritersGoFirst == Spec => []BoundedOvertaking
  <1>1. Inv => BoundedOvertaking
    BY DEF Inv, OvertakingInv, BoundedOvertaking, TypeOK
  <1> QED
    BY <1>1, SpecInv, PTL

-----------------------------------------------------------------------------
(* The streams: what is read from one is what was written to it, in        *)
(* whatever order the two machines keep their numbers, whatever stands     *)
(* before and after.                                                       *)

LEMMA ReverseOnce ==
  ASSUME NEW S, NEW s \in Seq(S)
  PROVE  /\ Reverse(s) \in Seq(S) /\ Len(Reverse(s)) = Len(s)
         /\ \A i \in 1..Len(s) : Reverse(s)[i] = s[Len(s) - i + 1]
BY DEF Reverse

LEMMA ReverseTwice ==
  ASSUME NEW S, NEW s \in Seq(S)
  PROVE  Reverse(Reverse(s)) = s
<1> DEFINE t == Reverse(s)
<1>1. /\ t \in Seq(S) /\ Len(t) = Len(s)
      /\ \A i \in 1..Len(s) : t[i] = s[Len(s) - i + 1]
  BY ReverseOnce
<1> HIDE DEF t
<1>2. /\ Reverse(t) \in Seq(S) /\ Len(Reverse(t)) = Len(s)
      /\ \A i \in 1..Len(s) : Reverse(t)[i] = t[Len(s) - i + 1]
  BY <1>1, ReverseOnce
<1>3. \A i \in 1..Len(s) : Reverse(t)[i] = s[i]
  BY <1>1, <1>2
<1>4. Reverse(t) = s
  BY <1>2, <1>3, SeqEqual
<1> QED
  BY <1>4 DEF t

(* On the wire the little end comes first.                                 *)
LEMMA WireIsLittleEndian ==
  ASSUME NEW S, NEW n \in Seq(S), NEW w \in ByteOrders, NEW r \in ByteOrders
  PROVE  /\ Wire(InMemory(n, w), w) = Reverse(n)
         /\ InMemory(Wire(Reverse(n), r), r) = n
  BY ReverseTwice DEF ByteOrders, Wire, InMemory

LEMMA Single ==
  ASSUME NEW S, NEW x \in S
  PROVE  /\ <<x>> \in Seq(S) /\ Len(<<x>>) = 1 /\ <<x>> # <<>> /\ <<x>>[1] = x
OBVIOUS

LEMMA Alphabets ==
  ASSUME NEW A, NEW S, A \subseteq S, NEW s \in Seq(A)
  PROVE  s \in Seq(S)
OBVIOUS

LEMMA Beginning ==
  ASSUME NEW S, NEW s \in Seq(S), NEW n \in Nat, n <= Len(s)
  PROVE  SubSeq(s, 1, n) \in Seq(S) /\ Len(SubSeq(s, 1, n)) = n
OBVIOUS

LEMMA Together ==
  ASSUME NEW S, NEW a \in Seq(S), NEW b \in Seq(S), NEW c \in Seq(S)
  PROVE  /\ a \o b \in Seq(S) /\ Len(a \o b) = Len(a) + Len(b)
         /\ \A i \in 1..Len(a) : (a \o b)[i] = a[i]
         /\ \A i \in 1..Len(b) : (a \o b)[Len(a) + i] = b[i]
         /\ a \o (b \o c) = (a \o b) \o c
BY ConcatAssociative

Streams(S) == [buf : Seq(S), pos : Nat, order : ByteOrders]

(* s begins with all that was written to t.                                *)
Holds(s, t) == /\ Len(t.buf) <= Len(s.buf)
               /\ \A i \in 1..Len(t.buf) : s.buf[i] = t.buf[i]

(* s is where t has ended.                                                 *)
Ends(t, s) == s.pos = Len(t.buf)

LEMMA Writing ==
  ASSUME NEW S, NEW t \in Streams(S), NEW bytes \in Seq(S)
  PROVE  WriteBytes(t, bytes) \in Streams(S)
BY DEF Streams, WriteBytes

LEMMA Advancing ==
  ASSUME NEW S, NEW s \in Streams(S), NEW len \in Nat
  PROVE  /\ Advance(s, len) \in Streams(S)
         /\ \A t \in Streams(S) : Holds(s, t) => Holds(Advance(s, len), t)
BY DEF Streams, Advance, Holds

LEMMA Earlier ==
  ASSUME NEW S, NEW s \in Streams(S), NEW t \in Streams(S), NEW bytes \in Seq(S),
         Holds(s, WriteBytes(t, bytes))
  PROVE  Holds(s, t)
<1>1. t.buf \in Seq(S) /\ s.buf \in Seq(S)
  BY DEF Streams
<1> DEFINE both == t.buf \o bytes
<1>2. /\ Len(both) = Len(t.buf) + Len(bytes)
      /\ \A i \in 1..Len(t.buf) : both[i] = t.buf[i]
  BY <1>1, Together
<1>3. Len(both) <= Len(s.buf) /\ \A i \in 1..Len(both) : s.buf[i] = both[i]
  BY DEF Holds, WriteBytes
<1>4. Len(t.buf) \in Nat /\ Len(bytes) \in Nat /\ Len(s.buf) \in Nat
  BY <1>1
<1> HIDE DEF both
<1> QED
  BY <1>2, <1>3, <1>4 DEF Holds

(* What was written where t has ended stands there in s.                   *)
LEMMA Reading ==
  ASSUME NEW S, NEW s \in Streams(S), NEW t \in Streams(S), NEW bytes \in Seq(S),
         Holds(s, WriteBytes(t, bytes)), Ends(t, s)
  PROVE  /\ ReadBytes(s, Len(bytes)) = bytes
         /\ bytes # <<>> => At(s) = bytes[1]
         /\ Ends(WriteBytes(t, bytes), Advance(s, Len(bytes)))
<1> DEFINE both == t.buf \o bytes
           at == Len(t.buf)
           sub == SubSeq(s.buf, at + 1, at + Len(bytes))
<1>1. t.buf \in Seq(S) /\ s.buf \in Seq(S) /\ at \in Nat /\ Len(bytes) \in Nat
  BY DEF Streams
<1>2. /\ Len(both) = at + Len(bytes)
      /\ \A i \in 1..Len(bytes) : both[at + i] = bytes[i]
  BY <1>1, Together
<1>3. Len(both) <= Len(s.buf) /\ \A i \in 1..Len(both) : s.buf[i] = both[i]
  BY DEF Holds, WriteBytes
<1>4. s.pos = at /\ WriteBytes(t, bytes).buf = both
  BY DEF Ends, WriteBytes
<1> HIDE DEF both, at
<1>5. /\ at + Len(bytes) <= Len(s.buf)
      /\ \A i \in 1..Len(bytes) : s.buf[at + i] = bytes[i]
  <2>1. at + Len(bytes) <= Len(s.buf)
    BY <1>1, <1>2, <1>3
  <2>2. ASSUME NEW i \in 1..Len(bytes)
        PROVE  s.buf[at + i] = bytes[i]
    <3>1. (at + i) \in 1..Len(both)
      BY <1>1, <1>2
    <3>2. s.buf[at + i] = both[at + i]
      BY <1>3, <3>1
    <3> QED
      BY <1>2, <3>2
  <2> QED
    BY <2>1, <2>2
<1>6. sub = bytes
  <2>1. sub \in Seq(S) /\ Len(sub) = Len(bytes)
    BY <1>1, <1>5
  <2>2. \A i \in 1..Len(bytes) : sub[i] = bytes[i]
    BY <1>1, <1>5
  <2> QED
    BY <2>1, <2>2, SeqEqual
<1>7. bytes # <<>> => At(s) = bytes[1]
  BY <1>1, <1>4, <1>5 DEF At
<1>8. Advance(s, Len(bytes)).pos = at + Len(bytes)
  BY <1>4 DEF Advance
<1> QED
  BY <1>2, <1>4, <1>6, <1>7, <1>8 DEF ReadBytes, Ends

LEMMA WrittenNumber ==
  ASSUME NEW S, NEW t \in Streams(S), NEW type \in S, NEW n \in Seq(S)
  PROVE  Write(t, type, n) = WriteBytes(WriteBytes(t, <<type>>), Reverse(n))
<1>1. Write(t, type, n) = WriteBytes(t, <<type>> \o Reverse(n))
  BY WireIsLittleEndian DEF Write, Streams
<1> DEFINE number == Reverse(n)
<1>2. number \in Seq(S) /\ t.buf \in Seq(S) /\ <<type>> \in Seq(S)
  BY ReverseOnce, Single DEF Streams
<1> HIDE DEF number
<1>3. t.buf \o (<<type>> \o number) = (t.buf \o <<type>>) \o number
  <2>1. \A a, b, c \in Seq(S) : a \o (b \o c) = (a \o b) \o c
    BY Together
  <2> QED
    BY <1>2, <2>1, ZenonT(30)
<1>4. WriteBytes(t, <<type>> \o number) = WriteBytes(WriteBytes(t, <<type>>), number)
  BY <1>3 DEF WriteBytes
<1> QED
  BY <1>1, <1>4 DEF number

(* A number that is written anywhere in a stream is read there unchanged,  *)
(* by a machine of either byte order, which goes on behind it              *)
(* (DataStream::write and read of the number types).                       *)
THEOREM NumbersCrossMachines ==
  ASSUME NEW S, NEW t \in Streams(S), NEW s \in Streams(S),
         NEW type \in Numbers, type \in S,
         NEW n \in Seq(S), Len(n) = Width(type),
         Holds(s, Write(t, type, n)), Ends(t, s)
  PROVE  LET next == Advance(Advance(s, 1), Width(type)) IN
         /\ Read(s, type) = [ok |-> TRUE, value |-> n, stream |-> next]
         /\ Ends(Write(t, type, n), next)
<1> DEFINE number == Reverse(n)
           t1 == WriteBytes(t, <<type>>)
           s1 == Advance(s, 1)
<1>1. number \in Seq(S) /\ Len(number) = Width(type)
  BY ReverseOnce
<1>2. <<type>> \in Seq(S) /\ Len(<<type>>) = 1 /\ <<type>> # <<>> /\ <<type>>[1] = type
  BY Single
<1>3. t1 \in Streams(S) /\ s1 \in Streams(S)
  BY <1>2, Writing, Advancing
<1>4. Write(t, type, n) = WriteBytes(t1, number)
  BY WrittenNumber
<1> HIDE DEF number
<1>5. Holds(s, t1)
  BY <1>1, <1>3, <1>4, Earlier
<1>6. At(s) = type /\ Ends(t1, s1)
  <2>1. /\ <<type>> # <<>> => At(s) = <<type>>[1]
        /\ Ends(t1, Advance(s, Len(<<type>>)))
    BY <1>2, <1>5, Reading
  <2> QED
    BY <1>2, <2>1
<1> HIDE DEF t1
<1>7. Holds(s1, WriteBytes(t1, number))
  BY <1>1, <1>3, <1>4, Writing, Advancing
<1> HIDE DEF s1
<1>8. /\ ReadBytes(s1, Len(number)) = number
      /\ Ends(WriteBytes(t1, number), Advance(s1, Len(number)))
  BY <1>1, <1>3, <1>6, <1>7, Reading
<1>9. InMemory(Wire(number, s.order), s.order) = n
  <2>1. s.order \in ByteOrders
    BY DEF Streams
  <2> QED
    BY <2>1, WireIsLittleEndian DEF number
<1>10. Advance(s, 1 + Width(type)) = Advance(s1, Width(type))
  BY DEF Advance, s1, Streams, Width
<1>11. Read(s, type) = [ok |-> TRUE, value |-> n, stream |-> Advance(s1, Width(type))]
  BY <1>1, <1>6, <1>8, <1>9, <1>10 DEF Read, s1
<1> QED
  BY <1>1, <1>4, <1>8, <1>11 DEF s1

(* The type byte of what follows.                                          *)
Mark(t, x) == WriteBytes(t, <<x>>)

LEMMA MarkedIsStream ==
  ASSUME NEW S, NEW t \in Streams(S), NEW x \in S, NEW type \in S, NEW n \in Seq(S)
  PROVE  /\ Mark(t, x) \in Streams(S)
         /\ Write(Mark(t, x), type, n) \in Streams(S)
<1>1. \A u \in Streams(S) : \A y \in S : WriteBytes(u, <<y>>) \in Streams(S)
  BY Single, Writing
<1> DEFINE t1 == Mark(t, x)
<1>2. t1 \in Streams(S)
  BY <1>1 DEF Mark
<1> HIDE DEF t1
<1> DEFINE t2 == WriteBytes(t1, <<type>>)
           number == Reverse(n)
<1>3. t2 \in Streams(S) /\ number \in Seq(S)
  BY <1>1, <1>2, ReverseOnce
<1>4. Write(t1, type, n) = WriteBytes(t2, number)
  BY <1>2, WrittenNumber
<1> HIDE DEF t2, number
<1>5. Write(t1, type, n) \in Streams(S)
  BY <1>3, <1>4, Writing
<1> QED
  BY <1>2, <1>5 DEF t1

LEMMA NumberEarlier ==
  ASSUME NEW S, NEW s \in Streams(S), NEW t \in Streams(S),
         NEW type \in S, NEW n \in Seq(S), Holds(s, Write(t, type, n))
  PROVE  Holds(s, t)
<1> DEFINE t1 == WriteBytes(t, <<type>>)
           number == Reverse(n)
<1>1. t1 \in Streams(S) /\ <<type>> \in Seq(S) /\ number \in Seq(S)
  BY Single, Writing, ReverseOnce
<1>2. Write(t, type, n) = WriteBytes(t1, number)
  BY WrittenNumber
<1> HIDE DEF number
<1>3. Holds(s, t1)
  BY <1>1, <1>2, Earlier
<1> QED
  BY <1>1, <1>3, Earlier

LEMMA MarkedEarlier ==
  ASSUME NEW S, NEW s \in Streams(S), NEW t \in Streams(S), NEW x \in S,
         NEW type \in S, NEW n \in Seq(S),
         Holds(s, Write(Mark(t, x), type, n))
  PROVE  Holds(s, t) /\ Holds(s, Mark(t, x))
<1> DEFINE t1 == Mark(t, x)
<1>1. t1 \in Streams(S) /\ <<x>> \in Seq(S)
  BY Single, Writing DEF Mark
<1> HIDE DEF t1
<1>2. Holds(s, t1)
  BY <1>1, NumberEarlier DEF t1
<1> QED
  BY <1>1, <1>2, Earlier DEF t1, Mark

(* A number behind the type byte of what it belongs to.                    *)
LEMMA MarkedNumber ==
  ASSUME NEW S, NEW t \in Streams(S), NEW s \in Streams(S), NEW x \in S,
         NEW type \in Numbers, type \in S, NEW n \in Seq(S), Len(n) = Width(type),
         Holds(s, Write(Mark(t, x), type, n)), Ends(t, s)
  PROVE  LET next == Advance(Advance(Advance(s, 1), 1), Width(type)) IN
         /\ At(s) = x
         /\ Read(Advance(s, 1), type) = [ok |-> TRUE, value |-> n, stream |-> next]
         /\ Ends(Write(Mark(t, x), type, n), next)
<1> DEFINE t1 == Mark(t, x)
           s1 == Advance(s, 1)
<1>1. <<x>> \in Seq(S) /\ Len(<<x>>) = 1 /\ <<x>> # <<>> /\ <<x>>[1] = x
  BY Single
<1>2. Holds(s, t1)
  BY MarkedEarlier
<1>3. At(s) = x /\ Ends(t1, s1)
  <2>1. /\ <<x>> # <<>> => At(s) = <<x>>[1]
        /\ Ends(t1, Advance(s, Len(<<x>>)))
    BY <1>1, <1>2, Reading DEF Mark
  <2> QED
    BY <1>1, <2>1
<1>4. t1 \in Streams(S) /\ Write(t1, type, n) \in Streams(S)
  BY MarkedIsStream
<1>5. s1 \in Streams(S) /\ Holds(s1, Write(t1, type, n))
  BY <1>4, Advancing
<1> HIDE DEF s1, t1
<1>6. LET next == Advance(Advance(s1, 1), Width(type)) IN
      /\ Read(s1, type) = [ok |-> TRUE, value |-> n, stream |-> next]
      /\ Ends(Write(t1, type, n), next)
  BY <1>3, <1>4, <1>5, NumbersCrossMachines
<1> QED
  BY <1>3, <1>6 DEF s1, t1

(* Bytes behind their number.                                              *)
LEMMA MarkedBytes ==
  ASSUME NEW S, NEW t \in Streams(S), NEW s \in Streams(S), NEW x \in S,
         NEW type \in Numbers, type \in S,
         NEW n \in Seq(S), Len(n) = Width(type), NEW bytes \in Seq(S),
         Holds(s, WriteBytes(Write(Mark(t, x), type, n), bytes)),
         Ends(t, s)
  PROVE  LET next == Advance(Advance(Advance(s, 1), 1), Width(type)) IN
         /\ At(s) = x
         /\ Read(Advance(s, 1), type) = [ok |-> TRUE, value |-> n, stream |-> next]
         /\ ReadBytes(next, Len(bytes)) = bytes
         /\ Ends(WriteBytes(Write(Mark(t, x), type, n), bytes),
                 Advance(next, Len(bytes)))
<1> DEFINE t2 == Write(Mark(t, x), type, n)
           next == Advance(Advance(Advance(s, 1), 1), Width(type))
<1>1. t2 \in Streams(S)
  BY MarkedIsStream
<1> HIDE DEF t2
<1>2. Holds(s, t2) /\ WriteBytes(t2, bytes) \in Streams(S)
  BY <1>1, Earlier, Writing DEF t2
<1>3. /\ At(s) = x /\ Ends(t2, next)
      /\ Read(Advance(s, 1), type) = [ok |-> TRUE, value |-> n, stream |-> next]
  BY <1>2, MarkedNumber DEF t2
<1>4. next \in Streams(S) /\ Holds(next, WriteBytes(t2, bytes))
  <2>1. \A u \in Streams(S) : \A k \in Nat :
          /\ Advance(u, k) \in Streams(S)
          /\ \A v \in Streams(S) : Holds(u, v) => Holds(Advance(u, k), v)
    BY Advancing
  <2>2. Width(type) \in Nat
    BY DEF Width
  <2>3. Holds(s, WriteBytes(t2, bytes))
    BY DEF t2
  <2> QED
    BY <1>2, <2>1, <2>2, <2>3
<1> HIDE DEF next
<1>5. /\ ReadBytes(next, Len(bytes)) = bytes
      /\ Ends(WriteBytes(t2, bytes), Advance(next, Len(bytes)))
  BY <1>1, <1>3, <1>4, Reading
<1> QED
  BY <1>3, <1>5 DEF next, t2

-----------------------------------------------------------------------------
LEMMA UpperBytes ==
  ASSUME NEW n \in Nat
  PROVE  /\ Upper(n) \in Nat /\ (n % 256) \in 0..255
         /\ n = Upper(n) * 256 + (n % 256)
BY DEF Upper

(* The length of a string or a vector survives as an int.                  *)
LEMMA LengthsAreKept ==
  ASSUME NEW n \in Lengths
  PROVE  /\ Int32(n) \in Seq(0..255) /\ Len(Int32(n)) = 4
         /\ ValueOf(Int32(n)) = n
<1> DEFINE c == Upper(n)
           b == Upper(c)
           a == Upper(b)
<1>1. n \in Nat /\ c \in Nat /\ b \in Nat /\ a \in Nat
  BY UpperBytes DEF Lengths
<1>2. a < 128
  BY DEF Lengths
<1>3. Int32(n) = <<a, b % 256, c % 256, n % 256>>
  BY DEF Int32
<1>4. /\ (n % 256) \in 0..255 /\ n = c * 256 + (n % 256)
      /\ (c % 256) \in 0..255 /\ c = b * 256 + (c % 256)
      /\ (b % 256) \in 0..255 /\ b = a * 256 + (b % 256)
  BY <1>1, UpperBytes, ZenonT(30)
<1> HIDE DEF a, b, c
<1>5. a \in 0..255
  BY <1>1, <1>2
<1>6. /\ Int32(n) \in Seq(0..255) /\ Len(Int32(n)) = 4
  BY <1>3, <1>4, <1>5
<1>7. ValueOf(Int32(n)) = ((a * 256 + (b % 256)) * 256 + (c % 256)) * 256 + (n % 256)
  BY <1>3 DEF ValueOf
<1> QED
  BY <1>4, <1>6, <1>7

LEMMA StringsAmong ==
  ASSUME NEW S, "STRING" \in S, "INT32" \in S,
         NEW t \in Streams(S), NEW s \in Streams(S), NEW chars \in Seq(S),
         NEW size \in Seq(S), size = Int32(Len(chars)), Len(size) = 4,
         ValueOf(size) = Len(chars),
         Holds(s, WriteString(t, chars)), Ends(t, s)
  PROVE  LET first == Advance(Advance(Advance(s, 1), 1), Width("INT32"))
             next == Advance(first, Len(chars)) IN
         /\ ReadString(s) = [ok |-> TRUE, value |-> chars, stream |-> next]
         /\ Ends(WriteString(t, chars), next)
<1> DEFINE string == "STRING"
           int == "INT32"
           t2 == Write(Mark(t, string), int, size)
           s1 == Advance(s, 1)
           s2 == Advance(Advance(s1, 1), Width(int))
<1>1. string \in S /\ int \in S /\ int \in Numbers /\ Len(size) = Width(int)
  BY DEF Numbers, Width
<1>2. WriteString(t, chars) = WriteBytes(t2, chars)
  BY DEF WriteString, Mark
<1>3. Holds(s, WriteBytes(t2, chars))
  BY <1>2
<1> HIDE DEF string, int
<1>4. /\ At(s) = string
      /\ Read(s1, int) = [ok |-> TRUE, value |-> size, stream |-> s2]
      /\ ReadBytes(s2, Len(chars)) = chars
      /\ Ends(WriteBytes(t2, chars), Advance(s2, Len(chars)))
  BY <1>1, <1>3, MarkedBytes
<1> HIDE DEF s2, t2
<1>5. ReadString(s) = [ok |-> TRUE, value |-> chars, stream |-> Advance(s2, Len(chars))]
  <2> DEFINE len == Read(s1, int)
  <2>1. At(s) = "STRING" /\ len.value = size /\ len.stream = s2
    BY <1>4 DEF string
  <2>2. ReadString(s) = [ok |-> TRUE, value |-> ReadBytes(len.stream, ValueOf(len.value)),
                         stream |-> Advance(len.stream, ValueOf(len.value))]
    BY <2>1 DEF ReadString, int
  <2> HIDE DEF len
  <2> QED
    BY <1>4, <2>1, <2>2
<1> QED
  BY <1>2, <1>4, <1>5 DEF s2, int

(* The bytes of a string, whatever they are, are read where the string was *)
(* written, and the reader goes on behind them (DataStream::write and read *)
(* of std::string).                                                        *)
THEOREM StringsCrossMachines ==
  ASSUME NEW S, 0..255 \subseteq S, "STRING" \in S, "INT32" \in S,
         NEW t \in Streams(S), NEW s \in Streams(S),
         NEW chars \in Seq(S), Len(chars) \in Lengths,
         Holds(s, WriteString(t, chars)), Ends(t, s)
  PROVE  LET first == Advance(Advance(Advance(s, 1), 1), Width("INT32"))
             next == Advance(first, Len(chars)) IN
         /\ ReadString(s) = [ok |-> TRUE, value |-> chars, stream |-> next]
         /\ Ends(WriteString(t, chars), next)
<1> DEFINE size == Int32(Len(chars))
<1>1. size \in Seq(0..255) /\ Len(size) = 4 /\ ValueOf(size) = Len(chars)
  BY LengthsAreKept
<1> HIDE DEF size
<1>2. size \in Seq(S)
  BY <1>1, Alphabets
<1>3. size = Int32(Len(chars))
  BY DEF size
<1> QED
  BY <1>1, <1>2, <1>3, StringsAmong

VectorOf(t, size, bytes) ==
  WriteBytes(Write(Mark(t, "VECTOR"), "INT32", size), bytes)

LEMMA VectorsAmong ==
  ASSUME NEW S, "VECTOR" \in S, "INT32" \in S,
         NEW t \in Streams(S), NEW s \in Streams(S), NEW width \in Nat,
         NEW size \in Seq(S), Len(size) = 4, NEW bytes \in Seq(S),
         ValueOf(size) = Len(bytes),
         Holds(s, VectorOf(t, size, bytes)), Ends(t, s)
  PROVE  LET first == Advance(Advance(Advance(s, 1), 1), Width("INT32")) IN
         ReadVector(s, width) = [ok |-> TRUE,
           value |-> Resized(bytes, width),
           stream |-> Advance(first, Len(bytes))]
<1> DEFINE vector == "VECTOR"
           int == "INT32"
           t2 == Write(Mark(t, vector), int, size)
           s1 == Advance(s, 1)
           s2 == Advance(Advance(s1, 1), Width(int))
<1>1. vector \in S /\ int \in S /\ int \in Numbers /\ Len(size) = Width(int)
  BY DEF Numbers, Width
<1>2. Holds(s, WriteBytes(t2, bytes))
  BY DEF VectorOf
<1> HIDE DEF vector, int
<1>3. /\ At(s) = vector
      /\ Read(s1, int) = [ok |-> TRUE, value |-> size, stream |-> s2]
      /\ ReadBytes(s2, Len(bytes)) = bytes
  BY <1>1, <1>2, MarkedBytes
<1> HIDE DEF s2, t2
<1>4. ReadVector(s, width) = [ok |-> TRUE,
        value |-> Resized(bytes, width),
        stream |-> Advance(s2, Len(bytes))]
  <2> DEFINE len == Read(s1, int)
  <2>1. /\ At(s) = "VECTOR" /\ ValueOf(len.value) = Len(bytes) /\ len.stream = s2
        /\ ReadBytes(s2, Len(bytes)) = bytes
    BY <1>3 DEF vector
  <2>2. At(s) = "VECTOR" =>
          ReadVector(s, width) = [ok |-> TRUE,
            value |-> Resized(ReadBytes(len.stream, ValueOf(len.value)), width),
            stream |-> Advance(len.stream, ValueOf(len.value))]
    BY DEF ReadVector, int
  <2> HIDE DEF len
  <2> QED
    BY <2>1, <2>2
<1> QED
  BY <1>4 DEF s2, int

(* Of the memory of a vector as many bytes arrive as it has elements, and  *)
(* zeros for the rest: a vector of bytes is read as it was written, and    *)
(* one of wider elements is not (DataStream::write and read of vectors).   *)
THEOREM VectorsKeepBytes ==
  ASSUME NEW S, 0..255 \subseteq S, "VECTOR" \in S, "INT32" \in S,
         NEW t \in Streams(S), NEW s \in Streams(S), NEW width \in Nat,
         NEW memory \in Seq(S), NEW count \in Lengths, count <= Len(memory),
         Holds(s, WriteVector(t, memory, count)), Ends(t, s)
  PROVE  LET first == Advance(Advance(Advance(s, 1), 1), Width("INT32")) IN
         ReadVector(s, width) = [ok |-> TRUE,
           value |-> Resized(SubSeq(memory, 1, count), width),
           stream |-> Advance(first, count)]
<1> DEFINE size == Int32(count)
           bytes == SubSeq(memory, 1, count)
<1>1. size \in Seq(0..255) /\ Len(size) = 4 /\ ValueOf(size) = count
  BY LengthsAreKept
<1>2. bytes \in Seq(S) /\ Len(bytes) = count
  BY Beginning DEF Lengths
<1>3. Holds(s, VectorOf(t, size, bytes))
  BY DEF WriteVector, VectorOf, Mark
<1> HIDE DEF size, bytes
<1>4. size \in Seq(S)
  BY <1>1, Alphabets
<1>5. ValueOf(size) = Len(bytes)
  BY <1>1, <1>2
<1>6. LET first == Advance(Advance(Advance(s, 1), 1), Width("INT32")) IN
      ReadVector(s, width) = [ok |-> TRUE,
        value |-> Resized(bytes, width),
        stream |-> Advance(first, Len(bytes))]
  BY <1>1, <1>2, <1>3, <1>4, <1>5, VectorsAmong, ZenonT(40)
<1> QED
  BY <1>2, <1>6 DEF bytes

(* What a process broadcasts of a role that joins or leaves says the same  *)
(* to a process on a machine of the other byte order                       *)
(* (ChangeMsg::serialize and unserialize, Convert).                        *)
THEOREM ChangesArrive ==
  ASSUME NEW w \in ByteOrders, NEW r \in ByteOrders, NEW B,
         NEW operate_type \in Seq(B), Len(operate_type) = 4,
         NEW id \in Seq(B), Len(id) = 8
  PROVE  Unserialize(r, Serialize(w, operate_type, id))
           = [operate_type |-> operate_type, id |-> id]
<1> DEFINE custom == "CUSTOM"
           int == "INT32"
           long == "UINT64"
           S == B \cup {custom, int, long}
           t == Stream(<<>>, w)
           t2 == Write(Mark(t, custom), int, operate_type)
           t4 == Write(Mark(t2, custom), long, id)
           s == Stream(t4.buf, r)
           s2 == Advance(Advance(Advance(s, 1), 1), Width(int))
<1>1. operate_type \in Seq(S) /\ id \in Seq(S)
  OBVIOUS
<1>2. custom \in S /\ int \in S /\ long \in S
  OBVIOUS
<1> HIDE DEF S
<1>3. /\ int \in Numbers /\ long \in Numbers
      /\ Len(operate_type) = Width(int) /\ Len(id) = Width(long)
      /\ Width(int) \in Nat
  BY DEF Numbers, Width
<1>4. t \in Streams(S)
  BY DEF Stream, Streams
<1>5. Serialize(w, operate_type, id) = t4.buf
  BY DEF Serialize, WriteCustom, Mark
<1> HIDE DEF custom, int, long
<1>6. t2 \in Streams(S) /\ t4 \in Streams(S)
  <2> HIDE DEF t
  <2>1. t2 \in Streams(S)
    BY <1>1, <1>2, <1>4, MarkedIsStream
  <2> HIDE DEF t2
  <2> QED
    BY <1>1, <1>2, <2>1, MarkedIsStream
<1> HIDE DEF t4
<1>7. s \in Streams(S) /\ Holds(s, t4) /\ Ends(t, s)
  BY <1>6 DEF Stream, Streams, Holds, Ends
<1> HIDE DEF s, t, t2
<1>8. Holds(s, t2)
  BY <1>1, <1>2, <1>6, <1>7, MarkedEarlier DEF t4
<1>9. /\ Read(Advance(s, 1), int)
           = [ok |-> TRUE, value |-> operate_type, stream |-> s2]
      /\ Ends(t2, s2)
  BY <1>1, <1>2, <1>3, <1>4, <1>7, <1>8, MarkedNumber DEF t2
<1>10. s2 \in Streams(S) /\ Holds(s2, t4)
  <2>1. \A u \in Streams(S) : \A k \in Nat :
          /\ Advance(u, k) \in Streams(S)
          /\ \A v \in Streams(S) : Holds(u, v) => Holds(Advance(u, k), v)
    BY Advancing
  <2> QED
    BY <1>3, <1>6, <1>7, <2>1
<1> HIDE DEF s2
<1>11. Read(Advance(s2, 1), long).value = id
  <2> DEFINE next == Advance(Advance(Advance(s2, 1), 1), Width(long))
  <2>1. Read(Advance(s2, 1), long) = [ok |-> TRUE, value |-> id, stream |-> next]
    BY <1>1, <1>2, <1>3, <1>6, <1>9, <1>10, MarkedNumber DEF t4
  <2> QED
    BY <2>1
<1>12. Unserialize(r, t4.buf) = [operate_type |-> operate_type, id |-> id]
  BY <1>9, <1>11 DEF Unserialize, ReadCustom, s, int, long
<1> QED
  BY <1>5, <1>12

-----------------------------------------------------------------------------
(* The loops. *)

LoopInv == Loop!TypeOK /\ Loop!WithinACycle

(* Both hold of every loop, for any period that is not negative.           *)
THEOREM RateHolds ==
  ASSUME expected_cycle_time_ \in Nat
  PROVE  Loop!Spec => []Loop!WithinACycle /\ Loop!KeepsThePace
<1>1. Loop!Init => LoopInv
  BY DEF Loop!Init, LoopInv, Loop!TypeOK, Loop!WithinACycle, Loop!Time, Loop!Duration
<1>2. LoopInv /\ [Loop!Next]_Loop!vars => LoopInv'
  <2> SUFFICES ASSUME LoopInv, [Loop!Next]_Loop!vars PROVE LoopInv'
    OBVIOUS
  <2> USE DEF LoopInv, Loop!TypeOK, Loop!WithinACycle, Loop!Time, Loop!Duration
  <2>1. ASSUME NEW now \in Loop!Time, Loop!Sleep(now) PROVE LoopInv'
    BY <2>1 DEF Loop!Sleep, Loop!ExpectedEnd, Loop!SleepUntil
  <2>2. ASSUME NEW now \in Loop!Time, Loop!Reset(now) PROVE LoopInv'
    BY <2>2 DEF Loop!Reset
  <2>3. CASE UNCHANGED Loop!vars
    BY <2>3 DEF Loop!vars
  <2>4. QED
    BY <2>1, <2>2, <2>3 DEF Loop!Next
<1>3. LoopInv /\ [Loop!Next]_Loop!vars =>
        [\A now \in Loop!Time : Loop!Sleep(now) /\ Loop!OnTime(now) =>
           start_' = start_ + expected_cycle_time_]_Loop!vars
  <2> SUFFICES ASSUME LoopInv, NEW now \in Loop!Time, Loop!Sleep(now), Loop!OnTime(now)
               PROVE  start_' = start_ + expected_cycle_time_
    OBVIOUS
  <2> QED
    BY DEF Loop!Sleep, Loop!OnTime, Loop!ExpectedEnd, LoopInv, Loop!TypeOK, Loop!Time
<1>4. LoopInv => Loop!WithinACycle
  BY DEF LoopInv
<1>5. QED
  BY <1>1, <1>2, <1>3, <1>4, PTL DEF Loop!Spec, Loop!KeepsThePace
=============================================================================
