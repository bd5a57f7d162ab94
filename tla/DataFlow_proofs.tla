--------------------------- MODULE DataFlow_proofs ---------------------------
(***************************************************************************)
(* The safety properties of DataFlow, for any channels, visitors, queue    *)
(* sizes and depths. All follow from one inductive invariant, Inv: the     *)
(* rings hold what was filled into them (Holds), a receiving thread has    *)
(* each buffer at most once in the part of the vector that is left         *)
(* (Distinct, IsThread), so what is filled, and what is fetched of it, is  *)
(* in order (Filled, Fetched), the pairs move forward (Newest, Fusing),    *)
(* and a blocker's queues are windows of what was fetched (Blocking).      *)
(***************************************************************************)
EXTENDS DataFlow, TLAPS

(* A buffer of a given size, and what it holds of all that was put into    *)
(* it: what is not overwritten, and always the newest.                     *)
IsBuffer(b, size) ==
  /\ DOMAIN b = {"head", "tail", "capacity", "buffer"}
  /\ b.head \in Nat /\ b.tail \in Nat /\ b.capacity = size + 1
  /\ b.tail - b.head \in 0..size /\ DOMAIN b.buffer = 0..size
Holds(b, s) ==
  /\ Len(s) = b.tail
  /\ \A i \in 1..Len(s) : i > b.head \/ i = b.tail => At(b, i) = s[i]

(* A visitor: its buffers, and which of them have been added to the maps.  *)
Steps == {"none", "yielded", "fetch", "empty", "enqueue", "publish"}
Reads(v, w) == IF Fused(v) THEN w.fbuf ELSE w.bufs[1]
IsVisitor(v, w) ==
  /\ DOMAIN w = {"stage", "added", "fusion", "bufs", "fbuf", "next", "item",
                 "rt", "state", "news", "missed"}
  /\ w.stage \in Stages /\ w.rt \in Steps
  /\ w.rt # "none" => w.stage \in {"callback", "up"}
  /\ w.added \in 0..Len(Inputs[v])
  /\ w.stage = "buffers" => w.added < Len(Inputs[v])
  /\ w.fusion \/ w.stage = "fusion" => Fused(v)
  /\ DOMAIN w.bufs = 1..Len(Inputs[v])
  /\ \A k \in 1..Len(Inputs[v]) : IsBuffer(w.bufs[k], QueueSize[v])
  /\ IsBuffer(w.fbuf, QueueSize[v])
  /\ w.next \in 0..(Reads(v, w).tail + 1)
Visiting ==
  /\ DOMAIN vis = Visitors
  /\ \A v \in Visitors : IsVisitor(v, vis[v])

(* The entries of a channel's vector are different buffers of the channel. *)
Distinct(s) == \A i, j \in 1..Len(s) : s[i] = s[j] => i = j
IsEntry(c, e) ==
  e[2] \in 1..vis[e[1]].added /\ Inputs[e[1]][e[2]] = c
Listed ==
  /\ buffers \in [Channels -> Seq(Entries)] /\ notifiers \in [Channels -> Seq(Entries)]
  /\ \A c \in Channels :
       /\ Distinct(buffers[c])
       /\ \A i \in 1..Len(buffers[c]) : IsEntry(c, buffers[c][i])

(* A receiving thread has the last message sent, and dispatches it to each *)
(* buffer once; a second time only in the signal of a sender it knows.     *)
Threads ==
  [pc : ChannelSteps, msg : Nat, oppo : BOOLEAN, left : 0..MaxSlots,
   todo : Seq(Entries), torn : BOOLEAN, pair : {NULL} \cup (Nat \X Nat),
   seen : [Fuseds -> Nat]]
IsThread(c, r, n) ==
  /\ r.msg = IF r.pc = "idle" THEN 0 ELSE n
  /\ r.oppo => c \in KnowsSender
  /\ r.pc \in {"fill", "fuse"} => r.todo # <<>>
  /\ r.pc \in {"lock", "fill", "fuse"} =>
       Distinct(r.todo) /\ \A i \in 1..Len(r.todo) : IsEntry(c, r.todo[i])
Receiving ==
  /\ chan \in [Channels -> Threads]
  /\ sent \in [Channels -> Nat] /\ \A c \in Channels : sent[c] <= MaxMsgs[c]
  /\ \A c \in Channels : IsThread(c, chan[c], sent[c])

(* The writer's connection is one of its slots.                            *)
Handlers ==
  /\ handler \in [Channels -> [open : BOOLEAN, slots : 0..MaxSlots, conn : BOOLEAN]]
  /\ \A c \in Channels : handler[c].conn => handler[c].slots > 0

(* The second message of a pair: the newest of its channel.                *)
Newest ==
  /\ newest \in [Fuseds -> Nat]
  /\ \A v \in Fuseds :
       /\ newest[v] <= sent[Inputs[v][2]]
       /\ vis[v].bufs[2].tail > 0 => Latest(vis[v].bufs[2]) = newest[v]
  /\ \A c \in Channels : \A v \in Fuseds :
       Inputs[v][1] = c => chan[c].seen[v] <= newest[v]
FusingAt(c, v) == chan[c].pc = "fuse" /\ Head(chan[c].todo) = <<v, 1>>
Fusing ==
  \A c \in Channels : chan[c].pc = "fuse" =>
    LET v == Head(chan[c].todo)[1] IN
      /\ v \in Fuseds /\ Head(chan[c].todo) = <<v, 1>> /\ Inputs[v][1] = c
      /\ chan[c].pair \in Nat \X Nat /\ chan[c].pair[1] = sent[c]
      /\ chan[c].pair[2] \in chan[c].seen[v]..newest[v]

(* What was filled into the buffer that a visitor reads.                   *)
Items(v) == IF Fused(v) THEN Nat \X Nat ELSE Nat
Msg(v, x) == IF Fused(v) THEN x[1] ELSE x
Follows(v, x, y) ==
  /\ Msg(v, x) <= Msg(v, y)
  /\ Inputs[v][1] \notin KnowsSender => Msg(v, x) < Msg(v, y)
  /\ Fused(v) => x[2] <= y[2]
Ordered(v, s) == \A i, j \in 1..Len(s) : i < j => Follows(v, s[i], s[j])
Pending(c, v) ==
  /\ chan[c].pc \in {"lock", "fill", "fuse"}
  /\ \E i \in 1..Len(chan[c].todo) : chan[c].todo[i] = <<v, 1>>
IsFilled(v, x) ==
  LET c == Inputs[v][1] IN
    /\ Msg(v, x) <= sent[c]
    /\ c \notin KnowsSender /\ Pending(c, v) => Msg(v, x) < sent[c]
    /\ Fused(v) => x[2] <= newest[v]
    /\ FusingAt(c, v) => x[2] <= chan[c].pair[2]
Filled ==
  /\ DOMAIN filled = Visitors
  /\ \A v \in Visitors :
       /\ filled[v] \in Seq(Items(v)) /\ Holds(ReadBuffer(v), filled[v])
       /\ Ordered(v, filled[v])
       /\ \A i \in 1..Len(filled[v]) : IsFilled(v, filled[v][i])

(* What it has fetched comes from there, and from before the next index.   *)
Fetched ==
  /\ DOMAIN delivered = Visitors
  /\ \A v \in Visitors :
       /\ delivered[v] \in Seq(Items(v)) /\ Ordered(v, delivered[v])
       /\ \A j \in 1..Len(delivered[v]) : \E k \in 1..Len(filled[v]) :
            k < vis[v].next /\ delivered[v][j] = filled[v][k]

(* The queues of a blocker are windows of what its subscriber has fetched, *)
(* the published one up to the message that the routine has in hand.       *)
Passed(v) == IF vis[v].rt \in {"enqueue", "publish"} THEN Len(delivered[v]) - 1
                                                 ELSE Len(delivered[v])
IsWindow(queue, s, last) ==
  Len(queue) <= last /\ \A i \in 1..Len(queue) : queue[i] = s[last + 1 - i]
Blocking ==
  /\ DOMAIN blk = Visitors
  /\ \A v \in Visitors :
       /\ blk[v] \in [capacity : Nat, published : Seq(Nat), observed : Seq(Nat)]
       /\ Len(blk[v].published) <= blk[v].capacity
       /\ vis[v].rt \in {"enqueue", "publish"} =>
            /\ ~Fused(v) /\ Len(delivered[v]) > 0
            /\ vis[v].item = delivered[v][Len(delivered[v])]
       /\ ~Fused(v) =>
            /\ IsWindow(blk[v].published, delivered[v], Passed(v))
            /\ \E i \in 0..Len(delivered[v]) :
                 IsWindow(blk[v].observed, delivered[v], i)

Inv == /\ Visiting /\ Listed /\ Receiving /\ Handlers
       /\ Newest /\ Fusing /\ Filled /\ Fetched /\ Blocking

-----------------------------------------------------------------------------
(* The ring: two indices less than a capacity apart have different slots,  *)
(* two that are a capacity apart have the same.                            *)
LEMMA Slots ==
  ASSUME NEW m \in Nat \ {0}, NEW x \in Nat
  PROVE  /\ x % m \in 0..(m - 1) /\ (x + m) % m = x % m
         /\ \A y \in Nat : y < x /\ x - y < m => x % m # y % m
<1>1. \A z \in Nat : z % m \in 0..(m - 1) /\ \E q \in Int : z = m * q + (z % m)
  <2> SUFFICES ASSUME NEW z \in Nat
               PROVE  z % m \in 0..(m - 1) /\ \E q \in Int : z = m * q + (z % m)
    OBVIOUS
  <2>1. z \div m \in Int /\ z % m \in 0..(m - 1) /\ z = m * (z \div m) + (z % m)
    BY Z3
  <2> QED
    BY <2>1
<1>2. \A a, b \in Int, r, s \in 0..(m - 1) : m * a + r = m * b + s => r = s
  <2> SUFFICES ASSUME NEW a \in Int, NEW b \in Int, NEW r \in 0..(m - 1),
                      NEW s \in 0..(m - 1), m * a + r = m * b + s
               PROVE  r = s
    OBVIOUS
  <2>1. m * (a - b) = s - r
    OBVIOUS
  <2>2. a - b >= 1 => m * (a - b) >= m
    OBVIOUS
  <2>3. a - b <= -1 => m * (a - b) <= -m
    OBVIOUS
  <2> QED
    BY <2>1, <2>2, <2>3
<1>3. (x + m) % m = x % m
  <2>1. PICK q \in Int : x = m * q + (x % m)
    BY <1>1
  <2>2. x + m \in Nat
    OBVIOUS
  <2>3. PICK p \in Int : x + m = m * p + ((x + m) % m)
    BY <1>1, <2>2
  <2>4. x % m \in 0..(m - 1) /\ (x + m) % m \in 0..(m - 1)
    BY <1>1, <2>2
  <2> DEFINE r == x % m
             s == (x + m) % m
  <2>5. x = m * q + r /\ x + m = m * p + s /\ r \in 0..(m - 1) /\ s \in 0..(m - 1)
    BY <2>1, <2>3, <2>4
  <2> HIDE DEF r, s
  <2>6. m * (q + 1) = m * q + m
    OBVIOUS
  <2>7. m * (q + 1) + r = m * p + s
    BY <2>5, <2>6
  <2>8. r = s
    BY <1>2, <2>5, <2>7
  <2> QED
    BY <2>8 DEF r, s
<1>4. ASSUME NEW y \in Nat, y < x, x - y < m, x % m = y % m
      PROVE  FALSE
  <2>1. PICK q \in Int : x = m * q + (x % m)
    BY <1>1
  <2>2. PICK p \in Int : y = m * p + (y % m)
    BY <1>1
  <2>3. m * (q - p) = x - y
    BY <1>1, <1>4, <2>1, <2>2
  <2>4. q - p >= 1 => m * (q - p) >= m
    OBVIOUS
  <2>5. q - p <= 0 => m * (q - p) <= 0
    OBVIOUS
  <2> QED
    BY <1>4, <2>3, <2>4, <2>5
<1> QED
  BY <1>1, <1>3, <1>4

(* Fill keeps what is not overwritten.                                     *)
LEMMA Puts ==
  ASSUME NEW size \in Nat, NEW b, IsBuffer(b, size), NEW x
  PROVE  /\ IsBuffer(Put(b, x), size) /\ Put(b, x).tail = b.tail + 1
         /\ Put(b, x).head \in {b.head, b.head + 1} /\ At(Put(b, x), b.tail + 1) = x
         /\ \A i \in 1..b.tail : i > Put(b, x).head =>
              i > b.head /\ At(Put(b, x), i) = At(b, i)
<1> DEFINE m == size + 1
           slot == IF Full(b) THEN b.head % m ELSE (b.tail + 1) % m
<1>1. /\ m \in Nat \ {0} /\ b.capacity = m /\ b.head \in Nat /\ b.tail \in Nat
      /\ b.tail - b.head \in 0..size /\ DOMAIN b.buffer = 0..size
      /\ DOMAIN b = {"head", "tail", "capacity", "buffer"}
  BY DEF IsBuffer
<1> HIDE DEF m
<1>2. slot = (b.tail + 1) % m
  <2>1. CASE Full(b)
    <3>1. b.tail + 1 = b.head + m
      BY <1>1, <2>1 DEF Full, m
    <3> QED
      BY <1>1, <2>1, <3>1, Slots
  <2> QED
    BY <2>1
<1>3. slot \in 0..size
  BY <1>1, <1>2, Slots DEF m
<1> HIDE DEF slot
<1>4. /\ DOMAIN Put(b, x) = DOMAIN b
      /\ Put(b, x).capacity = m /\ Put(b, x).tail = b.tail + 1
      /\ Put(b, x).head = IF Full(b) THEN b.head + 1 ELSE b.head
      /\ Put(b, x).buffer = [b.buffer EXCEPT ![slot] = x]
  BY <1>1 DEF Put, slot
<1>5. IsBuffer(Put(b, x), size)
  BY <1>1, <1>4 DEF IsBuffer, Full, m
<1>6. At(Put(b, x), b.tail + 1) = x
  BY <1>1, <1>2, <1>3, <1>4 DEF At
<1>7. ASSUME NEW i \in 1..b.tail, i > Put(b, x).head
      PROVE  i > b.head /\ At(Put(b, x), i) = At(b, i)
  <2>1. b.tail + 1 - i < m /\ i < b.tail + 1 /\ i \in Nat
    BY <1>1, <1>4, <1>7 DEF Full, m
  <2>2. i % m # slot
    <3> DEFINE t == b.tail + 1
    <3>2. t \in Nat /\ i < t /\ t - i < m
      BY <1>1, <2>1
    <3>4. slot = t % m
      BY <1>2
    <3> HIDE DEF t
    <3>3. \A y \in Nat : y < t /\ t - y < m => t % m # y % m
      BY <1>1, <3>2, Slots
    <3> QED
      BY <2>1, <3>2, <3>3, <3>4
  <2>3. i % m \in 0..size
    BY <1>1, <2>1, Slots DEF m
  <2> QED
    BY <1>1, <1>3, <1>4, <1>7, <2>1, <2>2, <2>3 DEF At
<1> QED
  BY <1>1, <1>4, <1>5, <1>6, <1>7

LEMMA PutHolds ==
  ASSUME NEW S, NEW s \in Seq(S), NEW size \in Nat, NEW b, IsBuffer(b, size),
         Holds(b, s), NEW x \in S
  PROVE  Holds(Put(b, x), Append(s, x))
<1>1. /\ Append(s, x) \in Seq(S) /\ Len(Append(s, x)) = Len(s) + 1 /\ Len(s) \in Nat
      /\ \A i \in 1..Len(s) : Append(s, x)[i] = s[i]
      /\ Append(s, x)[Len(s) + 1] = x
  OBVIOUS
<1>2. /\ Len(s) = b.tail /\ b.head \in Nat
      /\ \A i \in 1..Len(s) : i > b.head \/ i = b.tail => At(b, i) = s[i]
  BY DEF Holds, IsBuffer
<1>3. /\ Put(b, x).tail = b.tail + 1
      /\ Put(b, x).head \in {b.head, b.head + 1} /\ At(Put(b, x), b.tail + 1) = x
      /\ \A i \in 1..b.tail : i > Put(b, x).head =>
           i > b.head /\ At(Put(b, x), i) = At(b, i)
  BY Puts
<1> SUFFICES ASSUME NEW i \in 1..Len(Append(s, x)),
                    i > Put(b, x).head \/ i = Put(b, x).tail
             PROVE  At(Put(b, x), i) = Append(s, x)[i]
  BY <1>1, <1>2, <1>3 DEF Holds
<1>4. CASE i = b.tail + 1
  BY <1>1, <1>2, <1>3, <1>4
<1>5. CASE i \in 1..b.tail
  BY <1>1, <1>2, <1>3, <1>5
<1> QED
  BY <1>1, <1>2, <1>4, <1>5

(* What a fetch returns was filled at the index it ends up with, which is  *)
(* not before the one that was asked for.                                  *)
LEMMA Fetches ==
  ASSUME NEW size \in Nat, NEW b, IsBuffer(b, size), NEW s, Holds(b, s),
         NEW n \in 0..(b.tail + 1), CanFetch(b, n)
  PROVE  LET i == FetchIndex(b, n) IN
           /\ i \in 1..Len(s) /\ i >= n /\ At(b, i) = s[i] /\ i <= b.tail
           /\ i # n => i = Len(s) /\ (n = 0 \/ n <= b.head)
<1>1. b.head \in Nat /\ b.tail \in Nat /\ b.tail # 0 /\ n # b.tail + 1 /\ n \in Nat
  BY DEF IsBuffer, CanFetch, Empty
<1>2. FetchIndex(b, n) = b.tail \/ (FetchIndex(b, n) = n /\ n > b.head /\ n # 0)
  BY <1>1 DEF FetchIndex, HeadIndex
<1>3. FetchIndex(b, n) # n => n = 0 \/ n <= b.head
  BY <1>1 DEF FetchIndex, HeadIndex
<1> QED
  BY <1>1, <1>2, <1>3 DEF Holds

LEMMA Appending ==
  ASSUME NEW S, NEW s \in Seq(S), NEW x \in S
  PROVE  /\ Append(s, x) \in Seq(S) /\ Len(Append(s, x)) = Len(s) + 1 /\ Len(s) \in Nat
         /\ \A i \in 1..Len(s) : Append(s, x)[i] = s[i]
         /\ Append(s, x)[Len(s) + 1] = x
         /\ \A i \in 1..Len(Append(s, x)) : i \in 1..Len(s) \/ i = Len(s) + 1
OBVIOUS

LEMMA HeadAndTail ==
  ASSUME NEW S, NEW s \in Seq(S), s # <<>>
  PROVE  /\ Tail(s) \in Seq(S) /\ Head(s) \in S /\ Head(s) = s[1] /\ Len(s) \in Nat \ {0}
         /\ Len(Tail(s)) = Len(s) - 1
         /\ \A i \in 1..Len(Tail(s)) : Tail(s)[i] = s[i + 1] /\ i + 1 \in 1..Len(s)
OBVIOUS

LEMMA Places ==
  /\ \A v \in Visitors :
       /\ Inputs[v] \in Seq(Channels) /\ Len(Inputs[v]) \in {1, 2}
       /\ Inputs[v][1] \in Channels /\ QueueSize[v] \in Nat
       /\ Fused(v) <=> Len(Inputs[v]) = 2
       /\ Fused(v) => Inputs[v][2] \in Channels
       /\ v \in Fuseds <=> Fused(v)
  /\ Fuseds \subseteq Visitors /\ MaxSlots \in Nat /\ \A c \in Channels : MaxMsgs[c] \in Nat
BY DataFlowAssumption DEF Fused, Fuseds

(* One visitor is changed.                                                 *)
LEMMA VisitorStep ==
  ASSUME Visiting, NEW v \in Visitors, NEW w, IsVisitor(v, w),
         vis' = [vis EXCEPT ![v] = w]
  PROVE  Visiting' /\ vis'[v] = w /\ \A u \in Visitors : u # v => vis'[u] = vis[u]
<1>1. DOMAIN vis' = Visitors /\ \A u \in Visitors : vis'[u] = IF u = v THEN w ELSE vis[u]
  BY DEF Visiting
<1>2. \A u \in Visitors : IsVisitor(u, vis'[u])
  BY <1>1 DEF Visiting
<1> QED
  BY <1>1, <1>2 DEF Visiting, IsVisitor, Reads, IsBuffer

(* A step that leaves the receiving threads where they are, and the        *)
(* buffers as they are.                                                    *)
LEMMA Still ==
  ASSUME Inv, chan' \in [Channels -> Threads],
         \A c \in Channels :
           /\ chan'[c].pc = chan[c].pc /\ chan'[c].msg = chan[c].msg
           /\ chan'[c].oppo = chan[c].oppo /\ chan'[c].todo = chan[c].todo
           /\ chan'[c].pair = chan[c].pair /\ chan'[c].seen = chan[c].seen,
         \A v \in Visitors :
           /\ vis'[v].added \in Nat /\ vis[v].added <= vis'[v].added
           /\ vis'[v].bufs = vis[v].bufs /\ vis'[v].fbuf = vis[v].fbuf,
         UNCHANGED <<sent, newest, filled>>
  PROVE  Receiving' /\ Newest' /\ Fusing' /\ Filled'
<1> USE Places
<1>1. \A c \in Channels, e \in Entries : IsEntry(c, e) => IsEntry(c, e)'
  BY DEF IsEntry, Entries, Inv, Visiting, IsVisitor
<1>2. \A c \in Channels : chan[c].todo \in Seq(Entries)
  BY DEF Inv, Receiving, Threads
<1>3. \A c \in Channels : \A i \in 1..Len(chan[c].todo) : chan[c].todo[i] \in Entries
  BY <1>2
<1>4. Receiving'
  <2>1. ASSUME NEW c \in Channels PROVE IsThread(c, chan[c], sent[c])'
    <3>1. IsThread(c, chan[c], sent[c])
      BY DEF Inv, Receiving
    <3> QED
      BY <3>1, <1>1, <1>3 DEF IsThread
  <2> QED
    BY <2>1 DEF Inv, Receiving
<1>5. Newest'
  BY DEF Inv, Newest
<1>6. Fusing'
  BY SMTT(40) DEF Inv, Fusing, FusingAt
<1>7. Filled'
  <2>1. \A v \in Visitors : ReadBuffer(v)' = ReadBuffer(v)
    BY DEF ReadBuffer
  <2>2. \A v \in Visitors : Pending(Inputs[v][1], v)' <=> Pending(Inputs[v][1], v)
    BY DEF Pending
  <2>3. \A v \in Visitors : FusingAt(Inputs[v][1], v)' <=> FusingAt(Inputs[v][1], v)
    BY DEF FusingAt
  <2>4. \A v \in Visitors : \A x : IsFilled(v, x) => IsFilled(v, x)'
    BY <2>2, <2>3 DEF IsFilled
  <2> QED
    BY <2>1, <2>4 DEF Inv, Filled
<1> QED
  BY <1>4, <1>5, <1>6, <1>7

(* What was fetched stays, and what was filled is only added to.           *)
LEMMA StaysFetched ==
  ASSUME Fetched,
         \A v \in Visitors :
           /\ vis'[v].next = vis[v].next
           /\ Len(filled[v]) \in Nat /\ Len(filled'[v]) \in Nat
           /\ Len(filled[v]) <= Len(filled'[v])
           /\ \A k \in 1..Len(filled[v]) : filled'[v][k] = filled[v][k],
         delivered' = delivered
  PROVE  Fetched'
<1> SUFFICES ASSUME NEW v \in Visitors, NEW j \in 1..Len(delivered[v])
             PROVE  \E k \in 1..Len(filled'[v]) :
                      k < vis'[v].next /\ delivered[v][j] = filled'[v][k]
  BY DEF Fetched
<1>1. PICK k \in 1..Len(filled[v]) : k < vis[v].next /\ delivered[v][j] = filled[v][k]
  BY DEF Fetched
<1> QED
  BY <1>1

(* The blockers are left alone.                                            *)
LEMMA StaysBlocking ==
  ASSUME Blocking, blk' = blk, delivered' = delivered,
         \A v \in Visitors :
           /\ vis'[v].item = vis[v].item
           /\ vis'[v].rt \in {"enqueue", "publish"} <=>
                vis[v].rt \in {"enqueue", "publish"}
  PROVE  Blocking'
<1>1. \A v \in Visitors : Passed(v)' = Passed(v)
  BY DEF Passed
<1> QED
  BY <1>1 DEF Blocking

LEMMA Unchanged ==
  ASSUME Inv, UNCHANGED chan
  PROVE  /\ chan' \in [Channels -> Threads]
         /\ \A c \in Channels :
              /\ chan'[c].pc = chan[c].pc /\ chan'[c].msg = chan[c].msg
              /\ chan'[c].oppo = chan[c].oppo /\ chan'[c].todo = chan[c].todo
              /\ chan'[c].pair = chan[c].pair /\ chan'[c].seen = chan[c].seen
BY DEF Inv, Receiving

(* A thread has the fields of Idle.                                        *)
LEMMA Fields ==
  ASSUME NEW r \in Threads
  PROVE  /\ r.pc \in ChannelSteps /\ r.msg \in Nat /\ r.oppo \in BOOLEAN
         /\ r.left \in 0..MaxSlots /\ r.todo \in Seq(Entries) /\ r.torn \in BOOLEAN
         /\ r.pair \in {NULL} \cup (Nat \X Nat) /\ r.seen \in [Fuseds -> Nat]
         /\ DOMAIN r = {"pc", "msg", "oppo", "left", "todo", "torn", "pair", "seen"}
         /\ r = [pc |-> r.pc, msg |-> r.msg, oppo |-> r.oppo, left |-> r.left,
                 todo |-> r.todo, torn |-> r.torn, pair |-> r.pair, seen |-> r.seen]
BY DEF Threads

LEMMA Torn ==
  ASSUME NEW r \in Threads, NEW t \in BOOLEAN
  PROVE  [r EXCEPT !.torn = t] \in Threads
<1>1. [r EXCEPT !.torn = t] =
        [pc |-> r.pc, msg |-> r.msg, oppo |-> r.oppo, left |-> r.left,
         todo |-> r.todo, torn |-> t, pair |-> r.pair, seen |-> r.seen]
  BY Fields
<1> QED
  BY <1>1, Fields DEF Threads

LEMMA Reallocates ==
  ASSUME Inv, NEW c \in Channels, NEW pcs, NEW torn \in BOOLEAN,
         MayReallocate(c, pcs, torn)
  PROVE  /\ chan' \in [Channels -> Threads]
         /\ \A d \in Channels :
              /\ chan'[d].pc = chan[d].pc /\ chan'[d].msg = chan[d].msg
              /\ chan'[d].oppo = chan[d].oppo /\ chan'[d].todo = chan[d].todo
              /\ chan'[d].pair = chan[d].pair /\ chan'[d].seen = chan[d].seen
<1> DEFINE t == IF chan[c].pc \in pcs THEN chan[c].torn \/ torn ELSE chan[c].torn
<1>1. chan \in [Channels -> Threads]
  BY DEF Inv, Receiving
<1>2. t \in BOOLEAN
  BY <1>1 DEF Threads
<1>3. chan' = [chan EXCEPT ![c] = [chan[c] EXCEPT !.torn = t]]
  BY <1>1 DEF MayReallocate
<1> HIDE DEF t
<1>4. [chan[c] EXCEPT !.torn = t] \in Threads
  <2>1. chan[c] \in Threads
    BY <1>1
  <2> QED
    BY <2>1, <1>2, Torn
<1>5. chan' \in [Channels -> Threads]
  BY <1>1, <1>3, <1>4
<1>6. \A d \in Channels : chan'[d] = IF d = c THEN [chan[c] EXCEPT !.torn = t] ELSE chan[d]
  BY <1>1, <1>3
<1>7. /\ [chan[c] EXCEPT !.torn = t].pc = chan[c].pc
      /\ [chan[c] EXCEPT !.torn = t].msg = chan[c].msg
      /\ [chan[c] EXCEPT !.torn = t].oppo = chan[c].oppo
      /\ [chan[c] EXCEPT !.torn = t].todo = chan[c].todo
      /\ [chan[c] EXCEPT !.torn = t].pair = chan[c].pair
      /\ [chan[c] EXCEPT !.torn = t].seen = chan[c].seen
  BY <1>1 DEF Threads
<1> QED
  BY <1>5, <1>6, <1>7

(* A step that neither fetches nor moves a receiving thread: one visitor   *)
(* changes, but neither its buffers nor what it has in hand.               *)
LEMMA Quiet ==
  ASSUME Inv, NEW v \in Visitors, NEW w, IsVisitor(v, w), vis' = [vis EXCEPT ![v] = w],
         w.added = vis[v].added, w.bufs = vis[v].bufs, w.fbuf = vis[v].fbuf,
         w.next = vis[v].next, w.item = vis[v].item,
         w.rt \in {"enqueue", "publish"} <=> vis[v].rt \in {"enqueue", "publish"},
         chan' \in [Channels -> Threads],
         \A c \in Channels :
           /\ chan'[c].pc = chan[c].pc /\ chan'[c].msg = chan[c].msg
           /\ chan'[c].oppo = chan[c].oppo /\ chan'[c].todo = chan[c].todo
           /\ chan'[c].pair = chan[c].pair /\ chan'[c].seen = chan[c].seen,
         notifiers' \in [Channels -> Seq(Entries)], Handlers',
         UNCHANGED <<sent, buffers, blk, history>>
  PROVE  Inv'
<1> USE Places
<1>1. Visiting' /\ vis'[v] = w /\ \A u \in Visitors : u # v => vis'[u] = vis[u]
  BY VisitorStep DEF Inv
<1>2. \A u \in Visitors :
        /\ vis'[u].added = vis[u].added /\ vis'[u].added \in Nat
        /\ vis'[u].bufs = vis[u].bufs /\ vis'[u].fbuf = vis[u].fbuf
        /\ vis'[u].next = vis[u].next /\ vis'[u].item = vis[u].item
        /\ vis'[u].rt \in {"enqueue", "publish"} <=>
             vis[u].rt \in {"enqueue", "publish"}
  BY <1>1 DEF Inv, Visiting, IsVisitor
<1>3. Receiving' /\ Newest' /\ Fusing' /\ Filled'
  BY <1>2, Still DEF history
<1>4. Listed'
  BY <1>2 DEF Inv, Listed, IsEntry, Entries
<1>5. Fetched'
  <2>1. \A u \in Visitors : filled[u] \in Seq(Items(u)) /\ filled'[u] = filled[u]
    BY DEF Inv, Filled, history
  <2>2. \A u \in Visitors :
          /\ Len(filled[u]) \in Nat /\ Len(filled'[u]) \in Nat
          /\ Len(filled[u]) <= Len(filled'[u])
          /\ \A k \in 1..Len(filled[u]) : filled'[u][k] = filled[u][k]
    BY <2>1
  <2> QED
    BY <1>2, <2>2, StaysFetched DEF Inv, history
<1>6. Blocking'
  BY <1>2, StaysBlocking DEF Inv, history
<1> QED
  BY <1>1, <1>3, <1>4, <1>5, <1>6 DEF Inv

LEMMA Handled ==
  ASSUME Inv, UNCHANGED handler
  PROVE  Handlers'
BY DEF Inv, Handlers

LEMMA IsNotified ==
  ASSUME Inv, UNCHANGED notifiers
  PROVE  notifiers' \in [Channels -> Seq(Entries)]
BY DEF Inv, Listed

-----------------------------------------------------------------------------
LEMMA AddNotifierStep ==
  ASSUME Inv, NEW v \in Visitors, NEW torn \in BOOLEAN, AddNotifier(v, torn)
  PROVE  Inv'
<1> USE Places
<1> DEFINE w == [vis[v] EXCEPT !.stage = IF Fused(v) THEN "fusion" ELSE "task"]
<1>1. /\ IsVisitor(v, vis[v]) /\ DOMAIN vis = Visitors /\ vis[v].stage = "notifier"
      /\ MayReallocate(Inputs[v][1], {"notify"}, torn)
      /\ notifiers' = [notifiers EXCEPT ![Inputs[v][1]] = Append(@, <<v, 1>>)]
      /\ vis' = [vis EXCEPT ![v] = w]
      /\ UNCHANGED <<sent, buffers, blk, handler, history>>
  BY DEF Inv, Visiting, AddNotifier, owner
<1>2. /\ IsVisitor(v, w) /\ w.added = vis[v].added /\ w.bufs = vis[v].bufs
      /\ w.fbuf = vis[v].fbuf /\ w.next = vis[v].next /\ w.item = vis[v].item
      /\ w.rt = vis[v].rt
  BY <1>1 DEF IsVisitor, Reads, Stages
<1> HIDE DEF w
<1>3. notifiers' \in [Channels -> Seq(Entries)]
  <2>1. notifiers \in [Channels -> Seq(Entries)] /\ <<v, 1>> \in Entries
    BY DEF Inv, Listed, Entries
  <2>2. Append(notifiers[Inputs[v][1]], <<v, 1>>) \in Seq(Entries)
    BY <2>1
  <2> QED
    BY <1>1, <2>1, <2>2
<1> QED
  BY <1>1, <1>2, <1>3, Handled, Reallocates, Quiet

LEMMA SetFusionCallbackStep ==
  ASSUME Inv, NEW v \in Visitors, SetFusionCallback(v)
  PROVE  Inv'
<1> USE Places
<1> DEFINE w == [vis[v] EXCEPT !.stage = "task", !.fusion = TRUE]
<1>1. /\ IsVisitor(v, vis[v]) /\ DOMAIN vis = Visitors /\ vis[v].stage = "fusion"
      /\ vis' = [vis EXCEPT ![v] = w]
      /\ UNCHANGED <<chan, sent, buffers, notifiers, blk, handler, history>>
  BY DEF Inv, Visiting, SetFusionCallback, owner, maps
<1>2. /\ IsVisitor(v, w) /\ w.added = vis[v].added /\ w.bufs = vis[v].bufs
      /\ w.fbuf = vis[v].fbuf /\ w.next = vis[v].next /\ w.item = vis[v].item
      /\ w.rt = vis[v].rt
  BY <1>1 DEF IsVisitor, Reads, Stages
<1> HIDE DEF w
<1> QED
  BY <1>1, <1>2, Handled, IsNotified, Unchanged, Quiet

(* The other changes of a visitor's stage and of its routine.              *)
LEMMA Restages ==
  ASSUME Inv, NEW v \in Visitors, NEW w, vis' = [vis EXCEPT ![v] = w],
         DOMAIN w = DOMAIN vis[v], w.stage \in Stages, w.rt \in Steps,
         w.stage \notin {"buffers", "fusion"},
         w.rt # "none" => w.stage \in {"callback", "up"},
         w.added = vis[v].added, w.bufs = vis[v].bufs, w.fbuf = vis[v].fbuf,
         w.next = vis[v].next, w.item = vis[v].item, w.fusion = vis[v].fusion,
         w.rt \in {"enqueue", "publish"} <=> vis[v].rt \in {"enqueue", "publish"},
         UNCHANGED <<chan, sent, buffers, notifiers, blk, history>>, Handlers'
  PROVE  Inv'
<1>1. IsVisitor(v, w)
  BY DEF Inv, Visiting, IsVisitor, Reads
<1> QED
  BY <1>1, IsNotified, Unchanged, Quiet

LEMMA CreateTaskStep ==
  ASSUME Inv, NEW v \in Visitors, CreateTask(v)
  PROVE  Inv'
<1> DEFINE w == [vis[v] EXCEPT !.stage = "callback", !.rt = "yielded"]
<1>1. /\ IsVisitor(v, vis[v]) /\ DOMAIN vis = Visitors
      /\ vis' = [vis EXCEPT ![v] = w] /\ vis[v].stage = "task"
      /\ UNCHANGED <<chan, sent, buffers, notifiers, blk, handler, history>>
  BY DEF Inv, Visiting, CreateTask, owner, maps
<1>2. vis[v].rt \notin {"enqueue", "publish"}
  BY <1>1 DEF IsVisitor
<1>3. /\ DOMAIN w = DOMAIN vis[v] /\ w.stage = "callback" /\ w.rt = "yielded"
      /\ w.added = vis[v].added /\ w.bufs = vis[v].bufs /\ w.fbuf = vis[v].fbuf
      /\ w.next = vis[v].next /\ w.item = vis[v].item /\ w.fusion = vis[v].fusion
  BY <1>1 DEF IsVisitor
<1> HIDE DEF w
<1> QED
  BY <1>1, <1>2, <1>3, Handled, Restages DEF Stages, Steps

LEMMA RegisterNotifyCallbackStep ==
  ASSUME Inv, NEW v \in Visitors, RegisterNotifyCallback(v)
  PROVE  Inv'
<1> DEFINE w == [vis[v] EXCEPT !.stage = "up"]
<1>1. /\ IsVisitor(v, vis[v]) /\ DOMAIN vis = Visitors
      /\ vis' = [vis EXCEPT ![v] = w]
      /\ UNCHANGED <<chan, sent, buffers, notifiers, blk, handler, history>>
  BY DEF Inv, Visiting, RegisterNotifyCallback, owner, maps
<1>2. /\ DOMAIN w = DOMAIN vis[v] /\ w.stage = "up" /\ w.rt = vis[v].rt
      /\ w.added = vis[v].added /\ w.bufs = vis[v].bufs /\ w.fbuf = vis[v].fbuf
      /\ w.next = vis[v].next /\ w.item = vis[v].item /\ w.fusion = vis[v].fusion
      /\ w.rt \in Steps
  BY <1>1 DEF IsVisitor
<1> HIDE DEF w
<1> QED
  BY <1>1, <1>2, Handled, Restages DEF Stages

LEMMA RemoveTaskStep ==
  ASSUME Inv, NEW v \in Visitors, RemoveTask(v)
  PROVE  Inv'
<1> DEFINE w == [vis[v] EXCEPT !.stage = "down", !.rt = "none"]
<1>1. /\ IsVisitor(v, vis[v]) /\ DOMAIN vis = Visitors /\ vis[v].rt = "yielded"
      /\ vis' = [vis EXCEPT ![v] = w]
      /\ UNCHANGED <<chan, sent, buffers, notifiers, blk, handler, history>>
  BY DEF Inv, Visiting, RemoveTask, owner, maps
<1>2. /\ DOMAIN w = DOMAIN vis[v] /\ w.stage = "down" /\ w.rt = "none"
      /\ w.added = vis[v].added /\ w.bufs = vis[v].bufs /\ w.fbuf = vis[v].fbuf
      /\ w.next = vis[v].next /\ w.item = vis[v].item /\ w.fusion = vis[v].fusion
  BY <1>1 DEF IsVisitor
<1> HIDE DEF w
<1> QED
  BY <1>1, <1>2, Handled, Restages DEF Stages, Steps

(* The routine runs, finds nothing, or is told that it may not publish.    *)
LEMMA RunStep ==
  ASSUME Inv, NEW v \in Visitors, Run(v)
  PROVE  Inv'
<1> DEFINE w == [vis[v] EXCEPT !.rt = "fetch", !.state = "DATA_WAIT", !.news = FALSE]
<1>1. /\ IsVisitor(v, vis[v]) /\ DOMAIN vis = Visitors /\ vis[v].rt = "yielded"
      /\ vis' = [vis EXCEPT ![v] = w]
      /\ UNCHANGED <<chan, sent, buffers, notifiers, blk, handler, history>>
  BY DEF Inv, Visiting, Run, Step, owner, maps
<1>2. /\ DOMAIN w = DOMAIN vis[v] /\ w.stage = vis[v].stage /\ w.rt = "fetch"
      /\ w.added = vis[v].added /\ w.bufs = vis[v].bufs /\ w.fbuf = vis[v].fbuf
      /\ w.next = vis[v].next /\ w.item = vis[v].item /\ w.fusion = vis[v].fusion
      /\ w.stage \in {"callback", "up"}
  BY <1>1 DEF IsVisitor
<1> HIDE DEF w
<1> QED
  BY <1>1, <1>2, Handled, Restages DEF Stages, Steps

LEMMA YieldStep ==
  ASSUME Inv, NEW v \in Visitors, Yield(v)
  PROVE  Inv'
<1> DEFINE w == [vis[v] EXCEPT !.rt = "yielded"]
<1>1. /\ IsVisitor(v, vis[v]) /\ DOMAIN vis = Visitors /\ vis[v].rt = "empty"
      /\ vis' = [vis EXCEPT ![v] = w]
      /\ UNCHANGED <<chan, sent, buffers, notifiers, blk, handler, history>>
  BY DEF Inv, Visiting, Yield, Step, owner, maps
<1>2. /\ DOMAIN w = DOMAIN vis[v] /\ w.stage = vis[v].stage /\ w.rt = "yielded"
      /\ w.added = vis[v].added /\ w.bufs = vis[v].bufs /\ w.fbuf = vis[v].fbuf
      /\ w.next = vis[v].next /\ w.item = vis[v].item /\ w.fusion = vis[v].fusion
      /\ w.stage \in {"callback", "up"}
  BY <1>1 DEF IsVisitor
<1> HIDE DEF w
<1> QED
  BY <1>1, <1>2, Handled, Restages DEF Stages, Steps

(* The handler's slots, and a use of freed memory.                         *)
LEMMA Elsewhere ==
  ASSUME Inv, Handlers', UNCHANGED <<chan, sent, buffers, notifiers, vis, blk, history>>
  PROVE  Inv'
<1> USE Places
<1>1. Visiting'
  BY DEF Inv, Visiting, IsVisitor, Reads, IsBuffer
<1>2. Listed'
  BY DEF Inv, Listed, IsEntry
<1>3. \A v \in Visitors : vis'[v].added \in Nat
  BY DEF Inv, Visiting, IsVisitor
<1>4. Receiving' /\ Newest' /\ Fusing' /\ Filled'
  BY <1>3, Unchanged, Still DEF history
<1>5. Fetched'
  BY DEF Inv, Fetched, history
<1>6. Blocking'
  BY DEF Inv, Blocking, Passed, history
<1> QED
  BY <1>1, <1>2, <1>4, <1>5, <1>6 DEF Inv

LEMMA GetReceiverStep ==
  ASSUME Inv, NEW v \in Visitors, GetReceiver(v)
  PROVE  Inv'
<1> USE Places
<1>1. Handlers'
  BY DEF Inv, Handlers, GetReceiver
<1> QED
  BY <1>1, Elsewhere DEF GetReceiver, owner, maps

LEMMA UseAfterFreeStep ==
  ASSUME Inv, NEW c \in Channels, UseAfterFree(c)
  PROVE  Inv'
BY Handled, Elsewhere DEF UseAfterFree, owner, maps

LEMMA ConnectStep ==
  ASSUME Inv, NEW c \in Channels, Connect(c)
  PROVE  Inv'
<1> USE Places
<1> DEFINE h == [handler[c] EXCEPT !.slots = handler[c].slots + 1, !.conn = TRUE]
<1>1. Handlers'
  <2>1. /\ handler \in [Channels -> [open : BOOLEAN, slots : 0..MaxSlots, conn : BOOLEAN]]
        /\ \A d \in Channels : handler[d].conn => handler[d].slots > 0
    BY DEF Inv, Handlers
  <2>2. handler' = [handler EXCEPT ![c] = h]
    BY <2>1 DEF Connect
  <2>5. handler[c] \in [open : BOOLEAN, slots : 0..MaxSlots, conn : BOOLEAN]
    BY <2>1
  <2>3. /\ h \in [open : BOOLEAN, slots : 0..MaxSlots, conn : BOOLEAN]
        /\ h.conn => h.slots > 0
    <3>1. handler[c].slots + 1 \in 0..MaxSlots /\ handler[c].slots + 1 > 0
      BY <2>5 DEF Connect
    <3> QED
      BY <2>5, <3>1
  <2> HIDE DEF h
  <2>4. \A d \in Channels : handler'[d] = IF d = c THEN h ELSE handler[d]
    BY <2>1, <2>2
  <2> QED
    BY <2>1, <2>2, <2>3, <2>4 DEF Handlers
<1> QED
  BY <1>1, Elsewhere DEF Connect, owner, maps

LEMMA DisconnectStep ==
  ASSUME Inv, NEW c \in Channels, Disconnect(c)
  PROVE  Inv'
<1> USE Places
<1> DEFINE h == [handler[c] EXCEPT !.slots = handler[c].slots - 1, !.conn = FALSE]
<1>1. Handlers'
  <2>1. /\ handler \in [Channels -> [open : BOOLEAN, slots : 0..MaxSlots, conn : BOOLEAN]]
        /\ \A d \in Channels : handler[d].conn => handler[d].slots > 0
    BY DEF Inv, Handlers
  <2>2. handler' = [handler EXCEPT ![c] = h]
    BY <2>1 DEF Disconnect
  <2>5. handler[c] \in [open : BOOLEAN, slots : 0..MaxSlots, conn : BOOLEAN]
    BY <2>1
  <2>3. /\ h \in [open : BOOLEAN, slots : 0..MaxSlots, conn : BOOLEAN]
        /\ h.conn => h.slots > 0
    BY <2>1, <2>5 DEF Disconnect
  <2> HIDE DEF h
  <2>4. \A d \in Channels : handler'[d] = IF d = c THEN h ELSE handler[d]
    BY <2>1, <2>2
  <2> QED
    BY <2>1, <2>2, <2>3, <2>4 DEF Handlers
<1> QED
  BY <1>1, Elsewhere DEF Disconnect, owner, maps

(* A buffer of the visitor is added to its channel's vector.               *)
LEMMA AddBufferStep ==
  ASSUME Inv, NEW v \in Visitors, NEW torn \in BOOLEAN, AddBuffer(v, torn)
  PROVE  Inv'
<1> USE Places
<1> DEFINE k == vis[v].added + 1
           c == Inputs[v][k]
           w == [vis[v] EXCEPT !.added = k,
                   !.stage = IF k = Len(Inputs[v]) THEN "notifier" ELSE vis[v].stage]
<1>1. /\ IsVisitor(v, vis[v]) /\ DOMAIN vis = Visitors /\ vis[v].stage = "buffers"
      /\ MayReallocate(c, {"lock", "fill", "fuse"}, torn)
      /\ buffers' = [buffers EXCEPT ![c] = Append(@, <<v, k>>)]
      /\ UNCHANGED <<sent, notifiers, blk, handler, history>>
  BY DEF Inv, Visiting, AddBuffer, owner
<1>2. vis' = [vis EXCEPT ![v] = w]
  BY <1>1 DEF AddBuffer, IsVisitor
<1>3. /\ k \in 1..Len(Inputs[v]) /\ c \in Channels /\ k \in {1, 2} /\ vis[v].added \in Nat
      /\ k = vis[v].added + 1
  BY <1>1 DEF IsVisitor
<1>4. /\ IsVisitor(v, w) /\ w.added = k /\ w.bufs = vis[v].bufs
      /\ w.fbuf = vis[v].fbuf /\ w.next = vis[v].next /\ w.item = vis[v].item
      /\ w.rt = vis[v].rt
  <2>1. /\ DOMAIN w = DOMAIN vis[v] /\ w.added = k
        /\ w.stage = IF k = Len(Inputs[v]) THEN "notifier" ELSE "buffers"
        /\ w.bufs = vis[v].bufs /\ w.fusion = vis[v].fusion
        /\ w.fbuf = vis[v].fbuf /\ w.next = vis[v].next /\ w.item = vis[v].item
        /\ w.rt = vis[v].rt
    BY <1>1 DEF IsVisitor
  <2>2. vis[v].rt = "none"
    BY <1>1 DEF IsVisitor
  <2> HIDE DEF w
  <2> QED
    BY <1>1, <1>3, <2>1, <2>2, SMTT(40) DEF IsVisitor, Reads, Stages
<1>11. Inputs[v][k] = c
  OBVIOUS
<1> HIDE DEF w, k, c
<1>5. Visiting' /\ vis'[v] = w /\ \A u \in Visitors : u # v => vis'[u] = vis[u]
  BY <1>2, <1>4, VisitorStep DEF Inv
<1>6. \A u \in Visitors :
        /\ vis[u].added <= vis'[u].added /\ vis'[u].added \in Nat
        /\ vis[u].added \in Nat
        /\ vis'[u].bufs = vis[u].bufs /\ vis'[u].fbuf = vis[u].fbuf
        /\ vis'[u].next = vis[u].next /\ vis'[u].item = vis[u].item
        /\ vis'[u].rt = vis[u].rt
  <2> SUFFICES ASSUME NEW u \in Visitors
               PROVE  /\ vis[u].added <= vis'[u].added /\ vis'[u].added \in Nat
                      /\ vis[u].added \in Nat
                      /\ vis'[u].bufs = vis[u].bufs /\ vis'[u].fbuf = vis[u].fbuf
                      /\ vis'[u].next = vis[u].next /\ vis'[u].item = vis[u].item
                      /\ vis'[u].rt = vis[u].rt
    OBVIOUS
  <2>1. vis[u].added \in Nat
    BY DEF Inv, Visiting, IsVisitor
  <2>2. CASE u = v
    BY <1>3, <1>4, <1>5, <2>1, <2>2
  <2>3. CASE u # v
    BY <1>5, <2>1, <2>3
  <2> QED
    BY <2>2, <2>3
<1>7. Receiving' /\ Newest' /\ Fusing' /\ Filled'
  <2>1. /\ chan' \in [Channels -> Threads]
        /\ \A d \in Channels :
             /\ chan'[d].pc = chan[d].pc /\ chan'[d].msg = chan[d].msg
             /\ chan'[d].oppo = chan[d].oppo /\ chan'[d].todo = chan[d].todo
             /\ chan'[d].pair = chan[d].pair /\ chan'[d].seen = chan[d].seen
    BY <1>1, <1>3, Reallocates
  <2> QED
    BY <1>1, <1>6, <2>1, Still DEF history
<1>8. Listed'
  <2>1. /\ buffers \in [Channels -> Seq(Entries)] /\ <<v, k>> \in Entries
        /\ notifiers \in [Channels -> Seq(Entries)]
    BY <1>3 DEF Inv, Listed, Entries
  <2>2. /\ Distinct(buffers[c])
        /\ \A i \in 1..Len(buffers[c]) : IsEntry(c, buffers[c][i])
    BY <1>3 DEF Inv, Listed
  <2> DEFINE E(d, x) == x[2] \in 1..vis'[x[1]].added /\ Inputs[x[1]][x[2]] = d
             s == buffers[c]
             e == <<v, k>>
             t == Append(s, e)
  <2>3. /\ s \in Seq(Entries) /\ e \in Entries /\ e[1] = v /\ e[2] = k
        /\ \A i \in 1..Len(s) : s[i] \in Entries
    <3>1. s \in Seq(Entries) /\ e \in Entries
      BY <1>3, <2>1
    <3> QED
      BY <3>1
  <2>4. \A i \in 1..Len(s) : s[i] # e
    <3> SUFFICES ASSUME NEW i \in 1..Len(s), s[i] = e PROVE FALSE
      OBVIOUS
    <3>1. e[2] \in 1..vis[e[1]].added
      BY <2>2 DEF IsEntry
    <3> QED
      BY <1>3, <2>3, <3>1
  <2>11. \A d \in Channels, x \in Entries : IsEntry(d, x) => E(d, x)
    <3> SUFFICES ASSUME NEW d \in Channels, NEW x \in Entries, IsEntry(d, x)
                 PROVE  E(d, x)
      OBVIOUS
    <3>1. x[1] \in Visitors /\ x[2] \in Nat
      BY DEF Entries
    <3> QED
      BY <1>6, <3>1 DEF IsEntry
  <2>7. E(c, e)
    <3>1. vis'[v].added = k
      BY <1>4, <1>5
    <3>2. e[2] \in 1..vis'[e[1]].added /\ Inputs[e[1]][e[2]] = c
      BY <1>3, <1>11, <2>3, <3>1
    <3> QED
      BY <3>2
  <2> HIDE DEF e, E
  <2>12. /\ t \in Seq(Entries) /\ Len(t) = Len(s) + 1 /\ Len(s) \in Nat
         /\ \A i \in 1..Len(s) : t[i] = s[i]
         /\ t[Len(s) + 1] = e
         /\ \A i \in 1..Len(t) : i \in 1..Len(s) \/ i = Len(s) + 1
    BY <2>3, Appending
  <2> HIDE DEF t
  <2>5. Distinct(t)
    BY <2>2, <2>3, <2>12, <2>4 DEF Distinct
  <2>8. \A i \in 1..Len(t) : E(c, t[i])
    <3> SUFFICES ASSUME NEW i \in 1..Len(t) PROVE E(c, t[i])
      OBVIOUS
    <3>1. CASE i = Len(s) + 1
      <4>1. t[i] = e
        BY <2>12, <3>1
      <4> QED
        BY <2>7, <4>1
    <3>2. CASE i \in 1..Len(s)
      <4>1. t[i] = s[i] /\ s[i] \in Entries /\ IsEntry(c, s[i])
        BY <2>2, <2>3, <2>12, <3>2
      <4>2. E(c, s[i])
        BY <1>3, <2>11, <4>1
      <4> QED
        BY <4>1, <4>2
    <3> QED
      BY <2>12, <3>1, <3>2
  <2>9. /\ buffers' \in [Channels -> Seq(Entries)]
        /\ \A d \in Channels : buffers'[d] = IF d = c THEN t ELSE buffers[d]
    <3>1. t = Append(buffers[c], <<v, k>>)
      BY DEF t, e
    <3> QED
      BY <1>1, <1>3, <2>1, <2>12, <3>1
  <2>10. ASSUME NEW d \in Channels
         PROVE  /\ Distinct(buffers'[d])
                /\ \A i \in 1..Len(buffers'[d]) : E(d, buffers'[d][i])
    <3>1. CASE d = c
      <4>1. buffers'[d] = t
        BY <2>9, <3>1
      <4> QED
        BY <2>5, <2>8, <3>1, <4>1
    <3>2. CASE d # c
      <4>1. /\ buffers'[d] = buffers[d] /\ Distinct(buffers[d]) /\ buffers[d] \in Seq(Entries)
            /\ \A i \in 1..Len(buffers[d]) : IsEntry(d, buffers[d][i])
        BY <2>1, <2>9, <3>2 DEF Inv, Listed
      <4>2. \A i \in 1..Len(buffers[d]) : buffers[d][i] \in Entries
        BY <4>1
      <4>3. \A i \in 1..Len(buffers[d]) : E(d, buffers[d][i])
        BY <2>11, <4>1, <4>2
      <4> QED
        BY <4>1, <4>3
    <3> QED
      BY <3>1, <3>2
  <2>13. notifiers' \in [Channels -> Seq(Entries)]
    BY <1>1, <2>1
  <2> QED
    BY <2>9, <2>10, <2>13 DEF Listed, Distinct, IsEntry, E
<1>9. Fetched'
  <2>1. \A u \in Visitors : filled[u] \in Seq(Items(u)) /\ filled'[u] = filled[u]
    BY <1>1 DEF Inv, Filled, history
  <2>2. \A u \in Visitors :
          /\ Len(filled[u]) \in Nat /\ Len(filled'[u]) \in Nat
          /\ Len(filled[u]) <= Len(filled'[u])
          /\ \A i \in 1..Len(filled[u]) : filled'[u][i] = filled[u][i]
    BY <2>1
  <2> QED
    BY <1>1, <1>6, <2>2, StaysFetched DEF Inv, history
<1>10. Blocking'
  BY <1>1, <1>6, StaysBlocking DEF Inv, history
<1> QED
  BY <1>1, <1>5, <1>7, <1>8, <1>9, <1>10, Handled DEF Inv

(* One receiving thread moves.                                             *)
LEMMA ThreadStep ==
  ASSUME Inv, NEW c \in Channels, NEW r \in Threads, SetThread(c, r),
         sent' \in [Channels -> Nat],
         \A d \in Channels : sent'[d] <= MaxMsgs[d] /\ (d # c => sent'[d] = sent[d]),
         \A v \in Visitors : vis'[v].added = vis[v].added,
         IsThread(c, r, sent'[c])
  PROVE  /\ Receiving' /\ chan'[c] = r
         /\ \A d \in Channels : d # c => chan'[d] = chan[d] /\ sent'[d] = sent[d]
<1>1. /\ chan \in [Channels -> Threads]
      /\ \A d \in Channels : IsThread(d, chan[d], sent[d])
  BY DEF Inv, Receiving
<1>2. /\ chan' \in [Channels -> Threads]
      /\ \A d \in Channels : chan'[d] = IF d = c THEN r ELSE chan[d]
  BY <1>1 DEF SetThread
<1>4. ASSUME NEW d \in Channels, NEW e \in Entries, IsEntry(d, e)
      PROVE  IsEntry(d, e)'
  BY <1>4 DEF IsEntry, Entries
<1>3. ASSUME NEW d \in Channels PROVE IsThread(d, chan[d], sent[d])'
  <2>1. CASE d = c
    <3>1. r.todo \in Seq(Entries) /\ chan'[d] = r
      BY <1>2, <2>1 DEF Threads
    <3>2. \A i \in 1..Len(r.todo) : r.todo[i] \in Entries
      BY <3>1
    <3> QED
      BY <1>4, <2>1, <3>1, <3>2 DEF IsThread
  <2>2. CASE d # c
    <3>1. chan'[d] = chan[d] /\ sent'[d] = sent[d] /\ IsThread(d, chan[d], sent[d])
      BY <1>1, <1>2, <2>2
    <3>2. chan[d].todo \in Seq(Entries)
      BY <1>1 DEF Threads
    <3>3. \A i \in 1..Len(chan[d].todo) :
            chan[d].todo[i][1] \in Visitors /\ chan[d].todo[i] \in Entries
      BY <3>2 DEF Entries
    <3>4. \A i \in 1..Len(chan[d].todo) :
            IsEntry(d, chan[d].todo[i]) => IsEntry(d, chan[d].todo[i])'
      BY <3>1, <3>3 DEF IsEntry
    <3> QED
      BY <3>1, <3>4 DEF IsThread
  <2> QED
    BY <2>1, <2>2
<1> QED
  BY <1>2, <1>3 DEF Receiving

(* What such a step may change, when nothing is filled: the thread does    *)
(* not fuse after it, and had the buffers it still has to fill.            *)
LEMMA MovesOn ==
  ASSUME Inv, NEW c \in Channels, NEW r \in Threads, Receiving', chan'[c] = r,
         \A d \in Channels : d # c => chan'[d] = chan[d] /\ sent'[d] = sent[d],
         sent[c] <= sent'[c], sent' \in [Channels -> Nat],
         r.pc # "fuse",
         \A v \in Visitors :
           /\ Inputs[v][1] = c /\ c \notin KnowsSender /\ Pending(c, v)'
                => Pending(c, v) \/ sent[c] < sent'[c]
           /\ Inputs[v][1] = c /\ v \in Fuseds =>
                r.seen[v] = chan[c].seen[v] \/ r.seen[v] <= newest[v],
         UNCHANGED <<newest, filled>>,
         \A v \in Visitors : vis'[v].bufs = vis[v].bufs /\ vis'[v].fbuf = vis[v].fbuf
  PROVE  Newest' /\ Fusing' /\ Filled'
<1> USE Places
<1>0. /\ \A d \in Channels : sent[d] \in Nat /\ sent'[d] \in Nat /\ sent[d] <= sent'[d]
      /\ newest \in [Fuseds -> Nat]
  <2>1. sent \in [Channels -> Nat] /\ newest \in [Fuseds -> Nat]
    BY DEF Inv, Receiving, Newest
  <2>2. ASSUME NEW d \in Channels
        PROVE  sent[d] \in Nat /\ sent'[d] \in Nat /\ sent[d] <= sent'[d]
    <3>1. sent[d] \in Nat /\ sent'[d] \in Nat
      BY <2>1
    <3>2. CASE d = c
      BY <3>1, <3>2
    <3>3. CASE d # c
      BY <3>1, <3>3
    <3> QED
      BY <3>1, <3>2, <3>3
  <2> QED
    BY <2>1, <2>2
<1>1. Newest'
  <2>1. \A v \in Fuseds : /\ newest[v] <= sent'[Inputs[v][2]]
                          /\ vis'[v].bufs[2].tail > 0 => Latest(vis'[v].bufs[2]) = newest[v]
    <3> SUFFICES ASSUME NEW v \in Fuseds
                 PROVE  /\ newest[v] <= sent'[Inputs[v][2]]
                        /\ vis'[v].bufs[2].tail > 0 => Latest(vis'[v].bufs[2]) = newest[v]
      OBVIOUS
    <3>4. v \in Visitors /\ Inputs[v][2] \in Channels
      OBVIOUS
    <3>1. newest[v] <= sent[Inputs[v][2]] /\ Inputs[v][2] \in Channels
      <4>1. Newest
        BY DEF Inv
      <4>2. newest[v] <= sent[Inputs[v][2]]
        BY <4>1 DEF Newest
      <4> QED
        BY <3>4, <4>2
    <3>2. newest[v] \in Nat
      BY <1>0
    <3>3. newest[v] <= sent'[Inputs[v][2]]
      BY <1>0, <3>1, <3>2
    <3>5. vis[v].bufs[2].tail > 0 => Latest(vis[v].bufs[2]) = newest[v]
      <4>1. Newest
        BY DEF Inv
      <4> QED
        BY <4>1 DEF Newest
    <3> QED
      BY <3>3, <3>4, <3>5
  <2>2. \A d \in Channels, v \in Fuseds :
          Inputs[v][1] = d => chan'[d].seen[v] <= newest[v]
    BY <1>0 DEF Inv, Newest
  <2> QED
    BY <1>0, <2>1, <2>2 DEF Newest
<1>2. Fusing'
  BY ZenonT(60) DEF Inv, Fusing, FusingAt
<1>3. Filled'
  <2>1. \A v \in Visitors : ReadBuffer(v)' = ReadBuffer(v)
    BY DEF ReadBuffer
  <2>2. ASSUME NEW v \in Visitors, NEW i \in 1..Len(filled[v])
        PROVE  IsFilled(v, filled[v][i])'
    <3>1. IsFilled(v, filled[v][i]) /\ filled[v][i] \in Items(v)
      BY DEF Inv, Filled
    <3>2. Msg(v, filled[v][i]) \in Nat
      BY <3>1 DEF Msg, Items
    <3>3. CASE Inputs[v][1] = c
      <4>1. ~FusingAt(c, v)'
        BY DEF FusingAt
      <4> QED
        BY <1>0, <3>1, <3>2, <3>3, <4>1, SMTT(40) DEF IsFilled, Msg
    <3>4. CASE Inputs[v][1] # c
      BY <3>1, <3>4 DEF IsFilled, Msg, Pending, FusingAt
    <3> QED
      BY <3>3, <3>4
  <2> QED
    BY <2>1, <2>2 DEF Inv, Filled
<1> QED
  BY <1>1, <1>2, <1>3

-----------------------------------------------------------------------------
(* The threads.                                                            *)
LEMMA NextEntries ==
  ASSUME NEW r \in Threads, r.todo # <<>>
  PROVE  /\ NextEntry(r) \in Threads /\ NextEntry(r).pc = "lock"
         /\ NextEntry(r).todo = Tail(r.todo) /\ NextEntry(r).msg = r.msg
         /\ NextEntry(r).oppo = r.oppo /\ NextEntry(r).left = r.left
         /\ NextEntry(r).pair = NULL /\ NextEntry(r).seen = r.seen
<1>1. Tail(r.todo) \in Seq(Entries)
  BY Fields, HeadAndTail
<1> DEFINE T == Tail(r.todo)
           s == [r EXCEPT !.pc = "lock", !.todo = T, !.pair = NULL]
<1>2. NextEntry(r) = s
  BY DEF NextEntry
<1>3. "lock" \in ChannelSteps /\ T \in Seq(Entries) /\ NULL \in {NULL} \cup (Nat \X Nat)
  BY <1>1 DEF ChannelSteps
<1> HIDE DEF T
<1>4. /\ s.pc = "lock" /\ s.todo = T /\ s.msg = r.msg /\ s.oppo = r.oppo
      /\ s.left = r.left /\ s.pair = NULL /\ s.seen = r.seen
  BY Fields
<1>5. s \in Threads
  BY <1>3, Fields DEF Threads
<1> QED
  BY <1>2, <1>4, <1>5 DEF T

LEMMA Begins ==
  ASSUME Inv, NEW c \in Channels, NEW r \in Threads
  PROVE  /\ Begin(r, c) \in Threads /\ Begin(r, c).pc = "lock"
         /\ Begin(r, c).todo = buffers[c] /\ Begin(r, c).msg = r.msg
         /\ Begin(r, c).oppo = r.oppo /\ Begin(r, c).left = r.left
         /\ Begin(r, c).pair = r.pair /\ Begin(r, c).seen = r.seen
<1> DEFINE t == buffers[c]
           s == [r EXCEPT !.pc = "lock", !.todo = t, !.torn = FALSE]
<1>1. t \in Seq(Entries) /\ "lock" \in ChannelSteps /\ FALSE \in BOOLEAN
  BY DEF Inv, Listed, ChannelSteps
<1>2. Begin(r, c) = s
  BY DEF Begin
<1> HIDE DEF t
<1>3. /\ s.pc = "lock" /\ s.todo = t /\ s.msg = r.msg /\ s.oppo = r.oppo
      /\ s.left = r.left /\ s.pair = r.pair /\ s.seen = r.seen
  BY Fields
<1>4. s \in Threads
  BY <1>1, Fields DEF Threads
<1> QED
  BY <1>2, <1>3, <1>4 DEF t

LEMMA StaysListed ==
  ASSUME Inv, \A v \in Visitors : vis'[v].added = vis[v].added,
         UNCHANGED <<buffers, notifiers>>
  PROVE  Listed'
<1>1. /\ buffers \in [Channels -> Seq(Entries)] /\ notifiers \in [Channels -> Seq(Entries)]
      /\ \A c \in Channels :
           /\ Distinct(buffers[c])
           /\ \A i \in 1..Len(buffers[c]) : IsEntry(c, buffers[c][i])
  BY DEF Inv, Listed
<1>2. \A c \in Channels : \A i \in 1..Len(buffers[c]) : buffers[c][i][1] \in Visitors
  BY <1>1 DEF Entries
<1>3. \A c \in Channels : \A i \in 1..Len(buffers[c]) : IsEntry(c, buffers[c][i])'
  BY <1>1, <1>2 DEF IsEntry
<1> QED
  BY <1>1, <1>3 DEF Listed, Distinct

(* A step of one thread that fills nothing.                                *)
LEMMA Moves ==
  ASSUME Inv, NEW c \in Channels, NEW r \in Threads, SetThread(c, r),
         sent' \in [Channels -> Nat],
         \A d \in Channels : sent'[d] <= MaxMsgs[d] /\ (d # c => sent'[d] = sent[d]),
         sent[c] <= sent'[c], IsThread(c, r, sent'[c]), r.pc # "fuse",
         \A v \in Visitors, i \in 1..Len(r.todo) :
           /\ Inputs[v][1] = c /\ c \notin KnowsSender
           /\ r.pc \in {"lock", "fill"} /\ r.todo[i] = <<v, 1>>
           => Pending(c, v) \/ sent[c] < sent'[c],
         \A v \in Fuseds :
           Inputs[v][1] = c => r.seen[v] = chan[c].seen[v] \/ r.seen[v] <= newest[v],
         Visiting',
         \A v \in Visitors :
           /\ vis'[v].added = vis[v].added /\ vis'[v].bufs = vis[v].bufs
           /\ vis'[v].fbuf = vis[v].fbuf /\ vis'[v].next = vis[v].next
           /\ vis'[v].item = vis[v].item /\ vis'[v].rt = vis[v].rt,
         UNCHANGED <<handler, buffers, notifiers, blk, history>>
  PROVE  Inv'
<1>1. /\ Receiving' /\ chan'[c] = r
      /\ \A d \in Channels : d # c => chan'[d] = chan[d] /\ sent'[d] = sent[d]
  BY ThreadStep
<1>2. \A v \in Visitors :
        Inputs[v][1] = c /\ c \notin KnowsSender /\ Pending(c, v)'
          => Pending(c, v) \/ sent[c] < sent'[c]
  BY <1>1 DEF Pending
<1>3. Newest' /\ Fusing' /\ Filled'
  <2>1. UNCHANGED <<newest, filled>>
    BY DEF history
  <2>2. \A v \in Visitors :
          /\ Inputs[v][1] = c /\ v \in Fuseds =>
               r.seen[v] = chan[c].seen[v] \/ r.seen[v] <= newest[v]
          /\ vis'[v].bufs = vis[v].bufs /\ vis'[v].fbuf = vis[v].fbuf
    OBVIOUS
  <2> QED
    BY <1>1, <1>2, <2>1, <2>2, MovesOn
<1>4. Listed'
  BY StaysListed
<1>5. Fetched'
  <2>1. \A u \in Visitors : filled[u] \in Seq(Items(u)) /\ filled'[u] = filled[u]
    BY DEF Inv, Filled, history
  <2>2. \A u \in Visitors :
          /\ Len(filled[u]) \in Nat /\ Len(filled'[u]) \in Nat
          /\ Len(filled[u]) <= Len(filled'[u])
          /\ \A k \in 1..Len(filled[u]) : filled'[u][k] = filled[u][k]
    BY <2>1
  <2> QED
    BY <2>2, StaysFetched DEF Inv, history
<1>6. Blocking'
  BY StaysBlocking DEF Inv, history
<1> QED
  BY <1>1, <1>3, <1>4, <1>5, <1>6, Handled DEF Inv

LEMMA TailOfTodo ==
  ASSUME NEW c \in Channels, NEW s \in Seq(Entries), s # <<>>, Distinct(s),
         \A i \in 1..Len(s) : IsEntry(c, s[i])
  PROVE  /\ Distinct(Tail(s)) /\ \A i \in 1..Len(Tail(s)) : IsEntry(c, Tail(s)[i])
         /\ \A i \in 1..Len(Tail(s)) : Tail(s)[i] # Head(s)
<1>1. /\ Head(s) = s[1] /\ Len(s) \in Nat \ {0} /\ Len(Tail(s)) = Len(s) - 1
      /\ \A i \in 1..Len(Tail(s)) : Tail(s)[i] = s[i + 1] /\ i + 1 \in 1..Len(s)
  BY HeadAndTail
<1>2. Distinct(Tail(s))
  <2> SUFFICES ASSUME NEW i \in 1..Len(Tail(s)), NEW j \in 1..Len(Tail(s)),
                      Tail(s)[i] = Tail(s)[j]
               PROVE  i = j
    BY DEF Distinct
  <2>1. s[i + 1] = s[j + 1] /\ i + 1 \in 1..Len(s) /\ j + 1 \in 1..Len(s)
    BY <1>1
  <2>2. i + 1 = j + 1
    BY <2>1 DEF Distinct
  <2> QED
    BY <2>2
<1>3. \A i \in 1..Len(Tail(s)) : Tail(s)[i] # Head(s)
  <2> SUFFICES ASSUME NEW i \in 1..Len(Tail(s)), Tail(s)[i] = Head(s)
               PROVE  FALSE
    OBVIOUS
  <2>1. s[i + 1] = s[1] /\ i + 1 \in 1..Len(s) /\ 1 \in 1..Len(s)
    BY <1>1
  <2>2. i + 1 = 1
    BY <2>1 DEF Distinct
  <2> QED
    BY <2>2
<1> QED
  BY <1>1, <1>2, <1>3

LEMMA IdleIsThread ==
  /\ Idle \in Threads /\ Idle.pc = "idle" /\ Idle.msg = 0 /\ Idle.oppo = FALSE
  /\ Idle.todo = <<>> /\ \A v \in Fuseds : Idle.seen[v] = 0
<1>1. /\ [v \in Fuseds |-> 0] \in [Fuseds -> Nat] /\ <<>> \in Seq(Entries)
      /\ 0 \in 0..MaxSlots /\ "idle" \in ChannelSteps
  BY Places DEF ChannelSteps
<1> QED
  BY <1>1 DEF Idle, Threads

LEMMA ReceiveStep ==
  ASSUME Inv, NEW c \in Channels, Receive(c)
  PROVE  Inv'
<1> USE Places
<1>1. /\ chan[c].pc = "idle" /\ sent[c] < MaxMsgs[c] /\ sent' = [sent EXCEPT ![c] = @ + 1]
      /\ UNCHANGED <<handler, buffers, notifiers, vis, blk, history>>
  BY DEF Receive, maps, owner
<1>2. sent \in [Channels -> Nat] /\ newest \in [Fuseds -> Nat]
      /\ \A d \in Channels : sent[d] <= MaxMsgs[d]
  BY DEF Inv, Receiving, Newest
<1>3. /\ sent' \in [Channels -> Nat] /\ sent[c] < sent'[c] /\ sent'[c] = sent[c] + 1
      /\ \A d \in Channels : sent'[d] <= MaxMsgs[d] /\ (d # c => sent'[d] = sent[d])
  BY <1>1, <1>2
<1> DEFINE seen == [v \in Fuseds |-> IF Inputs[v][1] = c THEN newest[v] ELSE 0]
           q == [Idle EXCEPT !.msg = sent[c] + 1, !.seen = seen]
<1>4. seen \in [Fuseds -> Nat]
  BY <1>2
<1>5. \A v \in Fuseds : Inputs[v][1] = c => seen[v] <= newest[v]
  BY <1>2
<1> HIDE DEF seen
<1>6. /\ q \in Threads /\ q.msg = sent[c] + 1 /\ q.oppo = FALSE /\ q.seen = seen
  <2> DEFINE n == sent[c] + 1
  <2>1. n \in Nat
    BY <1>2
  <2> HIDE DEF n
  <2>2. q = [Idle EXCEPT !.msg = n, !.seen = seen]
    BY DEF n
  <2> HIDE DEF q
  <2>3. q.msg = n /\ q.seen = seen /\ q.oppo = FALSE
    BY <2>2, IdleIsThread, Fields
  <2>4. q \in Threads
    BY <1>4, <2>1, <2>2, IdleIsThread, Fields DEF Threads
  <2> QED
    BY <2>3, <2>4 DEF n
<1>7. SetThread(c, Begin(q, c))
  BY DEF Receive, seen
<1> HIDE DEF q
<1>8. /\ Begin(q, c) \in Threads /\ Begin(q, c).pc = "lock"
      /\ Begin(q, c).todo = buffers[c] /\ Begin(q, c).msg = sent[c] + 1
      /\ Begin(q, c).oppo = FALSE /\ Begin(q, c).seen = seen
  BY <1>6, Begins
<1> DEFINE r == Begin(q, c)
<1> HIDE DEF r
<1>9. IsThread(c, r, sent'[c])
  BY <1>3, <1>8 DEF IsThread, Inv, Listed, r
<1>10. Visiting'
  BY <1>1, SMTT(40) DEF Inv, Visiting, IsVisitor, Reads, IsBuffer
<1>11. /\ r \in Threads /\ SetThread(c, r) /\ r.pc # "fuse"
       /\ \A v \in Fuseds : Inputs[v][1] = c => r.seen[v] <= newest[v]
  BY <1>5, <1>7, <1>8 DEF r
<1> QED
  BY <1>1, <1>2, <1>3, <1>9, <1>10, <1>11, Moves

(* The thread goes on to the next buffer.                                  *)
LEMMA GoesOn ==
  ASSUME Inv, NEW c \in Channels, chan[c].pc \in {"lock", "fill", "fuse"},
         chan[c].todo # <<>>
  PROVE  LET r == NextEntry(chan[c]) IN
         /\ r \in Threads /\ r.pc = "lock" /\ r.seen = chan[c].seen
         /\ IsThread(c, r, sent[c])
         /\ \A i \in 1..Len(r.todo) : /\ i + 1 \in 1..Len(chan[c].todo)
                                      /\ r.todo[i] = chan[c].todo[i + 1]
                                      /\ r.todo[i] # Head(chan[c].todo)
<1> DEFINE s == chan[c].todo
           r == NextEntry(chan[c])
<1>1. /\ chan[c] \in Threads /\ IsThread(c, chan[c], sent[c])
  BY DEF Inv, Receiving
<1>2. /\ s \in Seq(Entries) /\ s # <<>>
  BY <1>1, Fields
<1>3. /\ r \in Threads /\ r.pc = "lock" /\ r.todo = Tail(s) /\ r.msg = chan[c].msg
      /\ r.oppo = chan[c].oppo /\ r.seen = chan[c].seen
  BY <1>1, NextEntries
<1>4. /\ chan[c].msg = sent[c]
      /\ chan[c].oppo => c \in KnowsSender
      /\ Distinct(s) /\ \A i \in 1..Len(s) : IsEntry(c, s[i])
  BY <1>1 DEF IsThread
<1> HIDE DEF r, s
<1>5. /\ Distinct(Tail(s)) /\ \A i \in 1..Len(Tail(s)) : IsEntry(c, Tail(s)[i])
      /\ \A i \in 1..Len(Tail(s)) : Tail(s)[i] # Head(s)
  BY <1>2, <1>4, TailOfTodo
<1>6. \A i \in 1..Len(Tail(s)) : Tail(s)[i] = s[i + 1] /\ i + 1 \in 1..Len(s)
  BY <1>2, HeadAndTail
<1>7. IsThread(c, r, sent[c])
  <2> DEFINE t == Tail(s)
  <2>1. r.todo = t /\ Distinct(t) /\ \A i \in 1..Len(t) : IsEntry(c, t[i])
    BY <1>3, <1>5
  <2> HIDE DEF t
  <2>2. r.msg = IF r.pc = "idle" THEN 0 ELSE sent[c]
    BY <1>3, <1>4
  <2>3. r.oppo => c \in KnowsSender
    BY <1>3, <1>4
  <2>4. r.pc \notin {"fill", "fuse"}
    BY <1>3
  <2> HIDE DEF r
  <2> QED
    BY <2>1, <2>2, <2>3, <2>4 DEF IsThread
<1> QED
  BY <1>3, <1>5, <1>6, <1>7 DEF r, s

LEMMA SkipStep ==
  ASSUME Inv, NEW c \in Channels, chan[c].pc \in {"lock", "fill", "fuse"},
         chan[c].todo # <<>>, SetThread(c, NextEntry(chan[c])), Visiting',
         \A v \in Visitors :
           /\ vis'[v].added = vis[v].added /\ vis'[v].bufs = vis[v].bufs
           /\ vis'[v].fbuf = vis[v].fbuf /\ vis'[v].next = vis[v].next
           /\ vis'[v].item = vis[v].item /\ vis'[v].rt = vis[v].rt,
         UNCHANGED <<sent, handler, buffers, notifiers, blk, history>>
  PROVE  Inv'
<1> DEFINE r == NextEntry(chan[c])
<1>1. /\ r \in Threads /\ r.pc = "lock" /\ r.seen = chan[c].seen
      /\ IsThread(c, r, sent[c])
      /\ \A i \in 1..Len(r.todo) : /\ i + 1 \in 1..Len(chan[c].todo)
                                   /\ r.todo[i] = chan[c].todo[i + 1]
  BY GoesOn
<1>2. SetThread(c, r)
  OBVIOUS
<1> HIDE DEF r
<1>3. \A v \in Visitors, i \in 1..Len(r.todo) :
        /\ Inputs[v][1] = c /\ c \notin KnowsSender
        /\ r.pc \in {"lock", "fill"} /\ r.todo[i] = <<v, 1>>
        => Pending(c, v) \/ sent[c] < sent'[c]
  BY <1>1 DEF Pending
<1>4. /\ sent \in [Channels -> Nat] /\ \A d \in Channels : sent[d] <= MaxMsgs[d]
      /\ sent' = sent /\ sent[c] \in Nat
  BY DEF Inv, Receiving
<1>5. /\ r.pc # "fuse" /\ sent[c] <= sent'[c] /\ IsThread(c, r, sent'[c])
      /\ \A v \in Fuseds :
           Inputs[v][1] = c => r.seen[v] = chan[c].seen[v] \/ r.seen[v] <= newest[v]
      /\ sent' \in [Channels -> Nat]
      /\ \A d \in Channels : sent'[d] <= MaxMsgs[d] /\ (d # c => sent'[d] = sent[d])
  BY <1>1, <1>4
<1> QED
  BY <1>1, <1>2, <1>3, <1>5, Moves

LEMMA StaysVisiting ==
  ASSUME Inv, UNCHANGED vis
  PROVE  /\ Visiting'
         /\ \A v \in Visitors :
              /\ vis'[v].added = vis[v].added /\ vis'[v].bufs = vis[v].bufs
              /\ vis'[v].fbuf = vis[v].fbuf /\ vis'[v].next = vis[v].next
              /\ vis'[v].item = vis[v].item /\ vis'[v].rt = vis[v].rt
BY DEF Inv, Visiting, IsVisitor, Reads, IsBuffer

(* The buffer is there: the thread goes on to fill it.                     *)
LEMMA LockedStep ==
  ASSUME Inv, NEW c \in Channels, chan[c].pc = "lock", chan[c].todo # <<>>,
         NEW r \in Threads, SetThread(c, r), r.pc = "fill", r.todo = chan[c].todo,
         r.msg = chan[c].msg, r.oppo = chan[c].oppo, r.seen = chan[c].seen,
         UNCHANGED <<sent, handler, buffers, notifiers, vis, blk, history>>
  PROVE  Inv'
<1>1. /\ sent \in [Channels -> Nat] /\ \A d \in Channels : sent[d] <= MaxMsgs[d]
      /\ sent' = sent /\ sent[c] \in Nat /\ IsThread(c, chan[c], sent[c])
  BY DEF Inv, Receiving
<1>2. IsThread(c, r, sent[c])
  BY <1>1 DEF IsThread
<1>3. \A v \in Visitors, i \in 1..Len(r.todo) :
        /\ Inputs[v][1] = c /\ c \notin KnowsSender
        /\ r.pc \in {"lock", "fill"} /\ r.todo[i] = <<v, 1>>
        => Pending(c, v) \/ sent[c] < sent'[c]
  BY DEF Pending
<1>4. /\ r.pc # "fuse" /\ sent[c] <= sent'[c] /\ IsThread(c, r, sent'[c])
      /\ \A v \in Fuseds :
           Inputs[v][1] = c => r.seen[v] = chan[c].seen[v] \/ r.seen[v] <= newest[v]
      /\ sent' \in [Channels -> Nat]
      /\ \A d \in Channels : sent'[d] <= MaxMsgs[d] /\ (d # c => sent'[d] = sent[d])
  BY <1>1, <1>2
<1>5. /\ Visiting'
      /\ \A v \in Visitors :
           /\ vis'[v].added = vis[v].added /\ vis'[v].bufs = vis[v].bufs
           /\ vis'[v].fbuf = vis[v].fbuf /\ vis'[v].next = vis[v].next
           /\ vis'[v].item = vis[v].item /\ vis'[v].rt = vis[v].rt
  BY StaysVisiting
<1>6. UNCHANGED <<handler, buffers, notifiers, blk, history>>
  OBVIOUS
<1> QED
  BY <1>3, <1>4, <1>5, <1>6, Moves

LEMMA LockBufferStep ==
  ASSUME Inv, NEW c \in Channels, LockBuffer(c)
  PROVE  Inv'
<1>1. /\ chan[c].pc = "lock" /\ chan[c] \in Threads /\ IsThread(c, chan[c], sent[c])
      /\ UNCHANGED <<sent, handler, buffers, notifiers, vis, blk, history>>
      /\ sent \in [Channels -> Nat] /\ \A d \in Channels : sent[d] <= MaxMsgs[d]
  BY DEF LockBuffer, maps, owner, Inv, Receiving
<1>2. CASE chan[c].todo = <<>>
  <2> DEFINE t == notifiers[c]
             r == [chan[c] EXCEPT !.pc = "notify", !.todo = t, !.torn = FALSE]
  <2>1. SetThread(c, r)
    BY <1>2 DEF LockBuffer
  <2>2. t \in Seq(Entries) /\ "notify" \in ChannelSteps
    BY DEF Inv, Listed, ChannelSteps
  <2> HIDE DEF t
  <2>3. /\ r.pc = "notify" /\ r.msg = chan[c].msg /\ r.oppo = chan[c].oppo
        /\ r.seen = chan[c].seen
    BY <1>1, Fields
  <2>4. r \in Threads
    BY <1>1, <2>2, Fields DEF Threads
  <2> HIDE DEF r
  <2>5. IsThread(c, r, sent[c])
    BY <1>1, <2>3 DEF IsThread
  <2>6. sent[c] \in Nat /\ sent[c] <= sent'[c]
    BY <1>1
  <2> QED
    BY <1>1, <2>1, <2>3, <2>4, <2>5, <2>6, StaysVisiting, Moves
<1>3. CASE chan[c].todo # <<>> /\ SetThread(c, NextEntry(chan[c]))
  BY <1>1, <1>3, StaysVisiting, SkipStep
<1>4. CASE chan[c].todo # <<>> /\ SetThread(c, [chan[c] EXCEPT !.pc = "fill"])
  <2> DEFINE r == [chan[c] EXCEPT !.pc = "fill"]
  <2>1. SetThread(c, r) /\ "fill" \in ChannelSteps
    BY <1>4 DEF ChannelSteps
  <2>2. /\ r.pc = "fill" /\ r.msg = chan[c].msg /\ r.oppo = chan[c].oppo
        /\ r.seen = chan[c].seen /\ r.todo = chan[c].todo
    BY <1>1, Fields
  <2>3. r \in Threads
    BY <1>1, <2>1, Fields DEF Threads
  <2> HIDE DEF r
  <2> QED
    BY <1>1, <1>4, <2>1, <2>2, <2>3, LockedStep
<1> QED
  BY <1>2, <1>3, <1>4 DEF LockBuffer

LEMMA ReturnStep ==
  ASSUME Inv, NEW c \in Channels, Return(c)
  PROVE  Inv'
<1>1. /\ chan[c].pc = "return" /\ chan[c] \in Threads /\ IsThread(c, chan[c], sent[c])
      /\ UNCHANGED <<sent, handler, buffers, notifiers, vis, blk, history>>
      /\ sent \in [Channels -> Nat] /\ \A d \in Channels : sent[d] <= MaxMsgs[d]
      /\ newest \in [Fuseds -> Nat]
  BY DEF Return, maps, owner, Inv, Receiving, Newest
<1>2. sent[c] \in Nat /\ sent[c] <= sent'[c]
  BY <1>1
<1> DEFINE left == IF chan[c].oppo THEN chan[c].left
                   ELSE IF c \in KnowsSender THEN handler[c].slots ELSE 0
           n == left - 1
<1>3. left \in 0..MaxSlots /\ (left # 0 => c \in KnowsSender /\ n \in 0..MaxSlots)
  BY <1>1, Places, Fields DEF Inv, Handlers, IsThread
<1>4. CASE left = 0
  <2>1. SetThread(c, Idle)
    BY <1>4 DEF Return
  <2>2. IsThread(c, Idle, sent[c])
    BY IdleIsThread DEF IsThread
  <2>3. \A v \in Fuseds : Idle.seen[v] <= newest[v]
    BY <1>1, IdleIsThread
  <2> QED
    BY <1>1, <1>2, <2>1, <2>2, <2>3, IdleIsThread, StaysVisiting, Moves
<1>5. CASE left # 0
  <2> DEFINE q == [chan[c] EXCEPT !.oppo = TRUE, !.left = n]
             r == Begin(q, c)
  <2>1. SetThread(c, r)
    BY <1>5 DEF Return
  <2>2. n \in 0..MaxSlots /\ c \in KnowsSender
    BY <1>3, <1>5
  <2> HIDE DEF n, left
  <2>3. q.msg = chan[c].msg /\ q.oppo = TRUE /\ q.seen = chan[c].seen
    BY <1>1, Fields
  <2>4. q \in Threads
    BY <1>1, <2>2, Fields DEF Threads
  <2> HIDE DEF q
  <2>5. /\ r \in Threads /\ r.pc = "lock" /\ r.todo = buffers[c]
        /\ r.msg = chan[c].msg /\ r.oppo = TRUE /\ r.seen = chan[c].seen
    BY <2>3, <2>4, Begins
  <2> HIDE DEF r
  <2>6. IsThread(c, r, sent[c])
    BY <1>1, <2>2, <2>5 DEF IsThread, Inv, Listed
  <2> QED
    BY <1>1, <1>2, <2>1, <2>2, <2>5, <2>6, StaysVisiting, Moves
<1> QED
  BY <1>4, <1>5

LEMMA NotifyTasks ==
  ASSUME NEW v \in Visitors, NEW u, IsVisitor(v, u), NEW torn \in BOOLEAN
  PROVE  LET w == NotifyTask(u, torn) IN
         /\ IsVisitor(v, w) /\ w.added = u.added /\ w.bufs = u.bufs
         /\ w.fbuf = u.fbuf /\ w.next = u.next /\ w.item = u.item /\ w.rt = u.rt
<1> DEFINE w == NotifyTask(u, torn)
<1>1. /\ DOMAIN w = DOMAIN u /\ w.stage = u.stage /\ w.rt = u.rt /\ w.added = u.added
      /\ w.fusion = u.fusion /\ w.bufs = u.bufs /\ w.fbuf = u.fbuf
      /\ w.next = u.next /\ w.item = u.item
  <2>1. CASE torn \/ u.stage # "up"
    BY <2>1 DEF NotifyTask, IsVisitor
  <2>2. CASE ~(torn \/ u.stage # "up")
    <3>1. w = [u EXCEPT !.news = @ \/ u.state = "DATA_WAIT"]
      BY <2>2 DEF NotifyTask
    <3> QED
      BY <3>1 DEF IsVisitor
  <2> QED
    BY <2>1, <2>2
<1> HIDE DEF w
<1>2. IsVisitor(v, w)
  BY <1>1 DEF IsVisitor, Reads
<1> QED
  BY <1>1, <1>2 DEF w

LEMMA NotifyStep ==
  ASSUME Inv, NEW c \in Channels, Notify(c)
  PROVE  Inv'
<1>1. /\ chan[c].pc = "notify" /\ chan[c] \in Threads /\ IsThread(c, chan[c], sent[c])
      /\ UNCHANGED <<sent, handler, buffers, notifiers, blk, history>>
      /\ sent \in [Channels -> Nat] /\ \A d \in Channels : sent[d] <= MaxMsgs[d]
  BY DEF Notify, maps, owner, Inv, Receiving
<1>2. sent[c] \in Nat /\ sent[c] <= sent'[c]
  BY <1>1
<1>3. CASE chan[c].todo = <<>>
  <2> DEFINE r == [chan[c] EXCEPT !.pc = "return", !.torn = FALSE]
  <2>1. SetThread(c, r) /\ UNCHANGED vis /\ "return" \in ChannelSteps
    BY <1>3 DEF Notify, ChannelSteps
  <2>2. /\ r.pc = "return" /\ r.msg = chan[c].msg /\ r.oppo = chan[c].oppo
        /\ r.seen = chan[c].seen
    BY <1>1, Fields
  <2>3. r \in Threads
    BY <1>1, <2>1, Fields DEF Threads
  <2> HIDE DEF r
  <2>4. IsThread(c, r, sent[c])
    BY <1>1, <2>2 DEF IsThread
  <2> QED
    BY <1>1, <1>2, <2>1, <2>2, <2>3, <2>4, StaysVisiting, Moves
<1>4. CASE chan[c].todo # <<>>
  <2> DEFINE t == Tail(chan[c].todo)
             r == [chan[c] EXCEPT !.todo = t]
             v == Head(chan[c].todo)[1]
             w == NotifyTask(vis[v], chan[c].torn)
  <2>1. SetThread(c, r) /\ vis' = [vis EXCEPT ![v] = w]
    BY <1>4 DEF Notify
  <2>2. t \in Seq(Entries) /\ v \in Visitors /\ chan[c].torn \in BOOLEAN
    BY <1>1, <1>4, Fields, HeadAndTail DEF Entries
  <2> HIDE DEF t, v
  <2>3. /\ IsVisitor(v, w) /\ w.added = vis[v].added /\ w.bufs = vis[v].bufs
        /\ w.fbuf = vis[v].fbuf /\ w.next = vis[v].next /\ w.item = vis[v].item
        /\ w.rt = vis[v].rt
    BY <2>2, NotifyTasks DEF Inv, Visiting
  <2> HIDE DEF w
  <2>4. Visiting' /\ vis'[v] = w /\ \A u \in Visitors : u # v => vis'[u] = vis[u]
    BY <2>1, <2>2, <2>3, VisitorStep DEF Inv
  <2>5. \A u \in Visitors :
          /\ vis'[u].added = vis[u].added /\ vis'[u].bufs = vis[u].bufs
          /\ vis'[u].fbuf = vis[u].fbuf /\ vis'[u].next = vis[u].next
          /\ vis'[u].item = vis[u].item /\ vis'[u].rt = vis[u].rt
    BY <2>3, <2>4
  <2>6. /\ r.pc = "notify" /\ r.msg = chan[c].msg /\ r.oppo = chan[c].oppo
        /\ r.seen = chan[c].seen
    BY <1>1, Fields
  <2>7. r \in Threads
    BY <1>1, <2>2, Fields DEF Threads
  <2> HIDE DEF r
  <2>8. IsThread(c, r, sent[c])
    BY <1>1, <2>6 DEF IsThread
  <2> QED
    BY <1>1, <1>2, <2>1, <2>4, <2>5, <2>6, <2>7, <2>8, Moves
<1> QED
  BY <1>3, <1>4

(* The entry that a thread is at: a buffer of its channel.                 *)
LEMMA AtEntries ==
  ASSUME Inv, NEW c \in Channels, chan[c].pc \in {"fill", "fuse"}
  PROVE  LET e == Head(chan[c].todo) IN
         /\ chan[c].todo \in Seq(Entries) /\ chan[c].todo # <<>>
         /\ e \in Entries /\ e[1] \in Visitors /\ e[2] \in 1..Len(Inputs[e[1]])
         /\ e = <<e[1], e[2]>> /\ Inputs[e[1]][e[2]] = c
         /\ e = chan[c].todo[1] /\ Len(chan[c].todo) \in Nat \ {0}
         /\ chan[c].msg = sent[c] /\ sent[c] \in Nat /\ chan[c] \in Threads
<1> DEFINE s == chan[c].todo
           e == Head(s)
<1>1. /\ chan[c] \in Threads /\ IsThread(c, chan[c], sent[c]) /\ sent[c] \in Nat
  BY DEF Inv, Receiving
<1>2. /\ s \in Seq(Entries) /\ s # <<>> /\ chan[c].msg = sent[c]
      /\ \A i \in 1..Len(s) : IsEntry(c, s[i])
  BY <1>1, Fields DEF IsThread
<1> HIDE DEF s
<1>3. e \in Entries /\ e = s[1] /\ Len(s) \in Nat \ {0}
  BY <1>2, HeadAndTail
<1>4. IsEntry(c, e)
  <2>1. 1 \in 1..Len(s)
    BY <1>3
  <2> QED
    BY <1>2, <1>3, <2>1
<1> HIDE DEF e
<1>5. e[1] \in Visitors /\ e = <<e[1], e[2]>> /\ e[2] \in {1, 2}
  BY <1>3 DEF Entries
<1>6. vis[e[1]].added \in 0..Len(Inputs[e[1]]) /\ Len(Inputs[e[1]]) \in {1, 2}
  BY <1>5, Places DEF Inv, Visiting, IsVisitor
<1>7. e[2] \in 1..Len(Inputs[e[1]]) /\ Inputs[e[1]][e[2]] = c
  BY <1>4, <1>6 DEF IsEntry
<1> QED
  BY <1>1, <1>2, <1>3, <1>5, <1>7 DEF s, e

LEMMA StaysElsewhere ==
  ASSUME Inv, Visiting', Receiving', Newest', Fusing', Filled',
         \A v \in Visitors :
           /\ vis'[v].added = vis[v].added /\ vis'[v].next = vis[v].next
           /\ vis'[v].item = vis[v].item /\ vis'[v].rt = vis[v].rt
           /\ Len(filled[v]) \in Nat /\ Len(filled'[v]) \in Nat
           /\ Len(filled[v]) <= Len(filled'[v])
           /\ \A k \in 1..Len(filled[v]) : filled'[v][k] = filled[v][k],
         UNCHANGED <<handler, buffers, notifiers, blk, delivered>>
  PROVE  Inv'
<1>1. Listed'
  BY StaysListed
<1>2. Fetched'
  BY StaysFetched DEF Inv
<1>3. Blocking'
  BY StaysBlocking DEF Inv
<1> QED
  BY <1>1, <1>2, <1>3, Handled DEF Inv

(* The fusion callback makes a pair with the newest message of the second  *)
(* channel.                                                                *)
LEMMA CallbackStep ==
  ASSUME Inv, NEW c \in Channels, chan[c].pc = "fill", NEW v \in Visitors,
         Head(chan[c].todo) = <<v, 1>>, vis[v].fusion, Callback(v, c),
         UNCHANGED <<sent, handler, buffers, notifiers, blk>>
  PROVE  Inv'
<1> USE Places
<1>1. /\ chan[c].todo # <<>> /\ chan[c] \in Threads /\ Inputs[v][1] = c
      /\ chan[c].msg = sent[c] /\ sent[c] \in Nat /\ IsThread(c, chan[c], sent[c])
      /\ sent \in [Channels -> Nat] /\ \A d \in Channels : sent[d] <= MaxMsgs[d]
      /\ UNCHANGED <<vis, history>>
  BY AtEntries DEF Callback, Inv, Receiving
<1>2. CASE Empty(vis[v].bufs[2])
  <2>1. SetThread(c, NextEntry(chan[c]))
    BY <1>2 DEF Callback
  <2> QED
    BY <1>1, <2>1, StaysVisiting, SkipStep
<1>3. CASE ~Empty(vis[v].bufs[2])
  <2>1. v \in Fuseds /\ newest \in [Fuseds -> Nat] /\ IsBuffer(vis[v].bufs[2], QueueSize[v])
    BY DEF Inv, Visiting, IsVisitor, Newest
  <2>2. Latest(vis[v].bufs[2]) = newest[v]
    <3>1. vis[v].bufs[2].tail > 0
      BY <1>3, <2>1 DEF Empty, IsBuffer
    <3> QED
      BY <2>1, <3>1 DEF Inv, Newest
  <2> DEFINE x == <<chan[c].msg, newest[v]>>
             r == [chan[c] EXCEPT !.pc = "fuse", !.pair = x]
  <2>3. SetThread(c, r)
    BY <1>3, <2>2 DEF Callback
  <2>4. /\ x \in Nat \X Nat /\ x[1] = sent[c] /\ x[2] = newest[v]
        /\ x \in {NULL} \cup (Nat \X Nat) /\ "fuse" \in ChannelSteps
    BY <1>1, <2>1 DEF ChannelSteps
  <2> HIDE DEF x
  <2>5. /\ r.pc = "fuse" /\ r.msg = chan[c].msg /\ r.oppo = chan[c].oppo
        /\ r.seen = chan[c].seen /\ r.pair = x /\ r.todo = chan[c].todo
    BY <1>1, Fields
  <2>6. r \in Threads
    BY <1>1, <2>4, Fields DEF Threads
  <2> HIDE DEF r
  <2>7. IsThread(c, r, sent[c])
    BY <1>1, <2>5 DEF IsThread
  <2>8. /\ Receiving' /\ chan'[c] = r
        /\ \A d \in Channels : d # c => chan'[d] = chan[d]
    BY <1>1, <2>3, <2>6, <2>7, ThreadStep
  <2>9. Newest'
    <3>1. newest' = newest /\ sent' = sent /\ vis' = vis
      BY <1>1 DEF history
    <3>2. \A d \in Channels : chan'[d].seen = chan[d].seen
      BY <2>5, <2>8
    <3> QED
      BY <3>1, <3>2 DEF Inv, Newest
  <2>10. ASSUME NEW d \in Channels, chan'[d].pc = "fuse"
         PROVE  LET u == Head(chan'[d].todo)[1] IN
                  /\ u \in Fuseds /\ Head(chan'[d].todo) = <<u, 1>> /\ Inputs[u][1] = d
                  /\ chan'[d].pair \in Nat \X Nat /\ chan'[d].pair[1] = sent'[d]
                  /\ chan'[d].pair[2] \in chan'[d].seen[u]..newest'[u]
    <3>1. newest' = newest /\ sent' = sent
      BY <1>1 DEF history
    <3>2. CASE d = c
      <4>1. /\ chan'[c].todo = chan[c].todo /\ chan'[c].pair = x
            /\ chan'[c].pc = "fuse" /\ chan'[c].seen = chan[c].seen
        BY <2>5, <2>8
      <4>2. chan[c].seen[v] <= newest[v] /\ chan[c].seen \in [Fuseds -> Nat]
        BY <1>1, <2>1, Fields DEF Inv, Newest
      <4>3. Head(chan'[c].todo)[1] = v /\ Head(chan'[c].todo) = <<v, 1>>
        BY <4>1
      <4>4. newest[v] \in chan[c].seen[v]..newest[v]
        BY <2>1, <4>2
      <4> QED
        BY <1>1, <2>1, <2>4, <3>1, <3>2, <4>1, <4>3, <4>4 DEF FusingAt
    <3>3. CASE d # c
      <4>1. chan'[d] = chan[d]
        BY <2>8, <3>3
      <4> QED
        BY <2>10, <3>1, <4>1 DEF Inv, Fusing, FusingAt
    <3> QED
      BY <3>2, <3>3
  <2>11. Fusing'
    BY <2>10 DEF Fusing
  <2>12. Filled'
    <3>1. newest' = newest /\ sent' = sent /\ vis' = vis /\ filled' = filled
      BY <1>1 DEF history
    <3>2. ASSUME NEW u \in Visitors, NEW i \in 1..Len(filled[u])
          PROVE  IsFilled(u, filled[u][i])'
      <4>1. IsFilled(u, filled[u][i])
        BY DEF Inv, Filled
      <4>2. CASE Inputs[u][1] = c
        <5>1. Pending(c, u)' => Pending(c, u)
          BY <2>5, <2>8 DEF Pending
        <5>2. FusingAt(c, u)' => u = v
          BY <2>5, <2>8 DEF FusingAt
        <5>3. u = v => Fused(u) /\ (filled[u][i])[2] <= newest[v]
          BY <2>1, <4>1 DEF IsFilled
        <5> QED
          BY <2>4, <2>5, <2>8, <3>1, <4>1, <4>2, <5>1, <5>2, <5>3 DEF IsFilled, Msg
      <4>3. CASE Inputs[u][1] # c
        BY <2>8, <3>1, <4>1, <4>3 DEF IsFilled, Msg, Pending, FusingAt
      <4> QED
        BY <4>2, <4>3
    <3> QED
      BY <3>1, <3>2 DEF Inv, Filled, ReadBuffer
  <2>13. \A u \in Visitors :
           /\ Len(filled[u]) \in Nat /\ filled'[u] = filled[u]
    BY <1>1 DEF Inv, Filled, history
  <2> QED
    BY <1>1, <2>8, <2>9, <2>11, <2>12, <2>13, StaysVisiting, StaysElsewhere DEF history
<1> QED
  BY <1>2, <1>3

LEMMA OrderedAppend ==
  ASSUME NEW v \in Visitors, NEW s \in Seq(Items(v)), Ordered(v, s), NEW x \in Items(v),
         \A i \in 1..Len(s) : Follows(v, s[i], x)
  PROVE  Ordered(v, Append(s, x))
<1>1. /\ Len(Append(s, x)) = Len(s) + 1 /\ Len(s) \in Nat
      /\ \A i \in 1..Len(s) : Append(s, x)[i] = s[i]
      /\ Append(s, x)[Len(s) + 1] = x
  OBVIOUS
<1> SUFFICES ASSUME NEW i \in 1..(Len(s) + 1), NEW j \in 1..(Len(s) + 1), i < j
             PROVE  Follows(v, Append(s, x)[i], Append(s, x)[j])
  BY <1>1 DEF Ordered
<1>2. i \in 1..Len(s)
  BY <1>1
<1>3. CASE j = Len(s) + 1
  BY <1>1, <1>2, <1>3
<1>4. CASE j \in 1..Len(s)
  BY <1>1, <1>2, <1>4 DEF Ordered
<1> QED
  BY <1>1, <1>3, <1>4

(* After a thread has been at a buffer: what is left to be filled.         *)
LEMMA NotPending ==
  ASSUME Inv, NEW c \in Channels, chan[c].pc \in {"fill", "fuse"},
         chan'[c] = NextEntry(chan[c]), NEW v \in Visitors
  PROVE  /\ Pending(c, v)' => Pending(c, v) /\ Head(chan[c].todo) # <<v, 1>>
         /\ ~FusingAt(c, v)'
         /\ Head(chan[c].todo) = <<v, 1>> => Pending(c, v)
<1>1. /\ chan[c].todo # <<>> /\ Head(chan[c].todo) = chan[c].todo[1]
      /\ 1 \in 1..Len(chan[c].todo)
  BY AtEntries
<1> DEFINE r == NextEntry(chan[c])
<1>2. /\ r.pc = "lock"
      /\ \A i \in 1..Len(r.todo) : /\ i + 1 \in 1..Len(chan[c].todo)
                                   /\ r.todo[i] = chan[c].todo[i + 1]
                                   /\ r.todo[i] # Head(chan[c].todo)
  BY <1>1, GoesOn
<1> HIDE DEF r
<1>3. chan'[c] = r
  BY DEF r
<1>4. Pending(c, v)' => Pending(c, v) /\ Head(chan[c].todo) # <<v, 1>>
  <2> SUFFICES ASSUME Pending(c, v)'
               PROVE  Pending(c, v) /\ Head(chan[c].todo) # <<v, 1>>
    OBVIOUS
  <2>1. PICK i \in 1..Len(r.todo) : r.todo[i] = <<v, 1>>
    BY <1>3 DEF Pending
  <2> QED
    BY <1>2, <2>1 DEF Pending
<1>5. ~FusingAt(c, v)'
  BY <1>2, <1>3 DEF FusingAt
<1>6. Head(chan[c].todo) = <<v, 1>> => Pending(c, v)
  BY <1>1 DEF Pending
<1> QED
  BY <1>4, <1>5, <1>6

(* What has been filled into a buffer that is left alone.                  *)
LEMMA KeepsFilled ==
  ASSUME Inv, NEW c \in Channels, chan[c].pc \in {"fill", "fuse"},
         chan'[c] = NextEntry(chan[c]),
         \A d \in Channels : d # c => chan'[d] = chan[d],
         sent' = sent, NEW v \in Visitors,
         Fused(v) => newest[v] \in Nat /\ newest'[v] \in Nat /\ newest[v] <= newest'[v],
         filled'[v] = filled[v], ReadBuffer(v)' = ReadBuffer(v)
  PROVE  /\ filled'[v] \in Seq(Items(v)) /\ Holds(ReadBuffer(v)', filled'[v])
         /\ Ordered(v, filled'[v])
         /\ \A i \in 1..Len(filled'[v]) : IsFilled(v, filled[v][i])'
<1> USE Places
<1>1. /\ filled[v] \in Seq(Items(v)) /\ Holds(ReadBuffer(v), filled[v])
      /\ Ordered(v, filled[v])
  BY DEF Inv, Filled
<1>2. ASSUME NEW i \in 1..Len(filled[v])
      PROVE  IsFilled(v, filled[v][i])'
  <2>1. IsFilled(v, filled[v][i]) /\ filled[v][i] \in Items(v)
    BY DEF Inv, Filled
  <2>2. Fused(v) => (filled[v][i])[2] \in Nat
    BY <2>1 DEF Items
  <2>3. Fused(v) => (filled[v][i])[2] <= newest'[v]
    BY <2>1, <2>2 DEF IsFilled
  <2>4. CASE Inputs[v][1] = c
    BY <2>1, <2>3, <2>4, NotPending DEF IsFilled, Msg
  <2>5. CASE Inputs[v][1] # c
    BY <2>1, <2>3, <2>5 DEF IsFilled, Msg, Pending, FusingAt
  <2> QED
    BY <2>4, <2>5
<1> QED
  BY <1>1, <1>2

(* What has been filled into the buffer that the thread is at.             *)
LEMMA FillsNext ==
  ASSUME Inv, NEW c \in Channels, chan[c].pc \in {"fill", "fuse"},
         chan'[c] = NextEntry(chan[c]), sent' = sent, newest' = newest,
         NEW v \in Visitors, Inputs[v][1] = c, Head(chan[c].todo) = <<v, 1>>,
         NEW x \in Items(v), Msg(v, x) = sent[c],
         Fused(v) => x[2] <= newest[v],
         \A i \in 1..Len(filled[v]) : Fused(v) => (filled[v][i])[2] <= x[2],
         filled'[v] = Append(filled[v], x), ReadBuffer(v)' = Put(ReadBuffer(v), x),
         IsBuffer(ReadBuffer(v), QueueSize[v])
  PROVE  /\ filled'[v] \in Seq(Items(v)) /\ Holds(ReadBuffer(v)', filled'[v])
         /\ Ordered(v, filled'[v])
         /\ \A i \in 1..Len(filled'[v]) : IsFilled(v, filled[v][i])'
<1> USE Places
<1> DEFINE s == filled[v]
<1>1. /\ s \in Seq(Items(v)) /\ Holds(ReadBuffer(v), s) /\ Ordered(v, s)
      /\ \A i \in 1..Len(s) : IsFilled(v, s[i]) /\ s[i] \in Items(v)
  BY DEF Inv, Filled
<1>2. sent[c] \in Nat
  BY DEF Inv, Receiving
<1>3. /\ Pending(c, v) /\ ~Pending(c, v)' /\ ~FusingAt(c, v)'
  BY NotPending
<1>4. \A i \in 1..Len(s) : Msg(v, s[i]) \in Nat
  BY <1>1 DEF Msg, Items
<1> HIDE DEF s
<1>5. filled'[v] = Append(s, x)
  BY DEF s
<1>6. \A i \in 1..Len(s) : Fused(v) => s[i][2] <= x[2]
  BY DEF s
<1>7. \A i \in 1..Len(s) : Follows(v, s[i], x)
  BY <1>1, <1>2, <1>3, <1>4, <1>6 DEF Follows, IsFilled
<1>8. /\ Append(s, x) \in Seq(Items(v)) /\ Ordered(v, Append(s, x))
      /\ Holds(Put(ReadBuffer(v), x), Append(s, x))
  <2>1. Holds(Put(ReadBuffer(v), x), Append(s, x))
    BY <1>1, PutHolds
  <2> QED
    BY <1>1, <1>7, <2>1, OrderedAppend
<1>9. /\ Len(Append(s, x)) = Len(s) + 1 /\ Len(s) \in Nat
      /\ \A i \in 1..Len(s) : Append(s, x)[i] = s[i]
      /\ Append(s, x)[Len(s) + 1] = x
      /\ \A i \in 1..Len(Append(s, x)) : i \in 1..Len(s) \/ i = Len(s) + 1
  BY <1>1, Appending
<1>10. ASSUME NEW i \in 1..Len(Append(s, x)), NEW y, y = Append(s, x)[i]
       PROVE  IsFilled(v, y)'
  <2>1. CASE i \in 1..Len(s)
    <3>1. IsFilled(v, y)
      BY <1>1, <1>9, <1>10, <2>1
    <3> QED
      BY <1>3, <3>1 DEF IsFilled, Msg
  <2>2. CASE i = Len(s) + 1
    <3>1. y = x
      BY <1>9, <1>10, <2>2
    <3> QED
      BY <1>2, <1>3, <3>1 DEF IsFilled, Msg
  <2> QED
    BY <1>9, <1>10, <2>1, <2>2
<1>11. \A i \in 1..Len(filled'[v]) : IsFilled(v, filled[v][i])'
  BY <1>5, <1>10 DEF IsFilled
<1> QED
  BY <1>5, <1>8, <1>11

(* A message is put into a buffer: of the visitor, or the fused one.       *)
PutChannel(u, k, x) == [u EXCEPT !.bufs = [u.bufs EXCEPT ![k] = Put(u.bufs[k], x)]]
PutPair(u, x) == [u EXCEPT !.fbuf = Put(u.fbuf, x)]

LEMMA PutVisitor ==
  ASSUME NEW v \in Visitors, NEW u, IsVisitor(v, u), NEW k \in 1..Len(Inputs[v]), NEW x,
         NEW w, w = PutChannel(u, k, x)
  PROVE  /\ IsVisitor(v, w) /\ w.added = u.added /\ w.fbuf = u.fbuf /\ w.next = u.next
         /\ w.item = u.item /\ w.rt = u.rt
         /\ \A j \in 1..Len(Inputs[v]) :
              w.bufs[j] = IF j = k THEN Put(u.bufs[k], x) ELSE u.bufs[j]
<1> USE Places
<1> DEFINE nb == Put(u.bufs[k], x)
           nbs == [u.bufs EXCEPT ![k] = nb]
<1>1. /\ IsBuffer(nb, QueueSize[v]) /\ nb.tail = u.bufs[k].tail + 1
      /\ u.bufs[k].tail \in Nat
  <2>1. IsBuffer(u.bufs[k], QueueSize[v])
    BY DEF IsVisitor
  <2>2. u.bufs[k].tail \in Nat
    BY <2>1 DEF IsBuffer
  <2> QED
    BY <2>1, <2>2, Puts
<1> HIDE DEF nb
<1>2. /\ DOMAIN nbs = 1..Len(Inputs[v])
      /\ \A j \in 1..Len(Inputs[v]) : nbs[j] = IF j = k THEN nb ELSE u.bufs[j]
  BY DEF IsVisitor
<1>3. w = [u EXCEPT !.bufs = nbs]
  BY DEF nb, PutChannel
<1> HIDE DEF nbs
<1>4. /\ DOMAIN w = DOMAIN u /\ w.bufs = nbs /\ w.stage = u.stage /\ w.rt = u.rt
      /\ w.added = u.added /\ w.fusion = u.fusion /\ w.fbuf = u.fbuf
      /\ w.next = u.next /\ w.item = u.item
  BY <1>3 DEF IsVisitor
<1>5. \A j \in 1..Len(Inputs[v]) : IsBuffer(w.bufs[j], QueueSize[v])
  BY <1>1, <1>2, <1>4 DEF IsVisitor
<1>6. w.next \in 0..(Reads(v, w).tail + 1)
  <2>1. w.next \in 0..(Reads(v, u).tail + 1)
    BY <1>4 DEF IsVisitor
  <2>2. CASE Fused(v)
    BY <1>4, <2>1, <2>2 DEF Reads
  <2>3. CASE ~Fused(v)
    <3>1. k = 1
      <4>1. Len(Inputs[v]) \in {1, 2} /\ (Fused(v) <=> Len(Inputs[v]) = 2)
        BY Places
      <4>2. Len(Inputs[v]) = 1
        BY <2>3, <4>1
      <4> QED
        BY <4>2
    <3>2. Reads(v, u) = u.bufs[1] /\ Reads(v, w) = nbs[1] /\ nbs[1] = nb
      BY <1>2, <1>4, <2>3, <3>1 DEF Reads
    <3> QED
      BY <1>1, <2>1, <3>1, <3>2
  <2> QED
    BY <2>2, <2>3
<1>7. IsVisitor(v, w)
  BY <1>2, <1>4, <1>5, <1>6 DEF IsVisitor
<1> QED
  BY <1>2, <1>4, <1>7 DEF nb

LEMMA PutFused ==
  ASSUME NEW v \in Visitors, NEW u, IsVisitor(v, u), NEW x,
         NEW w, w = PutPair(u, x)
  PROVE  /\ IsVisitor(v, w) /\ w.added = u.added /\ w.bufs = u.bufs /\ w.next = u.next
         /\ w.item = u.item /\ w.rt = u.rt /\ w.fbuf = Put(u.fbuf, x)
<1> USE Places
<1> DEFINE nb == Put(u.fbuf, x)
<1>1. /\ IsBuffer(nb, QueueSize[v]) /\ nb.tail = u.fbuf.tail + 1
      /\ u.fbuf.tail \in Nat
  <2>1. IsBuffer(u.fbuf, QueueSize[v])
    BY DEF IsVisitor
  <2>2. u.fbuf.tail \in Nat
    BY <2>1 DEF IsBuffer
  <2> QED
    BY <2>1, <2>2, Puts
<1>2. w = [u EXCEPT !.fbuf = nb]
  BY DEF PutPair
<1> HIDE DEF nb
<1>3. /\ DOMAIN w = DOMAIN u /\ w.fbuf = nb /\ w.stage = u.stage /\ w.rt = u.rt
      /\ w.added = u.added /\ w.fusion = u.fusion /\ w.bufs = u.bufs
      /\ w.next = u.next /\ w.item = u.item
  BY <1>2 DEF IsVisitor
<1>4. w.next \in 0..(Reads(v, w).tail + 1)
  <2>1. w.next \in 0..(Reads(v, u).tail + 1)
    BY <1>3 DEF IsVisitor
  <2>2. CASE Fused(v)
    BY <1>1, <1>3, <2>1, <2>2 DEF Reads
  <2>3. CASE ~Fused(v)
    BY <1>3, <2>1, <2>3 DEF Reads
  <2> QED
    BY <2>2, <2>3
<1>5. IsVisitor(v, w)
  BY <1>1, <1>3, <1>4 DEF IsVisitor
<1> QED
  BY <1>3, <1>5 DEF nb

LEMMA StaysNewest ==
  ASSUME Newest, newest' = newest, sent' = sent,
         \A u \in Fuseds : vis'[u].bufs = vis[u].bufs,
         \A d \in Channels : chan'[d].seen = chan[d].seen
  PROVE  Newest'
BY DEF Newest

LEMMA StaysFusing ==
  ASSUME Fusing, newest' = newest, sent' = sent,
         \A d \in Channels : chan'[d].pc = "fuse" => chan'[d] = chan[d]
  PROVE  Fusing'
BY DEF Fusing

LEMMA FuseAt ==
  ASSUME Inv, NEW c \in Channels, chan[c].pc = "fuse", chan[c].todo # <<>>,
         NEW v \in Fuseds, Head(chan[c].todo) = <<v, 1>>, Inputs[v][1] = c,
         NEW x \in Nat \X Nat, x[1] = sent[c], x = chan[c].pair,
         x[2] \in chan[c].seen[v]..newest[v],
         SetThread(c, NextEntry(chan[c])),
         filled' = [filled EXCEPT ![v] = Append(@, x)],
         NEW w, w = PutPair(vis[v], x), vis' = [vis EXCEPT ![v] = w],
         UNCHANGED <<sent, handler, buffers, notifiers, blk, delivered, newest>>
  PROVE  Inv'
<1> USE Places
<1>1. /\ chan[c].pc = "fuse" /\ SetThread(c, NextEntry(chan[c]))
      /\ filled' = [filled EXCEPT ![v] = Append(@, x)]
      /\ UNCHANGED <<sent, handler, buffers, notifiers, blk, delivered, newest>>
  OBVIOUS
<1>2. /\ v \in Fuseds /\ Head(chan[c].todo) = <<v, 1>> /\ Inputs[v][1] = c
      /\ x \in Nat \X Nat /\ x[1] = sent[c] /\ x = chan[c].pair
      /\ x[2] \in chan[c].seen[v]..newest[v]
  OBVIOUS
<1>3. /\ v \in Visitors /\ Fused(v) /\ newest \in [Fuseds -> Nat]
      /\ chan \in [Channels -> Threads] /\ chan[c].todo # <<>>
      /\ sent \in [Channels -> Nat] /\ \A d \in Channels : sent[d] <= MaxMsgs[d]
      /\ DOMAIN vis = Visitors /\ DOMAIN filled = Visitors /\ IsVisitor(v, vis[v])
  BY DEF Inv, Newest, Receiving, Filled, Visiting
<1>4. vis' = [vis EXCEPT ![v] = w]
  OBVIOUS
<1>5. /\ IsVisitor(v, w) /\ w.added = vis[v].added /\ w.bufs = vis[v].bufs
      /\ w.next = vis[v].next /\ w.item = vis[v].item /\ w.rt = vis[v].rt
      /\ w.fbuf = Put(vis[v].fbuf, x)
  BY <1>3, PutFused
<1>6. Visiting' /\ vis'[v] = w /\ \A u \in Visitors : u # v => vis'[u] = vis[u]
  BY <1>3, <1>4, <1>5, VisitorStep DEF Inv
<1>7. \A u \in Visitors :
        /\ vis'[u].added = vis[u].added /\ vis'[u].bufs = vis[u].bufs
        /\ vis'[u].next = vis[u].next /\ vis'[u].item = vis[u].item
        /\ vis'[u].rt = vis[u].rt
  BY <1>5, <1>6
<1>8. \A u \in Visitors : filled'[u] = IF u = v THEN Append(filled[v], x) ELSE filled[u]
  BY <1>1, <1>3
<1>9. /\ Receiving' /\ chan'[c] = NextEntry(chan[c])
      /\ \A d \in Channels : d # c => chan'[d] = chan[d]
  <2> DEFINE r == NextEntry(chan[c])
  <2>1. r \in Threads /\ IsThread(c, r, sent[c])
    BY <1>1, <1>3, GoesOn
  <2>2. SetThread(c, r)
    BY <1>1
  <2> HIDE DEF r
  <2>4. /\ sent' \in [Channels -> Nat] /\ IsThread(c, r, sent'[c])
        /\ \A d \in Channels : sent'[d] <= MaxMsgs[d] /\ (d # c => sent'[d] = sent[d])
        /\ \A u \in Visitors : vis'[u].added = vis[u].added
    BY <1>1, <1>3, <1>7, <2>1
  <2>3. Receiving' /\ chan'[c] = r /\ \A d \in Channels : d # c => chan'[d] = chan[d]
    BY <2>1, <2>2, <2>4, ThreadStep
  <2> QED
    BY <2>3 DEF r
<1>10. chan'[c].pc = "lock" /\ chan'[c].seen = chan[c].seen
  BY <1>1, <1>3, <1>9, GoesOn
<1>11. Newest'
  <2>1. \A d \in Channels : chan'[d].seen = chan[d].seen
    BY <1>9, <1>10
  <2>2. \A u \in Fuseds : vis'[u].bufs = vis[u].bufs
    BY <1>7
  <2>3. newest' = newest /\ sent' = sent
    BY <1>1
  <2> QED
    BY <2>1, <2>2, <2>3, StaysNewest DEF Inv
<1>12. Fusing'
  <2>1. \A d \in Channels : chan'[d].pc = "fuse" => chan'[d] = chan[d]
    BY <1>9, <1>10
  <2>2. newest' = newest /\ sent' = sent
    BY <1>1
  <2> QED
    BY <2>1, <2>2, StaysFusing DEF Inv
<1>13. Filled'
  <2> SUFFICES ASSUME NEW u \in Visitors
               PROVE  /\ filled'[u] \in Seq(Items(u)) /\ Holds(ReadBuffer(u)', filled'[u])
                      /\ Ordered(u, filled'[u])
                      /\ \A i \in 1..Len(filled'[u]) : IsFilled(u, filled[u][i])'
    BY <1>1, <1>3 DEF Filled
  <2>1. CASE u = v
    <3>1. /\ x \in Items(v) /\ Msg(v, x) = sent[c] /\ x[2] <= newest[v]
      BY <1>2, <1>3 DEF Items, Msg
    <3>2. FusingAt(c, v)
      BY <1>1, <1>2 DEF FusingAt
    <3>3. \A i \in 1..Len(filled[v]) : (filled[v][i])[2] <= x[2]
      BY <1>2, <1>3, <3>2 DEF Inv, Filled, IsFilled
    <3>4. /\ ReadBuffer(v)' = Put(ReadBuffer(v), x)
          /\ IsBuffer(ReadBuffer(v), QueueSize[v])
      <4>1. vis'[v].fbuf = Put(vis[v].fbuf, x)
        BY <1>5, <1>6
      <4>2. IsBuffer(vis[v].fbuf, QueueSize[v])
        BY <1>3 DEF IsVisitor
      <4> QED
        BY <1>3, <4>1, <4>2 DEF ReadBuffer
    <3>5. filled'[v] = Append(filled[v], x) /\ sent' = sent /\ newest' = newest
      BY <1>1, <1>3, <1>8
    <3>6. /\ filled'[v] \in Seq(Items(v)) /\ Holds(ReadBuffer(v)', filled'[v])
          /\ Ordered(v, filled'[v])
          /\ \A i \in 1..Len(filled'[v]) : IsFilled(v, filled[v][i])'
      BY <1>1, <1>2, <1>3, <1>9, <3>1, <3>3, <3>4, <3>5, FillsNext
    <3> QED
      BY <2>1, <3>6
  <2>2. CASE u # v
    <3>1. filled'[u] = filled[u] /\ ReadBuffer(u)' = ReadBuffer(u)
      BY <1>6, <1>8, <2>2 DEF ReadBuffer
    <3>2. Fused(u) => newest[u] \in Nat /\ newest'[u] \in Nat /\ newest[u] <= newest'[u]
      BY <1>1, <1>3
    <3> QED
      BY <1>1, <1>9, <3>1, <3>2, KeepsFilled
  <2> QED
    BY <2>1, <2>2
<1>14. ASSUME NEW u \in Visitors
       PROVE  /\ Len(filled[u]) \in Nat /\ Len(filled'[u]) \in Nat
              /\ Len(filled[u]) <= Len(filled'[u])
              /\ \A k \in 1..Len(filled[u]) : filled'[u][k] = filled[u][k]
  <2>1. filled[u] \in Seq(Items(u))
    BY DEF Inv, Filled
  <2>2. x \in Items(v)
    BY <1>2, <1>3 DEF Items
  <2>3. CASE u = v
    <3> DEFINE s == filled[v]
    <3>1. s \in Seq(Items(v)) /\ filled'[u] = Append(s, x) /\ filled[u] = s
      BY <1>8, <2>1, <2>3
    <3> HIDE DEF s
    <3>2. /\ Len(Append(s, x)) = Len(s) + 1 /\ Len(s) \in Nat
          /\ \A k \in 1..Len(s) : Append(s, x)[k] = s[k]
      BY <2>2, <3>1, Appending
    <3> QED
      BY <3>1, <3>2
  <2>4. CASE u # v
    BY <1>8, <2>1, <2>4
  <2> QED
    BY <2>3, <2>4
<1> QED
  BY <1>1, <1>6, <1>7, <1>9, <1>11, <1>12, <1>13, <1>14, StaysElsewhere

LEMMA FuseStep ==
  ASSUME Inv, NEW c \in Channels, Fuse(c)
  PROVE  Inv'
<1> DEFINE v == Head(chan[c].todo)[1]
           x == chan[c].pair
           w == PutPair(vis[v], x)
<1>1. /\ chan[c].pc = "fuse" /\ SetThread(c, NextEntry(chan[c]))
      /\ filled' = [filled EXCEPT ![v] = Append(@, x)]
      /\ UNCHANGED <<sent, handler, buffers, notifiers, blk, delivered, newest>>
  BY DEF Fuse, maps, owner
<1>2. vis' = [vis EXCEPT ![v] = w]
  BY DEF Fuse, PutPair
<1>3. /\ v \in Fuseds /\ Head(chan[c].todo) = <<v, 1>> /\ Inputs[v][1] = c
      /\ x \in Nat \X Nat /\ x[1] = sent[c]
      /\ x[2] \in chan[c].seen[v]..newest[v]
  BY <1>1 DEF Inv, Fusing
<1>4. chan[c].todo # <<>>
  BY <1>1 DEF Inv, Receiving, IsThread
<1>5. x = chan[c].pair
  OBVIOUS
<1> QED
  BY <1>1, <1>2, <1>3, <1>4, <1>5, FuseAt

LEMMA StoreAt ==
  ASSUME Inv, NEW c \in Channels, chan[c].pc = "fill",
         NEW v, NEW k, Head(chan[c].todo) = <<v, k>>, NEW x, x = chan[c].msg,
         ~(k = 1 /\ vis[v].fusion), Store(v, k, c),
         NEW w, w = PutChannel(vis[v], k, x),
         UNCHANGED <<sent, handler, buffers, notifiers, blk>>
  PROVE  Inv'
<1> USE Places
<1>1. /\ v \in Visitors /\ k \in 1..Len(Inputs[v]) /\ Inputs[v][k] = c
      /\ chan[c].todo # <<>> /\ x = sent[c] /\ x \in Nat
  <2> DEFINE e == Head(chan[c].todo)
  <2>1. /\ e[1] \in Visitors /\ e[2] \in 1..Len(Inputs[e[1]]) /\ Inputs[e[1]][e[2]] = c
        /\ chan[c].todo # <<>> /\ x = sent[c] /\ x \in Nat
    BY AtEntries
  <2>2. e[1] = v /\ e[2] = k
    OBVIOUS
  <2> HIDE DEF e
  <2> QED
    BY <2>1, <2>2
<1>2. /\ SetThread(c, NextEntry(chan[c]))
      /\ vis' = [vis EXCEPT ![v].bufs[k] = Put(@, x)]
      /\ filled' = IF Fused(v) THEN filled ELSE [filled EXCEPT ![v] = Append(@, x)]
      /\ newest' = IF k = 2 THEN [newest EXCEPT ![v] = x] ELSE newest
      /\ UNCHANGED delivered
  BY DEF Store
<1>3. /\ newest \in [Fuseds -> Nat] /\ chan \in [Channels -> Threads]
      /\ sent \in [Channels -> Nat] /\ \A d \in Channels : sent[d] <= MaxMsgs[d]
      /\ DOMAIN vis = Visitors /\ DOMAIN filled = Visitors /\ IsVisitor(v, vis[v])
      /\ k \in {1, 2} /\ (k = 2 => v \in Fuseds)
  BY <1>1, SMTT(40) DEF Inv, Newest, Receiving, Filled, Visiting
<1>4. vis' = [vis EXCEPT ![v] = w]
  BY <1>2 DEF PutChannel
<1>5. /\ IsVisitor(v, w) /\ w.added = vis[v].added /\ w.fbuf = vis[v].fbuf
      /\ w.next = vis[v].next /\ w.item = vis[v].item /\ w.rt = vis[v].rt
      /\ \A j \in 1..Len(Inputs[v]) :
           w.bufs[j] = IF j = k THEN Put(vis[v].bufs[k], x) ELSE vis[v].bufs[j]
  BY <1>1, <1>3, PutVisitor, SMTT(40)
<1>6. Visiting' /\ vis'[v] = w /\ \A u \in Visitors : u # v => vis'[u] = vis[u]
  BY <1>1, <1>4, <1>5, VisitorStep DEF Inv
<1>7. \A u \in Visitors :
        /\ vis'[u].added = vis[u].added /\ vis'[u].fbuf = vis[u].fbuf
        /\ vis'[u].next = vis[u].next /\ vis'[u].item = vis[u].item
        /\ vis'[u].rt = vis[u].rt
  BY <1>5, <1>6
<1>8. \A u \in Visitors : filled'[u] = IF u = v /\ ~Fused(v) THEN Append(filled[v], x)
                                       ELSE filled[u]
  BY <1>1, <1>2, <1>3
<1>9. /\ Receiving' /\ chan'[c] = NextEntry(chan[c])
      /\ \A d \in Channels : d # c => chan'[d] = chan[d]
  <2> DEFINE r == NextEntry(chan[c])
  <2>1. r \in Threads /\ IsThread(c, r, sent[c])
    BY <1>1, <1>3, GoesOn
  <2>2. SetThread(c, r)
    BY <1>2
  <2> HIDE DEF r
  <2>3. /\ sent' \in [Channels -> Nat] /\ IsThread(c, r, sent'[c])
        /\ \A d \in Channels : sent'[d] <= MaxMsgs[d] /\ (d # c => sent'[d] = sent[d])
        /\ \A u \in Visitors : vis'[u].added = vis[u].added
    BY <1>3, <1>7, <2>1
  <2>4. Receiving' /\ chan'[c] = r /\ \A d \in Channels : d # c => chan'[d] = chan[d]
    BY <2>1, <2>2, <2>3, ThreadStep
  <2> QED
    BY <2>4 DEF r
<1>10. chan'[c].pc = "lock" /\ chan'[c].seen = chan[c].seen
  BY <1>1, <1>9, GoesOn
<1>11. \A d \in Channels : chan'[d].seen = chan[d].seen
  BY <1>9, <1>10
<1>12. /\ newest' \in [Fuseds -> Nat]
       /\ \A u \in Fuseds :
            /\ newest'[u] = IF u = v /\ k = 2 THEN x ELSE newest[u]
            /\ newest[u] \in Nat /\ newest'[u] \in Nat
            /\ newest[u] <= sent[Inputs[u][2]]
  BY <1>1, <1>2, <1>3 DEF Inv, Newest
<1>13. \A u \in Fuseds : newest[u] <= newest'[u] /\ newest'[u] <= sent[Inputs[u][2]]
  BY <1>1, <1>12
<1>14. Newest'
  <2>1. ASSUME NEW u \in Fuseds, vis'[u].bufs[2].tail > 0
        PROVE  Latest(vis'[u].bufs[2]) = newest'[u]
    <3>1. CASE u = v /\ k = 2
      <4>1. /\ vis'[u].bufs[2] = Put(vis[v].bufs[2], x)
            /\ IsBuffer(vis[v].bufs[2], QueueSize[v])
        BY <1>3, <1>5, <1>6, <3>1 DEF IsVisitor
      <4>2. Latest(Put(vis[v].bufs[2], x)) = x
        BY <1>1, <4>1, Puts DEF Latest
      <4> QED
        BY <1>12, <3>1, <4>1, <4>2
    <3>2. CASE ~(u = v /\ k = 2)
      <4>1. vis'[u].bufs[2] = vis[u].bufs[2]
        <5>1. CASE u = v
          <6>1. Len(Inputs[v]) = 2
            BY <5>1
          <6>2. w.bufs[2] = vis[v].bufs[2]
            BY <1>3, <1>5, <3>2, <5>1, <6>1
          <6> QED
            BY <1>6, <5>1, <6>2
        <5>2. CASE u # v
          BY <1>6, <5>2
        <5> QED
          BY <5>1, <5>2
      <4>2. newest'[u] = newest[u]
        BY <1>12, <3>2
      <4> QED
        BY <2>1, <4>1, <4>2 DEF Inv, Newest
    <3> QED
      BY <3>1, <3>2
  <2>2. ASSUME NEW d \in Channels, NEW u \in Fuseds, Inputs[u][1] = d
        PROVE  chan'[d].seen[u] <= newest'[u]
    <3>1. chan[d].seen[u] <= newest[u] /\ chan[d].seen[u] \in Nat
      BY <1>3, <2>2, Fields DEF Inv, Newest
    <3> QED
      BY <1>11, <1>12, <1>13, <3>1
  <2> QED
    BY <1>12, <1>13, <2>1, <2>2 DEF Newest
<1>15. Fusing'
  <2> SUFFICES ASSUME NEW d \in Channels, chan'[d].pc = "fuse"
               PROVE  LET u == Head(chan'[d].todo)[1] IN
                        /\ u \in Fuseds /\ Head(chan'[d].todo) = <<u, 1>> /\ Inputs[u][1] = d
                        /\ chan'[d].pair \in Nat \X Nat /\ chan'[d].pair[1] = sent'[d]
                        /\ chan'[d].pair[2] \in chan'[d].seen[u]..newest'[u]
    BY DEF Fusing
  <2> DEFINE u == Head(chan[d].todo)[1]
  <2>1. chan'[d] = chan[d]
    BY <1>9, <1>10
  <2>2. /\ u \in Fuseds /\ Head(chan[d].todo) = <<u, 1>> /\ Inputs[u][1] = d
        /\ chan[d].pair \in Nat \X Nat /\ chan[d].pair[1] = sent[d]
        /\ chan[d].pair[2] \in chan[d].seen[u]..newest[u]
    BY <2>1 DEF Inv, Fusing
  <2>3. chan[d].seen[u] \in Nat
    BY <1>3, <2>2, Fields
  <2>4. chan[d].pair[2] \in chan[d].seen[u]..newest'[u]
    BY <1>12, <1>13, <2>2, <2>3
  <2> HIDE DEF u
  <2>5. Head(chan'[d].todo)[1] = u
    BY <2>1 DEF u
  <2> QED
    BY <2>1, <2>2, <2>4, <2>5
<1>16. Filled'
  <2> SUFFICES ASSUME NEW u \in Visitors
               PROVE  /\ filled'[u] \in Seq(Items(u)) /\ Holds(ReadBuffer(u)', filled'[u])
                      /\ Ordered(u, filled'[u])
                      /\ \A i \in 1..Len(filled'[u]) : IsFilled(u, filled[u][i])'
    BY <1>2, <1>3 DEF Filled
  <2>1. CASE u = v /\ ~Fused(v)
    <3>1. /\ k = 1 /\ Inputs[v][1] = c /\ Head(chan[c].todo) = <<v, 1>> /\ newest' = newest
          /\ x \in Items(v) /\ Msg(v, x) = sent[c]
      BY <1>1, <1>2, <1>3, <2>1 DEF Items, Msg
    <3>2. /\ ReadBuffer(v)' = Put(ReadBuffer(v), x)
          /\ IsBuffer(ReadBuffer(v), QueueSize[v])
      <4>1. vis'[v].bufs[1] = Put(vis[v].bufs[1], x)
        BY <1>1, <1>5, <1>6, <3>1
      <4>2. IsBuffer(vis[v].bufs[1], QueueSize[v])
        BY <1>1, <1>3, <3>1 DEF IsVisitor
      <4> QED
        BY <2>1, <4>1, <4>2 DEF ReadBuffer
    <3>3. filled'[v] = Append(filled[v], x)
      BY <1>1, <1>8, <2>1
    <3>4. /\ filled'[v] \in Seq(Items(v)) /\ Holds(ReadBuffer(v)', filled'[v])
          /\ Ordered(v, filled'[v])
          /\ \A i \in 1..Len(filled'[v]) : IsFilled(v, filled[v][i])'
      BY <1>1, <1>9, <2>1, <3>1, <3>2, <3>3, FillsNext
    <3> QED
      BY <2>1, <3>4
  <2>2. CASE ~(u = v /\ ~Fused(v))
    <3>1. filled'[u] = filled[u]
      BY <1>8, <2>2
    <3>2. ReadBuffer(u)' = ReadBuffer(u)
      BY <1>6, <1>7, <2>2 DEF ReadBuffer
    <3>3. Fused(u) => newest[u] \in Nat /\ newest'[u] \in Nat /\ newest[u] <= newest'[u]
      BY <1>12, <1>13
    <3> QED
      BY <1>9, <3>1, <3>2, <3>3, KeepsFilled
  <2> QED
    BY <2>1, <2>2
<1>17. ASSUME NEW u \in Visitors
       PROVE  /\ Len(filled[u]) \in Nat /\ Len(filled'[u]) \in Nat
              /\ Len(filled[u]) <= Len(filled'[u])
              /\ \A i \in 1..Len(filled[u]) : filled'[u][i] = filled[u][i]
  <2> DEFINE s == filled[u]
  <2>1. s \in Seq(Items(u)) /\ filled[u] = s
    BY DEF Inv, Filled
  <2> HIDE DEF s
  <2>2. CASE u = v /\ ~Fused(v)
    <3>1. x \in Items(u) /\ filled'[u] = Append(s, x)
      BY <1>1, <1>8, <2>1, <2>2 DEF Items
    <3>2. /\ Len(Append(s, x)) = Len(s) + 1 /\ Len(s) \in Nat
          /\ \A i \in 1..Len(s) : Append(s, x)[i] = s[i]
      BY <2>1, <3>1, Appending
    <3> QED
      BY <2>1, <3>1, <3>2
  <2>3. CASE ~(u = v /\ ~Fused(v))
    BY <1>8, <2>1, <2>3
  <2> QED
    BY <2>2, <2>3
<1> QED
  BY <1>2, <1>6, <1>7, <1>9, <1>14, <1>15, <1>16, <1>17, StaysElsewhere

LEMMA FillStep ==
  ASSUME Inv, NEW c \in Channels, Fill(c)
  PROVE  Inv'
<1> DEFINE e == Head(chan[c].todo)
<1>1. /\ chan[c].pc = "fill" /\ UNCHANGED <<sent, handler, buffers, notifiers, blk>>
      /\ IF e[2] = 1 /\ vis[e[1]].fusion THEN Callback(e[1], c) ELSE Store(e[1], e[2], c)
  BY DEF Fill, maps, owner
<1>2. e[1] \in Visitors /\ e = <<e[1], e[2]>>
  BY <1>1, AtEntries
<1>3. CASE e[2] = 1 /\ vis[e[1]].fusion
  BY <1>1, <1>2, <1>3, CallbackStep
<1>4. CASE ~(e[2] = 1 /\ vis[e[1]].fusion)
  BY <1>1, <1>2, <1>4, StoreAt
<1> QED
  BY <1>3, <1>4

-----------------------------------------------------------------------------
(* The routine.                                                            *)
LEMMA TryFetchStep ==
  ASSUME Inv, NEW v \in Visitors, TryFetch(v)
  PROVE  Inv'
<1> USE Places
<1> DEFINE b == ReadBuffer(v)
           i == FetchIndex(b, vis[v].next)
           x == At(b, i)
<1>1. /\ IsVisitor(v, vis[v]) /\ DOMAIN vis = Visitors /\ vis[v].rt = "fetch"
      /\ UNCHANGED <<chan, sent, buffers, notifiers, blk, handler, filled, newest>>
  BY DEF Inv, Visiting, TryFetch, Step, owner, maps
<1>2. vis[v].stage \in {"callback", "up"}
  BY <1>1 DEF IsVisitor
<1>3. CASE ~CanFetch(b, vis[v].next)
  <2> DEFINE w == [vis[v] EXCEPT !.rt = "empty", !.missed = FALSE]
  <2>1. vis' = [vis EXCEPT ![v] = w] /\ delivered' = delivered
    BY <1>3 DEF TryFetch, Step
  <2>2. /\ DOMAIN w = DOMAIN vis[v] /\ w.stage = vis[v].stage /\ w.rt = "empty"
        /\ w.added = vis[v].added /\ w.bufs = vis[v].bufs /\ w.fbuf = vis[v].fbuf
        /\ w.next = vis[v].next /\ w.item = vis[v].item /\ w.fusion = vis[v].fusion
    BY <1>1 DEF IsVisitor
  <2> HIDE DEF w
  <2> QED
    BY <1>1, <1>2, <2>1, <2>2, Handled, Restages DEF Stages, Steps, history
<1>4. CASE CanFetch(b, vis[v].next)
  <2> DEFINE st == IF Fused(v) THEN "READY" ELSE vis[v].state
             rt == IF Fused(v) THEN "yielded" ELSE "enqueue"
             n == i + 1
             w == [vis[v] EXCEPT !.next = n, !.item = x, !.missed = FALSE,
                                 !.rt = rt, !.state = st]
  <2>1. vis' = [vis EXCEPT ![v] = w] /\ delivered' = [delivered EXCEPT ![v] = Append(@, x)]
    BY <1>4 DEF TryFetch, Step, NextIndex
  <2>2. /\ b = Reads(v, vis[v]) /\ IsBuffer(b, QueueSize[v])
        /\ vis[v].next \in 0..(b.tail + 1) /\ Holds(b, filled[v])
    BY <1>1 DEF ReadBuffer, Reads, IsVisitor, Inv, Filled
  <2>3. /\ i \in 1..Len(filled[v]) /\ i >= vis[v].next /\ x = filled[v][i] /\ i <= b.tail
    BY <1>4, <2>2, Fetches
  <2>4. filled[v] \in Seq(Items(v)) /\ Ordered(v, filled[v])
    BY DEF Inv, Filled
  <2>5. x \in Items(v) /\ i \in Nat /\ b.tail \in Nat
    BY <2>2, <2>3, <2>4 DEF IsBuffer
  <2>6. rt \in Steps /\ (Fused(v) <=> rt = "yielded") /\ (~Fused(v) <=> rt = "enqueue")
    BY DEF Steps
  <2>7. n \in Nat /\ n = i + 1 /\ n \in 0..(b.tail + 1)
    BY <2>2, <2>3, <2>5
  <2> HIDE DEF x, i, b, st, rt, n
  <2>8. /\ DOMAIN w = DOMAIN vis[v] /\ w.stage = vis[v].stage /\ w.rt = rt
        /\ w.added = vis[v].added /\ w.bufs = vis[v].bufs /\ w.fbuf = vis[v].fbuf
        /\ w.next = n /\ w.item = x /\ w.fusion = vis[v].fusion
    BY <1>1 DEF IsVisitor
  <2> HIDE DEF w
  <2>9. IsVisitor(v, w)
    <3>1. Reads(v, w) = b
      BY <2>2, <2>8 DEF Reads
    <3> QED
      BY <1>1, <1>2, <2>6, <2>7, <2>8, <3>1 DEF IsVisitor
  <2>10. Visiting' /\ vis'[v] = w /\ \A u \in Visitors : u # v => vis'[u] = vis[u]
    BY <2>1, <2>9, VisitorStep DEF Inv
  <2>11. \A u \in Visitors :
           /\ vis'[u].added = vis[u].added /\ vis'[u].added \in Nat
           /\ vis'[u].bufs = vis[u].bufs /\ vis'[u].fbuf = vis[u].fbuf
    <3>1. \A u \in Visitors : vis[u].added \in Nat
      BY DEF Inv, Visiting, IsVisitor
    <3> QED
      BY <2>8, <2>10, <3>1
  <2>12. Receiving' /\ Newest' /\ Fusing' /\ Filled'
    BY <1>1, <2>11, Unchanged, Still
  <2>13. Listed'
    BY <1>1, <2>11, StaysListed
  <2> DEFINE s == delivered[v]
  <2>14. /\ DOMAIN delivered = Visitors /\ s \in Seq(Items(v)) /\ Ordered(v, s)
         /\ \A j \in 1..Len(s) : \E k \in 1..Len(filled[v]) :
              k < vis[v].next /\ s[j] = filled[v][k]
    BY DEF Inv, Fetched
  <2>15. /\ DOMAIN delivered' = Visitors
         /\ \A u \in Visitors : delivered'[u] = IF u = v THEN Append(s, x) ELSE delivered[u]
    BY <2>1, <2>14
  <2> HIDE DEF s
  <2>16. /\ Append(s, x) \in Seq(Items(v)) /\ Len(Append(s, x)) = Len(s) + 1
         /\ Len(s) \in Nat /\ \A j \in 1..Len(s) : Append(s, x)[j] = s[j]
         /\ Append(s, x)[Len(s) + 1] = x
         /\ \A j \in 1..Len(Append(s, x)) : j \in 1..Len(s) \/ j = Len(s) + 1
    BY <2>5, <2>14, Appending
  <2>17. \A j \in 1..Len(s) : Follows(v, s[j], x)
    <3> SUFFICES ASSUME NEW j \in 1..Len(s) PROVE Follows(v, s[j], x)
      OBVIOUS
    <3>1. PICK k \in 1..Len(filled[v]) : k < vis[v].next /\ s[j] = filled[v][k]
      BY <2>14
    <3>2. k < i
      BY <2>2, <2>3, <2>5, <3>1
    <3> QED
      BY <2>3, <2>4, <3>1, <3>2 DEF Ordered
  <2>18. Ordered(v, Append(s, x))
    BY <2>5, <2>14, <2>17, OrderedAppend
  <2>19. ASSUME NEW j \in 1..Len(Append(s, x))
         PROVE  \E k \in 1..Len(filled[v]) : k < n /\ Append(s, x)[j] = filled[v][k]
    <3>1. CASE j = Len(s) + 1
      BY <2>3, <2>5, <2>7, <2>16, <3>1
    <3>2. CASE j \in 1..Len(s)
      <4>1. PICK k \in 1..Len(filled[v]) : k < vis[v].next /\ s[j] = filled[v][k]
        BY <2>14, <3>2
      <4>2. k < n
        BY <2>2, <2>3, <2>5, <2>7, <4>1
      <4> QED
        BY <2>16, <3>2, <4>1, <4>2
    <3> QED
      BY <2>16, <3>1, <3>2
  <2>20. Fetched'
    <3> SUFFICES ASSUME NEW u \in Visitors
                 PROVE  /\ delivered'[u] \in Seq(Items(u)) /\ Ordered(u, delivered'[u])
                        /\ \A j \in 1..Len(delivered'[u]) : \E k \in 1..Len(filled'[u]) :
                             k < vis'[u].next /\ delivered'[u][j] = filled'[u][k]
      BY <2>15 DEF Fetched
    <3>1. CASE u = v
      <4>1. delivered'[u] = Append(s, x) /\ vis'[u].next = n /\ filled'[u] = filled[v]
        BY <1>1, <2>8, <2>10, <2>15, <3>1
      <4> QED
        BY <2>16, <2>18, <2>19, <3>1, <4>1
    <3>2. CASE u # v
      <4>1. delivered'[u] = delivered[u] /\ vis'[u] = vis[u] /\ filled' = filled
        BY <1>1, <2>10, <2>15, <3>2
      <4> QED
        BY <4>1 DEF Inv, Fetched
    <3> QED
      BY <3>1, <3>2
  <2>21. Blocking'
    <3> SUFFICES ASSUME NEW u \in Visitors
                 PROVE  /\ blk'[u] \in [capacity : Nat, published : Seq(Nat), observed : Seq(Nat)]
                        /\ Len(blk'[u].published) <= blk'[u].capacity
                        /\ vis'[u].rt \in {"enqueue", "publish"} =>
                             /\ ~Fused(u) /\ Len(delivered'[u]) > 0
                             /\ vis'[u].item = delivered'[u][Len(delivered'[u])]
                        /\ ~Fused(u) =>
                             /\ IsWindow(blk'[u].published, delivered'[u], Passed(u)')
                             /\ \E k \in 0..Len(delivered'[u]) :
                                  IsWindow(blk'[u].observed, delivered'[u], k)
      BY <1>1 DEF Inv, Blocking
    <3>1. /\ blk'[u] \in [capacity : Nat, published : Seq(Nat), observed : Seq(Nat)]
          /\ Len(blk'[u].published) <= blk'[u].capacity /\ blk'[u] = blk[u]
      BY <1>1 DEF Inv, Blocking
    <3>2. CASE u = v
      <4>1. /\ delivered'[u] = Append(s, x) /\ vis'[u].rt = rt /\ vis'[u].item = x
        BY <2>8, <2>10, <2>15, <3>2
      <4>2. vis'[u].rt \in {"enqueue", "publish"} =>
              /\ ~Fused(u) /\ Len(delivered'[u]) > 0
              /\ vis'[u].item = delivered'[u][Len(delivered'[u])]
        BY <2>6, <2>16, <3>2, <4>1
      <4>3. ASSUME ~Fused(v)
            PROVE  /\ IsWindow(blk[v].published, Append(s, x), Len(s))
                   /\ \E k \in 0..Len(Append(s, x)) :
                        IsWindow(blk[v].observed, Append(s, x), k)
        <5>1. Passed(v) = Len(s)
          BY <1>1 DEF Passed, s
        <5>2. /\ IsWindow(blk[v].published, s, Len(s))
              /\ \E k \in 0..Len(s) : IsWindow(blk[v].observed, s, k)
              /\ Len(blk[v].published) \in Nat /\ Len(blk[v].observed) \in Nat
          BY <4>3, <5>1 DEF Inv, Blocking, s
        <5>3. ASSUME NEW q, Len(q) \in Nat, NEW k \in 0..Len(s), IsWindow(q, s, k)
              PROVE  IsWindow(q, Append(s, x), k)
          <6> SUFFICES ASSUME NEW j \in 1..Len(q)
                       PROVE  q[j] = Append(s, x)[k + 1 - j]
            BY <5>3 DEF IsWindow
          <6>1. Len(q) <= k /\ q[j] = s[k + 1 - j]
            BY <5>3 DEF IsWindow
          <6>2. k + 1 - j \in 1..Len(s)
            BY <2>16, <5>3, <6>1
          <6> QED
            BY <2>16, <6>1, <6>2
        <5>4. Len(s) \in 0..Len(s) /\ \A k \in 0..Len(s) : k \in 0..Len(Append(s, x))
          BY <2>16
        <5> QED
          BY <5>2, <5>3, <5>4
      <4>4. ~Fused(u) => Passed(u)' = Len(s)
        BY <2>6, <2>16, <3>2, <4>1 DEF Passed
      <4> QED
        BY <3>1, <3>2, <4>1, <4>2, <4>3, <4>4
    <3>3. CASE u # v
      <4>1. delivered'[u] = delivered[u] /\ vis'[u] = vis[u]
        BY <2>10, <2>15, <3>3
      <4>2. Passed(u)' = Passed(u)
        BY <4>1 DEF Passed
      <4> QED
        BY <3>1, <4>1, <4>2 DEF Inv, Blocking
    <3> QED
      BY <3>2, <3>3
  <2> QED
    BY <1>1, <2>10, <2>12, <2>13, <2>20, <2>21, Handled DEF Inv
<1> QED
  BY <1>3, <1>4

-----------------------------------------------------------------------------
(* The blockers.                                                           *)
Blockers == [capacity : Nat, published : Seq(Nat), observed : Seq(Nat)]

LEMMA Trims ==
  ASSUME NEW q \in Seq(Nat), NEW n \in Nat
  PROVE  /\ B!Trim(q, n) \in Seq(Nat) /\ Len(B!Trim(q, n)) <= n
         /\ Len(B!Trim(q, n)) <= Len(q) /\ Len(B!Trim(q, n)) \in Nat
         /\ \A i \in 1..Len(B!Trim(q, n)) : B!Trim(q, n)[i] = q[i]
BY DEF B!Trim

LEMMA WindowTrims ==
  ASSUME NEW q \in Seq(Nat), NEW n \in Nat, NEW s, NEW last \in Nat, IsWindow(q, s, last)
  PROVE  IsWindow(B!Trim(q, n), s, last)
<1> DEFINE t == B!Trim(q, n)
<1>1. Len(t) <= Len(q) /\ Len(t) \in Nat /\ Len(q) \in Nat /\ \A i \in 1..Len(t) : t[i] = q[i]
  BY Trims
<1> HIDE DEF t
<1>2. IsWindow(t, s, last)
  BY <1>1, SMTT(40) DEF IsWindow
<1> QED
  BY <1>2 DEF t

LEMMA BlockerStep ==
  ASSUME Inv, NEW v \in Visitors, NEW b \in Blockers, DOMAIN blk' = Visitors,
         \A u \in Visitors : blk'[u] = IF u = v THEN b ELSE blk[u],
         delivered' = delivered, Len(b.published) <= b.capacity,
         \A u \in Visitors :
           /\ vis'[u].item = vis[u].item
           /\ u # v => vis'[u].rt = vis[u].rt,
         vis'[v].rt = vis[v].rt \/ vis'[v].rt \notin {"enqueue", "publish"},
         ~Fused(v) => /\ IsWindow(b.published, delivered[v], Passed(v)')
                      /\ \E i \in 0..Len(delivered[v]) :
                           IsWindow(b.observed, delivered[v], i)
  PROVE  Blocking'
<1> SUFFICES ASSUME NEW u \in Visitors
             PROVE  /\ blk'[u] \in Blockers
                    /\ Len(blk'[u].published) <= blk'[u].capacity
                    /\ vis'[u].rt \in {"enqueue", "publish"} =>
                         /\ ~Fused(u) /\ Len(delivered[u]) > 0
                         /\ vis'[u].item = delivered[u][Len(delivered[u])]
                    /\ ~Fused(u) =>
                         /\ IsWindow(blk'[u].published, delivered[u], Passed(u)')
                         /\ \E k \in 0..Len(delivered[u]) :
                              IsWindow(blk'[u].observed, delivered[u], k)
  BY DEF Blocking, Blockers
<1>1. CASE u = v
  BY <1>1 DEF Inv, Blocking
<1>2. CASE u # v
  <2>1. Passed(u)' = Passed(u)
    BY <1>2 DEF Passed
  <2> QED
    BY <1>2, <2>1 DEF Inv, Blocking, Blockers
<1> QED
  BY <1>1, <1>2

(* The blocker of a subscriber as it is.                                   *)
LEMMA IsBlocker ==
  ASSUME Inv, NEW v \in Visitors
  PROVE  /\ DOMAIN blk = Visitors /\ blk[v] \in Blockers
         /\ blk[v].capacity \in Nat /\ blk[v].published \in Seq(Nat)
         /\ blk[v].observed \in Seq(Nat) /\ Len(blk[v].published) <= blk[v].capacity
         /\ Len(delivered[v]) \in Nat /\ Passed(v) \in 0..Len(delivered[v])
         /\ ~Fused(v) => /\ IsWindow(blk[v].published, delivered[v], Passed(v))
                         /\ \E i \in 0..Len(delivered[v]) :
                              IsWindow(blk[v].observed, delivered[v], i)
<1>1. /\ DOMAIN blk = Visitors /\ blk[v] \in Blockers
      /\ Len(blk[v].published) <= blk[v].capacity
      /\ vis[v].rt \in {"enqueue", "publish"} => Len(delivered[v]) > 0
      /\ ~Fused(v) => /\ IsWindow(blk[v].published, delivered[v], Passed(v))
                      /\ \E i \in 0..Len(delivered[v]) :
                           IsWindow(blk[v].observed, delivered[v], i)
  BY DEF Inv, Blocking, Blockers
<1>2. Len(delivered[v]) \in Nat
  BY DEF Inv, Fetched
<1>3. Passed(v) \in 0..Len(delivered[v])
  BY <1>1, <1>2 DEF Passed
<1>4. /\ blk[v].capacity \in Nat /\ blk[v].published \in Seq(Nat)
      /\ blk[v].observed \in Seq(Nat)
  BY <1>1 DEF Blockers
<1> QED
  BY <1>1, <1>2, <1>3, <1>4

(* What a step that changes only a blocker leaves alone.                   *)
LEMMA OnlyBlocker ==
  ASSUME Inv, Blocking', Visiting',
         \A u \in Visitors :
           /\ vis'[u].added = vis[u].added /\ vis'[u].bufs = vis[u].bufs
           /\ vis'[u].fbuf = vis[u].fbuf /\ vis'[u].next = vis[u].next,
         UNCHANGED <<chan, sent, buffers, notifiers, handler, history>>
  PROVE  Inv'
<1>1. \A u \in Visitors :
        /\ vis'[u].added \in Nat /\ vis[u].added <= vis'[u].added
        /\ vis'[u].bufs = vis[u].bufs /\ vis'[u].fbuf = vis[u].fbuf
  BY Places DEF Inv, Visiting, IsVisitor
<1>2. Receiving' /\ Newest' /\ Fusing' /\ Filled'
  BY <1>1, Unchanged, Still DEF history
<1>3. Listed'
  BY StaysListed
<1>4. Fetched'
  <2>1. \A u \in Visitors : filled[u] \in Seq(Items(u)) /\ filled'[u] = filled[u]
    BY DEF Inv, Filled, history
  <2>2. \A u \in Visitors :
          /\ Len(filled[u]) \in Nat /\ Len(filled'[u]) \in Nat
          /\ Len(filled[u]) <= Len(filled'[u])
          /\ \A k \in 1..Len(filled[u]) : filled'[u][k] = filled[u][k]
    BY <2>1
  <2> QED
    BY <2>2, StaysFetched DEF Inv, history
<1> QED
  BY <1>2, <1>3, <1>4, Handled DEF Inv

LEMMA IsDone ==
  ASSUME NEW v \in Visitors, NEW u, IsVisitor(v, u), u.rt # "none"
  PROVE  LET w == Done(u) IN
         /\ IsVisitor(v, w) /\ w.added = u.added /\ w.bufs = u.bufs /\ w.fbuf = u.fbuf
         /\ w.next = u.next /\ w.item = u.item /\ w.rt = "yielded"
<1> DEFINE w == Done(u)
<1>1. /\ DOMAIN w = DOMAIN u /\ w.stage = u.stage /\ w.rt = "yielded" /\ w.added = u.added
      /\ w.fusion = u.fusion /\ w.bufs = u.bufs /\ w.fbuf = u.fbuf
      /\ w.next = u.next /\ w.item = u.item
  BY DEF Done, IsVisitor
<1> HIDE DEF w
<1>2. IsVisitor(v, w)
  BY <1>1 DEF IsVisitor, Reads, Steps
<1> QED
  BY <1>1, <1>2 DEF w

LEMMA EnqueueStep ==
  ASSUME Inv, NEW v \in Visitors, Enqueue(v)
  PROVE  Inv'
<1>1. /\ IsVisitor(v, vis[v]) /\ DOMAIN vis = Visitors /\ vis[v].rt = "enqueue"
      /\ UNCHANGED <<chan, sent, buffers, notifiers, blk, handler, history>>
  BY DEF Inv, Visiting, Enqueue, Step, owner, maps
<1>2. CASE B!Accepts(blk[v])
  <2> DEFINE w == [vis[v] EXCEPT !.rt = "publish"]
  <2>1. vis' = [vis EXCEPT ![v] = w]
    BY <1>2 DEF Enqueue, Step
  <2>2. /\ DOMAIN w = DOMAIN vis[v] /\ w.stage = vis[v].stage /\ w.rt = "publish"
        /\ w.added = vis[v].added /\ w.bufs = vis[v].bufs /\ w.fbuf = vis[v].fbuf
        /\ w.next = vis[v].next /\ w.item = vis[v].item /\ w.fusion = vis[v].fusion
        /\ w.stage \in {"callback", "up"}
    BY <1>1 DEF IsVisitor
  <2> HIDE DEF w
  <2> QED
    BY <1>1, <2>1, <2>2, Handled, Restages DEF Stages, Steps
<1>3. CASE ~B!Accepts(blk[v])
  <2> DEFINE w == Done(vis[v])
  <2>1. vis' = [vis EXCEPT ![v] = w]
    BY <1>3 DEF Enqueue, Step
  <2>2. /\ IsVisitor(v, w) /\ w.added = vis[v].added /\ w.bufs = vis[v].bufs
        /\ w.fbuf = vis[v].fbuf /\ w.next = vis[v].next /\ w.item = vis[v].item
        /\ w.rt = "yielded"
    BY <1>1, IsDone
  <2> HIDE DEF w
  <2>3. Visiting' /\ vis'[v] = w /\ \A u \in Visitors : u # v => vis'[u] = vis[u]
    BY <2>1, <2>2, VisitorStep DEF Inv
  <2>4. /\ \A u \in Visitors :
             /\ vis'[u].added = vis[u].added /\ vis'[u].bufs = vis[u].bufs
             /\ vis'[u].fbuf = vis[u].fbuf /\ vis'[u].next = vis[u].next
             /\ vis'[u].item = vis[u].item
             /\ u # v => vis'[u].rt = vis[u].rt
        /\ vis'[v].rt = "yielded"
    BY <2>2, <2>3
  <2>5. /\ Len(blk[v].published) = 0 /\ blk[v] \in Blockers /\ Len(delivered[v]) \in Nat
        /\ DOMAIN blk = Visitors /\ Len(blk[v].published) <= blk[v].capacity
        /\ ~Fused(v) => \E i \in 0..Len(delivered[v]) :
                          IsWindow(blk[v].observed, delivered[v], i)
    <3>1. /\ blk[v].published \in Seq(Nat) /\ Len(blk[v].published) <= blk[v].capacity
          /\ blk[v].capacity = 0
      BY <1>3, IsBlocker DEF B!Accepts
    <3>2. Len(blk[v].published) = 0
      BY <3>1
    <3> QED
      BY <3>1, <3>2, IsBlocker
  <2>6. Passed(v)' \in Nat
    BY <1>1, <2>4, <2>5 DEF Passed, history
  <2>7. IsWindow(blk[v].published, delivered[v], Passed(v)')
    BY <2>5, <2>6 DEF IsWindow
  <2>8. Blocking'
    BY <1>1, <2>4, <2>5, <2>7, BlockerStep DEF history
  <2> QED
    BY <1>1, <2>3, <2>4, <2>8, OnlyBlocker
<1> QED
  BY <1>2, <1>3

LEMMA PublishStep ==
  ASSUME Inv, NEW v \in Visitors, Publish(v)
  PROVE  Inv'
<1> DEFINE w == Done(vis[v])
           b == B!Enqueue(blk[v], vis[v].item)
<1>1. /\ IsVisitor(v, vis[v]) /\ DOMAIN vis = Visitors /\ vis[v].rt = "publish"
      /\ blk' = [blk EXCEPT ![v] = b] /\ vis' = [vis EXCEPT ![v] = w]
      /\ UNCHANGED <<chan, sent, buffers, notifiers, handler, history>>
  BY DEF Inv, Visiting, Publish, Step, maps
<1>2. /\ IsVisitor(v, w) /\ w.added = vis[v].added /\ w.bufs = vis[v].bufs
      /\ w.fbuf = vis[v].fbuf /\ w.next = vis[v].next /\ w.item = vis[v].item
      /\ w.rt = "yielded"
  BY <1>1, IsDone
<1> HIDE DEF w
<1>3. Visiting' /\ vis'[v] = w /\ \A u \in Visitors : u # v => vis'[u] = vis[u]
  BY <1>1, <1>2, VisitorStep DEF Inv
<1>4. /\ \A u \in Visitors :
           /\ vis'[u].added = vis[u].added /\ vis'[u].bufs = vis[u].bufs
           /\ vis'[u].fbuf = vis[u].fbuf /\ vis'[u].next = vis[u].next
           /\ vis'[u].item = vis[u].item
           /\ u # v => vis'[u].rt = vis[u].rt
      /\ vis'[v].rt = "yielded"
  BY <1>2, <1>3
<1> DEFINE s == delivered[v]
           q == blk[v].published
           m == vis[v].item
<1>5. /\ ~Fused(v) /\ Len(s) \in Nat /\ Len(s) > 0 /\ m = s[Len(s)] /\ Passed(v) = Len(s) - 1
  <2>1. /\ ~Fused(v) /\ Len(s) > 0 /\ m = s[Len(s)]
    BY <1>1 DEF Inv, Blocking
  <2> QED
    BY <1>1, <2>1, IsBlocker DEF Passed
<1>6. /\ DOMAIN blk = Visitors /\ blk[v] \in Blockers /\ q \in Seq(Nat)
      /\ blk[v].capacity \in Nat /\ IsWindow(q, s, Len(s) - 1)
      /\ \E i \in 0..Len(s) : IsWindow(blk[v].observed, s, i)
  BY <1>5, IsBlocker
<1>7. m \in Nat
  <2>1. s \in Seq(Items(v)) /\ Items(v) = Nat
    BY <1>5 DEF Inv, Fetched, Items
  <2> QED
    BY <1>5, <2>1
<1> DEFINE p == <<m>> \o q
           t == B!Trim(p, blk[v].capacity)
<1>8. b = [blk[v] EXCEPT !.published = t]
  BY DEF B!Enqueue
<1> HIDE DEF s, q, m, b
<1>9. /\ p \in Seq(Nat) /\ Len(p) = Len(q) + 1 /\ p[1] = m /\ Len(q) \in Nat
      /\ \A i \in 2..Len(p) : p[i] = q[i - 1]
  BY <1>6, <1>7
<1> HIDE DEF p
<1>10. IsWindow(p, s, Len(s))
  <2>1. Len(q) <= Len(s) - 1 /\ \A i \in 1..Len(q) : q[i] = s[(Len(s) - 1) + 1 - i]
    BY <1>6 DEF IsWindow
  <2>2. Len(p) <= Len(s)
    BY <1>5, <1>9, <2>1
  <2>3. ASSUME NEW i \in 1..Len(p) PROVE p[i] = s[Len(s) + 1 - i]
    <3>1. CASE i = 1
      BY <1>5, <1>9, <3>1
    <3>2. CASE i # 1
      <4>1. i \in 2..Len(p) /\ i - 1 \in 1..Len(q)
        BY <1>9, <3>2
      <4>2. (Len(s) - 1) + 1 - (i - 1) = Len(s) + 1 - i
        BY <1>5
      <4> QED
        BY <1>9, <2>1, <4>1, <4>2
    <3> QED
      BY <3>1, <3>2
  <2> QED
    BY <2>2, <2>3 DEF IsWindow
<1>11. IsWindow(t, s, Len(s))
  BY <1>5, <1>6, <1>9, <1>10, WindowTrims
<1>12. t \in Seq(Nat) /\ Len(t) <= blk[v].capacity
  BY <1>6, <1>9, Trims
<1> HIDE DEF t
<1>13. /\ b \in Blockers /\ b.published = t /\ b.capacity = blk[v].capacity
       /\ b.observed = blk[v].observed
  BY <1>6, <1>8, <1>12 DEF Blockers
<1>14. Passed(v)' = Len(s)
  BY <1>1, <1>4 DEF Passed, s, history
<1>15. /\ DOMAIN blk' = Visitors
       /\ \A u \in Visitors : blk'[u] = IF u = v THEN b ELSE blk[u]
  BY <1>1, <1>6
<1>16. Blocking'
  <2>1. ~Fused(v) => /\ IsWindow(b.published, delivered[v], Passed(v)')
                     /\ \E i \in 0..Len(delivered[v]) : IsWindow(b.observed, delivered[v], i)
    BY <1>6, <1>11, <1>13, <1>14 DEF s
  <2> QED
    BY <1>1, <1>4, <1>12, <1>13, <1>15, <2>1, BlockerStep DEF history
<1> QED
  BY <1>1, <1>3, <1>4, <1>16, OnlyBlocker

(* The owner's steps: whatever it makes of the blocker is still a window.  *)
LEMMA OwnerStep ==
  ASSUME Inv, NEW v \in Visitors, NEW b \in Blockers, NEW busy, Owner(v, b, busy),
         Len(b.published) <= b.capacity,
         ~Fused(v) => /\ IsWindow(b.published, delivered[v], Passed(v))
                      /\ \E i \in 0..Len(delivered[v]) :
                           IsWindow(b.observed, delivered[v], i)
  PROVE  Inv'
<1>1. /\ blk' = [blk EXCEPT ![v] = b]
      /\ UNCHANGED <<chan, sent, buffers, notifiers, vis, handler, history>>
  BY DEF Owner, maps
<1>2. DOMAIN blk = Visitors
  BY IsBlocker
<1>3. /\ DOMAIN blk' = Visitors
      /\ \A u \in Visitors : blk'[u] = IF u = v THEN b ELSE blk[u]
  BY <1>1, <1>2
<1>4. Passed(v)' = Passed(v)
  BY <1>1 DEF Passed, history
<1>5. /\ Visiting'
      /\ \A u \in Visitors :
           /\ vis'[u].added = vis[u].added /\ vis'[u].bufs = vis[u].bufs
           /\ vis'[u].fbuf = vis[u].fbuf /\ vis'[u].next = vis[u].next
           /\ vis'[u].item = vis[u].item /\ vis'[u].rt = vis[u].rt
  BY <1>1, StaysVisiting
<1>6. Blocking'
  BY <1>1, <1>3, <1>4, <1>5, BlockerStep DEF history
<1> QED
  BY <1>1, <1>5, <1>6, OnlyBlocker

LEMMA ObserveStep ==
  ASSUME Inv, NEW v \in Visitors, Observe(v)
  PROVE  Inv'
<1> DEFINE b == B!Observe(blk[v])
<1>1. blk[v] \in Blockers
  BY IsBlocker
<1>2. /\ b \in Blockers /\ b.published = blk[v].published
      /\ b.observed = blk[v].published /\ b.capacity = blk[v].capacity
  BY <1>1 DEF Blockers, B!Observe
<1>3. Owner(v, b, clearing)
  BY DEF Observe
<1> HIDE DEF b
<1> QED
  BY <1>2, <1>3, IsBlocker, OwnerStep

LEMMA SetHistoryDepthStep ==
  ASSUME Inv, NEW v \in Visitors, NEW depth \in Depths, SetHistoryDepth(v, depth)
  PROVE  Inv'
<1> DEFINE b == B!SetCapacity(blk[v], depth)
           t == B!Trim(blk[v].published, depth)
<1>1. /\ blk[v] \in Blockers /\ depth \in Nat /\ blk[v].published \in Seq(Nat)
      /\ Passed(v) \in Nat
  BY IsBlocker, DataFlowAssumption
<1>2. t \in Seq(Nat) /\ Len(t) <= depth
  BY <1>1, Trims
<1>3. ~Fused(v) => IsWindow(t, delivered[v], Passed(v))
  BY <1>1, IsBlocker, WindowTrims
<1>4. b = [blk[v] EXCEPT !.capacity = depth, !.published = t]
  BY DEF B!SetCapacity
<1>5. Owner(v, b, clearing)
  BY DEF SetHistoryDepth
<1> HIDE DEF b, t
<1>6. /\ b \in Blockers /\ b.published = t /\ b.capacity = depth
      /\ b.observed = blk[v].observed
  BY <1>1, <1>2, <1>4 DEF Blockers
<1> QED
  BY <1>2, <1>3, <1>5, <1>6, IsBlocker, OwnerStep

LEMMA ClearPublishedStep ==
  ASSUME Inv, NEW v \in Visitors, ClearPublished(v)
  PROVE  Inv'
<1> DEFINE b == B!ClearPublished(blk[v])
<1>1. blk[v] \in Blockers /\ blk[v].capacity \in Nat /\ Passed(v) \in Nat
  BY IsBlocker
<1>2. /\ b \in Blockers /\ b.published = <<>>
      /\ b.observed = blk[v].observed /\ b.capacity = blk[v].capacity
  <2> DEFINE q == <<>>
  <2>1. q \in Seq(Nat) /\ b = [blk[v] EXCEPT !.published = q]
    BY DEF B!ClearPublished
  <2> HIDE DEF q, b
  <2>2. /\ b \in Blockers /\ b.published = q /\ b.capacity = blk[v].capacity
        /\ b.observed = blk[v].observed
    BY <1>1, <2>1 DEF Blockers
  <2> QED
    BY <2>2 DEF q
<1>3. Owner(v, b, clearing \cup {v})
  BY DEF ClearPublished
<1> HIDE DEF b
<1>4. Len(b.published) <= b.capacity /\ IsWindow(b.published, delivered[v], Passed(v))
  BY <1>1, <1>2 DEF IsWindow
<1> QED
  BY <1>2, <1>3, <1>4, IsBlocker, OwnerStep

LEMMA ClearObservedStep ==
  ASSUME Inv, NEW v \in Visitors, ClearObserved(v)
  PROVE  Inv'
<1> DEFINE b == B!ClearObserved(blk[v])
<1>1. blk[v] \in Blockers /\ Len(delivered[v]) \in Nat
  BY IsBlocker
<1>2. /\ b \in Blockers /\ b.observed = <<>>
      /\ b.published = blk[v].published /\ b.capacity = blk[v].capacity
  <2> DEFINE q == <<>>
  <2>1. q \in Seq(Nat) /\ b = [blk[v] EXCEPT !.observed = q]
    BY DEF B!ClearObserved
  <2> HIDE DEF q, b
  <2>2. /\ b \in Blockers /\ b.observed = q /\ b.capacity = blk[v].capacity
        /\ b.published = blk[v].published
    BY <1>1, <2>1 DEF Blockers
  <2> QED
    BY <2>2 DEF q
<1>3. Owner(v, b, clearing \ {v})
  BY DEF ClearObserved
<1> HIDE DEF b
<1>4. 0 \in 0..Len(delivered[v]) /\ IsWindow(b.observed, delivered[v], 0)
  BY <1>1, <1>2 DEF IsWindow
<1> QED
  BY <1>2, <1>3, <1>4, IsBlocker, OwnerStep

-----------------------------------------------------------------------------
LEMMA IsNew ==
  ASSUME NEW size \in Nat
  PROVE  /\ IsBuffer(NewBuffer(size), size) /\ NewBuffer(size).tail = 0
         /\ Holds(NewBuffer(size), <<>>)
BY DEF NewBuffer, IsBuffer, Holds

(* A visitor that is to be created, or not.                                *)
Starts(v, st) == [NewVisitor(v) EXCEPT !.stage = st]

LEMMA IsNewVisitor ==
  ASSUME NEW v \in Visitors, NEW st \in {"none", "buffers"}, NEW w, w = Starts(v, st)
  PROVE  /\ IsVisitor(v, w) /\ w.rt = "none" /\ w.next = 0
         /\ Reads(v, w) = NewBuffer(QueueSize[v])
         /\ \A k \in 1..Len(Inputs[v]) : w.bufs[k] = NewBuffer(QueueSize[v])
<1> USE Places
<1>1. /\ w.stage = st /\ w.rt = "none" /\ w.next = 0 /\ w.added = 0 /\ w.fusion = FALSE
      /\ w.fbuf = NewBuffer(QueueSize[v])
      /\ w.bufs = [k \in 1..Len(Inputs[v]) |-> NewBuffer(QueueSize[v])]
      /\ DOMAIN w = {"stage", "added", "fusion", "bufs", "fbuf", "next", "item",
                     "rt", "state", "news", "missed"}
  BY DEF NewVisitor, Starts
<1>2. IsBuffer(NewBuffer(QueueSize[v]), QueueSize[v]) /\ NewBuffer(QueueSize[v]).tail = 0
  BY IsNew
<1>3. /\ DOMAIN w.bufs = 1..Len(Inputs[v])
      /\ \A k \in 1..Len(Inputs[v]) : w.bufs[k] = NewBuffer(QueueSize[v])
  BY <1>1
<1>4. Reads(v, w) = NewBuffer(QueueSize[v])
  BY <1>1, <1>3 DEF Reads
<1>5. IsVisitor(v, w)
  BY <1>1, <1>2, <1>3, <1>4 DEF IsVisitor, Stages, Steps
<1> QED
  BY <1>1, <1>3, <1>4, <1>5

LEMMA EmptySequence ==
  ASSUME NEW s, s = <<>>, NEW S
  PROVE  s \in Seq(S) /\ Len(s) = 0
OBVIOUS

LEMMA InitInv == Init => Inv
<1> SUFFICES ASSUME Init PROVE Inv
  OBVIOUS
<1> USE Places
<1>1. PICK program \in Programs :
        vis = [v \in Visitors |-> [NewVisitor(v) EXCEPT
                 !.stage = IF v \in program THEN @ ELSE "none"]]
  BY DEF Init
<1>2. ASSUME NEW v \in Visitors
      PROVE  /\ IsVisitor(v, vis[v]) /\ vis[v].rt = "none"
             /\ ReadBuffer(v) = NewBuffer(QueueSize[v])
             /\ \A k \in 1..Len(Inputs[v]) : vis[v].bufs[k] = NewBuffer(QueueSize[v])
  <2> DEFINE st == IF v \in program THEN "buffers" ELSE "none"
  <2>1. vis[v] = Starts(v, st) /\ st \in {"none", "buffers"}
    BY <1>1 DEF NewVisitor, Starts
  <2> HIDE DEF st
  <2> QED
    BY <2>1, IsNewVisitor DEF ReadBuffer, Reads
<1>3. Visiting
  BY <1>1, <1>2 DEF Visiting
<1>4. /\ \A c \in Channels :
           /\ chan[c] = Idle /\ sent[c] = 0 /\ buffers[c] = <<>>
           /\ handler[c] = [open |-> c \in Open, slots |-> 0, conn |-> FALSE]
      /\ \A v \in Visitors :
           /\ filled[v] = <<>> /\ delivered[v] = <<>> /\ blk[v] = B!NewBlocker(Depth)
      /\ \A v \in Fuseds : newest[v] = 0
  BY DEF Init
<1>5. Listed
  <2>1. <<>> \in Seq(Entries)
    OBVIOUS
  <2>2. buffers \in [Channels -> Seq(Entries)] /\ notifiers \in [Channels -> Seq(Entries)]
    BY <2>1 DEF Init
  <2>3. ASSUME NEW c \in Channels PROVE Len(buffers[c]) = 0
    <3>1. buffers[c] = <<>>
      BY <1>4
    <3> QED
      BY <3>1, EmptySequence
  <2> QED
    BY <2>2, <2>3 DEF Listed, Distinct
<1>6. Receiving
  <2>1. chan \in [Channels -> Threads] /\ sent \in [Channels -> Nat]
    BY IdleIsThread DEF Init
  <2>2. \A c \in Channels : IsThread(c, chan[c], sent[c])
    BY <1>4, IdleIsThread DEF IsThread
  <2>3. \A c \in Channels : sent[c] <= MaxMsgs[c]
    <3> TAKE c \in Channels
    <3>1. MaxMsgs[c] \in Nat /\ sent[c] = 0
      BY <1>4
    <3> QED
      BY <3>1
  <2> QED
    BY <2>1, <2>2, <2>3 DEF Receiving
<1>7. Handlers
  BY <1>4 DEF Handlers, Init
<1>8. Newest
  <2>1. newest \in [Fuseds -> Nat]
    BY DEF Init
  <2>2. ASSUME NEW v \in Fuseds
        PROVE  /\ vis[v].bufs[2].tail = 0 /\ newest[v] = 0
               /\ sent[Inputs[v][2]] = 0
    <3>1. v \in Visitors /\ Len(Inputs[v]) = 2 /\ Inputs[v][2] \in Channels
      OBVIOUS
    <3>2. vis[v].bufs[2] = NewBuffer(QueueSize[v]) /\ QueueSize[v] \in Nat
      BY <1>2, <3>1
    <3> QED
      BY <1>4, <3>1, <3>2, IsNew
  <2>3. \A c \in Channels : \A v \in Fuseds : chan[c].seen[v] = 0
    BY <1>4, IdleIsThread
  <2> QED
    BY <2>1, <2>2, <2>3 DEF Newest
<1>9. Fusing
  BY <1>4, IdleIsThread DEF Fusing
<1>10. Filled
  <2>1. DOMAIN filled = Visitors
    BY DEF Init
  <2>2. \A v \in Visitors : filled[v] \in Seq(Items(v)) /\ Len(filled[v]) = 0
    BY <1>4, EmptySequence
  <2>3. \A v \in Visitors : Holds(ReadBuffer(v), filled[v])
    BY <1>2, <1>4, IsNew
  <2> QED
    BY <2>1, <2>2, <2>3 DEF Filled, Ordered
<1>11. Fetched
  <2>1. DOMAIN delivered = Visitors
    BY DEF Init
  <2>2. \A v \in Visitors : delivered[v] \in Seq(Items(v)) /\ Len(delivered[v]) = 0
    BY <1>4, EmptySequence
  <2> QED
    BY <2>1, <2>2 DEF Fetched, Ordered
<1>12. Blocking
  <2>1. DOMAIN blk = Visitors
    BY DEF Init
  <2>2. /\ <<>> \in Seq(Nat) /\ Len(<<>>) = 0 /\ Depth \in Nat
    BY DataFlowAssumption
  <2>3. ASSUME NEW v \in Visitors
        PROVE  /\ blk[v] \in Blockers /\ Len(blk[v].published) <= blk[v].capacity
               /\ vis[v].rt = "none" /\ Passed(v) = 0 /\ Len(delivered[v]) = 0
               /\ IsWindow(blk[v].published, delivered[v], 0)
               /\ IsWindow(blk[v].observed, delivered[v], 0)
    <3>1. blk[v] = [capacity |-> Depth, published |-> <<>>, observed |-> <<>>]
      BY <1>4 DEF B!NewBlocker
    <3>2. vis[v].rt = "none" /\ Passed(v) = 0 /\ Len(delivered[v]) = 0
      BY <1>2, <1>4 DEF Passed
    <3> QED
      BY <2>2, <3>1, <3>2 DEF Blockers, IsWindow
  <2>4. ASSUME NEW v \in Visitors
        PROVE  /\ vis[v].rt \notin {"enqueue", "publish"}
               /\ IsWindow(blk[v].published, delivered[v], Passed(v))
               /\ \E i \in 0..Len(delivered[v]) :
                    IsWindow(blk[v].observed, delivered[v], i)
    BY <2>3
  <2> QED
    BY <2>1, <2>3, <2>4 DEF Blocking, Blockers
<1> QED
  BY <1>3, <1>5, <1>6, <1>7, <1>8, <1>9, <1>10, <1>11, <1>12 DEF Inv

LEMMA NextInv == Inv /\ [Next]_vars => Inv'
<1> SUFFICES ASSUME Inv, [Next]_vars PROVE Inv'
  OBVIOUS
<1>1. CASE UNCHANGED vars
  <2>1. UNCHANGED <<chan, sent, buffers, notifiers, vis, blk, history, handler>>
    BY <1>1 DEF vars, history
  <2> QED
    BY <2>1, Handled, Elsewhere
<1>2. ASSUME NEW c \in Channels,
             Receive(c) \/ Dispatching(c) \/ UseAfterFree(c) \/ Handling(c)
      PROVE  Inv'
  BY <1>2, ReceiveStep, LockBufferStep, FillStep, FuseStep, NotifyStep, ReturnStep,
     UseAfterFreeStep, ConnectStep, DisconnectStep DEF Dispatching, Handling
<1>3. ASSUME NEW v \in Visitors,
             \/ Creating(v) \/ Reallocating(v) \/ RemoveTask(v)
             \/ Fetching(v) \/ Owning(v)
      PROVE  Inv'
  <2>1. CASE Creating(v) \/ Reallocating(v)
    BY <2>1, AddBufferStep, AddNotifierStep, SetFusionCallbackStep, CreateTaskStep,
       RegisterNotifyCallbackStep, GetReceiverStep DEF Creating, Reallocating
  <2>2. CASE RemoveTask(v)
    BY <2>2, RemoveTaskStep
  <2>3. CASE Fetching(v)
    BY <2>3, RunStep, TryFetchStep, YieldStep, EnqueueStep, PublishStep DEF Fetching
  <2>4. CASE Owning(v)
    BY <2>4, ObserveStep, SetHistoryDepthStep, ClearPublishedStep, ClearObservedStep
       DEF Owning
  <2> QED
    BY <1>3, <2>1, <2>2, <2>3, <2>4
<1> QED
  BY <1>1, <1>2, <1>3 DEF Next

LEMMA Invariance == Spec => []Inv
BY InitInv, NextInv, PTL DEF Spec

(* From the invariant to the properties.                                   *)
LEMMA BuffersAreOK ==
  ASSUME NEW b, NEW size \in Nat, IsBuffer(b, size)
  PROVE  BufferOK(b)
BY DEF IsBuffer, BufferOK

LEMMA InvTypeOK == Inv => TypeOK
<1> SUFFICES ASSUME Inv PROVE TypeOK
  OBVIOUS
<1> USE Places
<1>1. ASSUME NEW c \in Channels
      PROVE  /\ DOMAIN chan[c] = DOMAIN Idle /\ chan[c].oppo \in BOOLEAN
             /\ chan[c].pc \in ChannelSteps /\ chan[c].msg \in 0..MaxMsgs[c]
             /\ chan[c].left \in 0..MaxSlots /\ chan[c].torn \in BOOLEAN
             /\ Range(chan[c].todo) \subseteq Entries
             /\ handler[c].slots \in 0..MaxSlots
  <2>1. /\ chan[c] \in Threads /\ IsThread(c, chan[c], sent[c])
        /\ sent[c] \in Nat /\ sent[c] <= MaxMsgs[c] /\ MaxMsgs[c] \in Nat
    BY DEF Inv, Receiving
  <2>2. DOMAIN chan[c] = DOMAIN Idle
    BY <2>1 DEF Threads, Idle
  <2>3. chan[c].msg \in 0..MaxMsgs[c]
    BY <2>1 DEF IsThread
  <2>4. Range(chan[c].todo) \subseteq Entries
    <3> DEFINE s == chan[c].todo
    <3>1. s \in Seq(Entries)
      BY <2>1 DEF Threads
    <3> HIDE DEF s
    <3>2. Range(s) \subseteq Entries
      BY <3>1 DEF Range
    <3> QED
      BY <3>2 DEF s
  <2>5. handler[c].slots \in 0..MaxSlots
    BY DEF Inv, Handlers
  <2> QED
    BY <2>1, <2>2, <2>3, <2>4, <2>5 DEF Threads
<1>2. ASSUME NEW v \in Visitors
      PROVE  /\ vis[v].stage \in Stages
             /\ \A k \in DOMAIN Inputs[v] : BufferOK(vis[v].bufs[k])
             /\ BufferOK(vis[v].fbuf)
             /\ vis[v].next \in 0..(ReadBuffer(v).tail + 1)
  <2>1. IsVisitor(v, vis[v]) /\ QueueSize[v] \in Nat
    BY DEF Inv, Visiting
  <2>2. DOMAIN Inputs[v] = 1..Len(Inputs[v])
    OBVIOUS
  <2>3. \A k \in DOMAIN Inputs[v] : BufferOK(vis[v].bufs[k])
    BY <2>1, <2>2, BuffersAreOK DEF IsVisitor
  <2>4. BufferOK(vis[v].fbuf)
    BY <2>1, BuffersAreOK DEF IsVisitor
  <2> QED
    BY <2>1, <2>3, <2>4 DEF IsVisitor, Reads, ReadBuffer
<1> QED
  BY <1>1, <1>2 DEF TypeOK

LEMMA InvInOrder == Inv => InOrder
<1> SUFFICES ASSUME Inv PROVE InOrder
  OBVIOUS
<1>1. ASSUME NEW v \in Visitors,
             NEW i \in DOMAIN delivered[v], NEW j \in DOMAIN delivered[v], i < j
      PROVE  Follows(v, delivered[v][i], delivered[v][j])
  <2>1. Ordered(v, delivered[v]) /\ delivered[v] \in Seq(Items(v))
    BY DEF Inv, Fetched
  <2>2. DOMAIN delivered[v] = 1..Len(delivered[v])
    BY <2>1
  <2> QED
    BY <1>1, <2>1, <2>2 DEF Ordered
<1> QED
  BY <1>1, InvTypeOK DEF InOrder, Follows, Msg

LEMMA InvPairsAreLatest == Inv => PairsAreLatest
<1> SUFFICES ASSUME Inv, NEW c \in Channels, chan[c].pc = "fuse",
                    NEW v, v = Head(chan[c].todo)[1]
             PROVE  /\ chan[c].pair[2] \in chan[c].seen[v]..newest[v]
                    /\ \A i \in DOMAIN filled[v] : filled[v][i][2] <= chan[c].pair[2]
  BY DEF PairsAreLatest
<1> USE Places
<1>1. /\ v \in Fuseds /\ v \in Visitors /\ Inputs[v][1] = c /\ FusingAt(c, v)
      /\ chan[c].pair[2] \in chan[c].seen[v]..newest[v]
  BY DEF Inv, Fusing, FusingAt
<1>2. /\ filled[v] \in Seq(Items(v))
      /\ \A i \in 1..Len(filled[v]) : IsFilled(v, filled[v][i])
  BY <1>1 DEF Inv, Filled
<1>3. DOMAIN filled[v] = 1..Len(filled[v])
  BY <1>2
<1> QED
  BY <1>1, <1>2, <1>3 DEF IsFilled

(* A window, as a sequence.                                                *)
LEMMA Windows ==
  ASSUME NEW S, NEW T, NEW queue \in Seq(T), NEW s \in Seq(S), NEW last \in 0..Len(s),
         IsWindow(queue, s, last)
  PROVE  /\ Len(queue) <= last
         /\ queue = Reverse(SubSeq(s, last - Len(queue) + 1, last))
<1> DEFINE n == Len(queue)
           sub == SubSeq(s, last - n + 1, last)
<1>1. n \in Nat /\ n <= last /\ last <= Len(s)
  BY DEF IsWindow
<1>2. Len(sub) = n
  BY <1>1
<1>3. \A k \in 1..n : sub[k] = s[last - n + k]
  BY <1>1
<1> HIDE DEF sub
<1>4. Reverse(sub) = [i \in 1..n |-> sub[(n - i) + 1]]
  BY <1>2 DEF Reverse
<1>5. ASSUME NEW i \in 1..n PROVE queue[i] = sub[(n - i) + 1]
  <2>1. (n - i) + 1 \in 1..n /\ last - n + ((n - i) + 1) = last + 1 - i
    BY <1>1
  <2>2. sub[(n - i) + 1] = s[last - n + ((n - i) + 1)]
    BY <1>3, <2>1
  <2>3. sub[(n - i) + 1] = s[last + 1 - i]
    BY <2>1, <2>2
  <2> QED
    BY <2>3 DEF IsWindow
<1>6. queue = [i \in 1..n |-> queue[i]]
  OBVIOUS
<1> QED
  BY <1>1, <1>4, <1>5, <1>6 DEF sub

LEMMA InvBlockerWindow == Inv => BlockerWindow
<1> SUFFICES ASSUME Inv, NEW v \in Visitors, ~Fused(v)
             PROVE
      LET b == blk[v]
          n == Len(delivered[v])
          last == IF vis[v].rt \in {"enqueue", "publish"} THEN n - 1 ELSE n
      IN /\ Len(b.published) <= b.capacity
         /\ Window(b.published, v, last)
         /\ B!GetLatestPublishedPtr(b) =
              IF B!IsPublishedEmpty(b) THEN B!nullptr ELSE delivered[v][last]
         /\ \E i \in 0..n : Window(b.observed, v, i)
         /\ \A k \in DOMAIN b.observed :
              b.observed[k] \in
                B!GetOldestObservedPtr(b)..B!GetLatestObservedPtr(b)
  BY Places DEF BlockerWindow
<1> DEFINE p == blk[v].published
           o == blk[v].observed
           s == delivered[v]
           n == Len(s)
           last == Passed(v)
<1>1. /\ p \in Seq(Nat) /\ o \in Seq(Nat) /\ Len(p) <= blk[v].capacity
      /\ IsWindow(p, s, last) /\ \E i \in 0..n : IsWindow(o, s, i)
  BY DEF Inv, Blocking
<1>2. s \in Seq(Nat) /\ Ordered(v, s)
  BY DEF Inv, Fetched, Items
<1>3. last \in 0..n
      /\ last = IF vis[v].rt \in {"enqueue", "publish"} THEN n - 1 ELSE n
  <2>1. vis[v].rt \in {"enqueue", "publish"} => n > 0
    BY DEF Inv, Blocking
  <2>2. n \in Nat
    BY <1>2
  <2> QED
    BY <2>1, <2>2 DEF Passed
<1> HIDE DEF p, o, s, last
<1>4. Len(p) <= last /\ p = Reverse(SubSeq(s, last - Len(p) + 1, last))
  BY <1>1, <1>2, <1>3, Windows
<1>5. B!Front(p) = IF p = <<>> THEN B!nullptr ELSE s[last]
  <2>1. CASE p = <<>>
    BY <2>1 DEF B!Front
  <2>2. CASE p # <<>>
    <3>1. 1 \in 1..Len(p)
      BY <1>1, <2>2
    <3>2. p[1] = s[last + 1 - 1] /\ last + 1 - 1 = last
      BY <1>1, <1>3, <3>1 DEF IsWindow
    <3> QED
      BY <2>2, <3>2 DEF B!Front
  <2> QED
    BY <2>1, <2>2
<1>6. PICK i \in 0..n : IsWindow(o, s, i)
  BY <1>1
<1>7. Len(o) <= i /\ o = Reverse(SubSeq(s, i - Len(o) + 1, i))
  BY <1>1, <1>2, <1>6, Windows
<1>8. ASSUME NEW k \in 1..Len(o) PROVE o[k] \in B!Back(o)..B!Front(o)
  <2>1. o # <<>> /\ Len(o) \in Nat /\ n \in Nat /\ i \in Nat /\ i <= n
        /\ k \in Nat /\ 1 <= k /\ k <= Len(o) /\ Len(o) <= i
    BY <1>1, <1>2, <1>7
  <2>2. B!Front(o) = o[1] /\ B!Back(o) = o[Len(o)]
    BY <2>1 DEF B!Front, B!Back
  <2>3. /\ o[1] = s[i + 1 - 1] /\ o[k] = s[i + 1 - k] /\ o[Len(o)] = s[i + 1 - Len(o)]
    BY <1>6, <2>1 DEF IsWindow
  <2>4. \A x, y \in 1..n : x <= y => s[x] <= s[y]
    <3> TAKE x, y \in 1..n
    <3>1. s[x] \in Nat /\ s[y] \in Nat
      BY <1>2
    <3>2. CASE x < y
      BY <1>2, <3>2 DEF Ordered, Follows, Msg
    <3> QED
      BY <3>1, <3>2
  <2>5. /\ i + 1 - 1 \in 1..n /\ i + 1 - k \in 1..n /\ i + 1 - Len(o) \in 1..n
        /\ i + 1 - Len(o) <= i + 1 - k /\ i + 1 - k <= i + 1 - 1
    BY <2>1
  <2>6. /\ s[i + 1 - Len(o)] <= s[i + 1 - k] /\ s[i + 1 - k] <= s[i + 1 - 1]
        /\ s[i + 1 - k] \in Nat /\ s[i + 1 - 1] \in Nat /\ s[i + 1 - Len(o)] \in Nat
    <3>1. \A x \in 1..n : s[x] \in Nat
      BY <1>2
    <3> QED
      BY <2>4, <2>5, <3>1
  <2> QED
    BY <2>2, <2>3, <2>6
<1>9. /\ Window(p, v, last) /\ Window(o, v, i) /\ DOMAIN o = 1..Len(o)
  BY <1>1, <1>4, <1>7 DEF Window, s
<1> QED
  BY <1>1, <1>3, <1>5, <1>6, <1>8, <1>9
     DEF p, o, s, B!GetLatestPublishedPtr, B!IsPublishedEmpty,
         B!GetOldestObservedPtr, B!GetLatestObservedPtr

(* Only a fetch moves the next index of a visitor.                         *)
LEMMA KeepsNext ==
  ASSUME Inv, NEW u \in Visitors, NEW w, vis' = [vis EXCEPT ![u] = w],
         w.next = vis[u].next
  PROVE  \A v \in Visitors : vis'[v].next = vis[v].next
<1>1. DOMAIN vis = Visitors
  BY DEF Inv, Visiting
<1> QED
  BY <1>1

LEMMA HasNext ==
  ASSUME Inv, NEW u \in Visitors
  PROVE  /\ DOMAIN vis = Visitors
         /\ {"stage", "added", "fusion", "bufs", "fbuf", "next", "item",
             "rt", "state", "news", "missed"} = DOMAIN vis[u]
BY DEF Inv, Visiting, IsVisitor

LEMMA ThreadKeepsNext ==
  ASSUME Inv, NEW c \in Channels,
         Receive(c) \/ Dispatching(c) \/ UseAfterFree(c) \/ Handling(c)
  PROVE  \A v \in Visitors : vis'[v].next = vis[v].next
<1> USE Places
<1>1. CASE Fill(c)
  <2>1. PICK e \in Entries : e = Head(chan[c].todo)
    <3>1. chan[c].todo # <<>> /\ chan[c].todo \in Seq(Entries)
      BY <1>1 DEF Fill, Inv, Receiving, IsThread, Threads
    <3> QED
      BY <3>1
  <2>2. CASE e[2] = 1 /\ vis[e[1]].fusion
    BY <1>1, <2>1, <2>2 DEF Fill, Callback
  <2>3. CASE ~(e[2] = 1 /\ vis[e[1]].fusion)
    <3> DEFINE w == [vis[e[1]] EXCEPT !.bufs[e[2]] = Put(@, chan[c].msg)]
    <3>1. vis' = [vis EXCEPT ![e[1]] = w]
      <4>1. Store(e[1], e[2], c)
        BY <1>1, <2>1, <2>3 DEF Fill
      <4> QED
        BY <4>1 DEF Store
    <3>2. e[1] \in Visitors
      BY DEF Entries
    <3>3. w.next = vis[e[1]].next
      BY <3>2, HasNext
    <3> HIDE DEF w
    <3> QED
      BY <3>1, <3>2, <3>3, KeepsNext
  <2> QED
    BY <2>2, <2>3
<1>2. CASE Fuse(c)
  <2> DEFINE u == Head(chan[c].todo)[1]
             w == [vis[u] EXCEPT !.fbuf = Put(@, chan[c].pair)]
  <2>1. vis' = [vis EXCEPT ![u] = w] /\ u \in Visitors
    BY <1>2 DEF Fuse, Inv, Fusing
  <2>2. w.next = vis[u].next
    BY <2>1, HasNext
  <2> HIDE DEF u, w
  <2> QED
    BY <2>1, <2>2, KeepsNext
<1>3. CASE Notify(c)
  <2>1. CASE chan[c].todo = <<>>
    BY <1>3, <2>1 DEF Notify
  <2>2. CASE chan[c].todo # <<>>
    <3> DEFINE u == Head(chan[c].todo)[1]
               torn == chan[c].torn
               w == NotifyTask(vis[u], torn)
    <3>1. vis' = [vis EXCEPT ![u] = w]
      BY <1>3, <2>2 DEF Notify
    <3>2. u \in Visitors
      <4>1. chan[c].todo \in Seq(Entries)
        BY DEF Inv, Receiving, Threads
      <4>2. Head(chan[c].todo) \in Entries
        BY <2>2, <4>1
      <4> QED
        BY <4>2 DEF Entries
    <3>3. w.next = vis[u].next
      BY <3>2, HasNext DEF NotifyTask
    <3> HIDE DEF u, w
    <3> QED
      BY <3>1, <3>2, <3>3, KeepsNext
  <2> QED
    BY <2>1, <2>2
<1>4. CASE Receive(c) \/ LockBuffer(c) \/ Return(c) \/ UseAfterFree(c) \/ Handling(c)
  BY <1>4 DEF Receive, LockBuffer, Return, UseAfterFree, Handling, Connect, Disconnect
<1> QED
  BY <1>1, <1>2, <1>3, <1>4 DEF Dispatching

LEMMA CreationKeepsNext ==
  ASSUME Inv, NEW u \in Visitors, Creating(u) \/ Reallocating(u) \/ RemoveTask(u)
  PROVE  \A v \in Visitors : vis'[v].next = vis[v].next
<1> DEFINE has == /\ DOMAIN vis = Visitors /\ "next" \in DOMAIN vis[u]
                  /\ \A v \in Visitors : v # u => vis'[v] = vis[v]
<1>1. DOMAIN vis = Visitors /\ "next" \in DOMAIN vis[u]
  BY HasNext
<1>2. CASE \E torn \in BOOLEAN : AddBuffer(u, torn)
  BY <1>1, <1>2 DEF AddBuffer
<1>3. CASE \E torn \in BOOLEAN : AddNotifier(u, torn)
  BY <1>1, <1>3 DEF AddNotifier
<1>4. CASE SetFusionCallback(u)
  BY <1>1, <1>4 DEF SetFusionCallback
<1>5. CASE CreateTask(u)
  BY <1>1, <1>5 DEF CreateTask
<1>6. CASE RegisterNotifyCallback(u)
  BY <1>1, <1>6 DEF RegisterNotifyCallback
<1>7. CASE RemoveTask(u)
  BY <1>1, <1>7 DEF RemoveTask
<1>8. CASE GetReceiver(u)
  BY <1>8 DEF GetReceiver
<1> QED
  BY <1>2, <1>3, <1>4, <1>5, <1>6, <1>7, <1>8 DEF Creating, Reallocating

LEMMA OthersKeepNext ==
  ASSUME Inv, NEW u \in Visitors,
         Run(u) \/ Yield(u) \/ Enqueue(u) \/ Publish(u) \/ Owning(u)
  PROVE  \A v \in Visitors : vis'[v].next = vis[v].next
<1>1. DOMAIN vis = Visitors /\ "next" \in DOMAIN vis[u]
  BY HasNext
<1>2. CASE Run(u)
  BY <1>1, <1>2 DEF Run, Step
<1>3. CASE Yield(u)
  BY <1>1, <1>3 DEF Yield, Step
<1>4. CASE Enqueue(u)
  <2> DEFINE w == IF B!Accepts(blk[u]) THEN [vis[u] EXCEPT !.rt = "publish"]
                  ELSE Done(vis[u])
  <2>1. w.next = vis[u].next
    BY <1>1 DEF Done
  <2>2. vis' = [vis EXCEPT ![u] = w]
    BY <1>4 DEF Enqueue, Step
  <2> HIDE DEF w
  <2> QED
    BY <2>1, <2>2, KeepsNext
<1>5. CASE Publish(u)
  BY <1>1, <1>5 DEF Publish, Step, Done
<1>6. CASE Owning(u)
  BY <1>6 DEF Owning, Observe, SetHistoryDepth, ClearPublished, ClearObserved, Owner
<1> QED
  BY <1>2, <1>3, <1>4, <1>5, <1>6

(* What moving it means.                                                   *)
Moved(v) ==
  LET n == vis[v].next  m == vis'[v].next IN m # n =>
    /\ m > n
    /\ delivered'[v] = Append(delivered[v], filled[v][m - 1])
    /\ m # n + 1 => /\ m - 1 = Len(filled[v])
                    /\ n = 0 \/ n <= ReadBuffer(v).head

LEMMA FetchMoves ==
  ASSUME Inv, NEW u \in Visitors, TryFetch(u)
  PROVE  \A v \in Visitors : Moved(v)
<1> USE Places
<1> DEFINE b == ReadBuffer(u)
           n == vis[u].next
           i == FetchIndex(b, n)
           x == At(b, i)
<1>1. /\ IsVisitor(u, vis[u]) /\ DOMAIN vis = Visitors /\ DOMAIN delivered = Visitors
      /\ "next" \in DOMAIN vis[u]
  BY HasNext DEF Inv, Visiting, Fetched
<1>2. CASE ~CanFetch(b, n)
  <2> DEFINE w == [vis[u] EXCEPT !.rt = "empty", !.missed = FALSE]
  <2>1. vis' = [vis EXCEPT ![u] = w]
    BY <1>2 DEF TryFetch, Step
  <2>2. w.next = n
    BY <1>1
  <2> HIDE DEF w
  <2> QED
    BY <2>1, <2>2, KeepsNext DEF Moved
<1>3. CASE CanFetch(b, n)
  <2>1. /\ IsBuffer(b, QueueSize[u]) /\ n \in 0..(b.tail + 1) /\ Holds(b, filled[u])
    BY <1>1 DEF ReadBuffer, Reads, IsVisitor, Inv, Filled
  <2>2. /\ i \in 1..Len(filled[u]) /\ i >= n /\ x = filled[u][i]
        /\ i # n => i = Len(filled[u]) /\ (n = 0 \/ n <= b.head)
    BY <1>3, <2>1, Fetches
  <2>3. n \in Nat /\ i \in Nat
    BY <2>1, <2>2 DEF IsBuffer
  <2>4. delivered'[u] = Append(delivered[u], x)
    BY <1>1, <1>3 DEF TryFetch
  <2>5. vis'[u].next = i + 1 /\ \A v \in Visitors : v # u => vis'[v] = vis[v]
    <3> DEFINE w == [vis[u] EXCEPT
                       !.next = NextIndex(i), !.item = x, !.missed = FALSE,
                       !.rt = IF Fused(u) THEN "yielded" ELSE "enqueue",
                       !.state = IF Fused(u) THEN "READY" ELSE @]
    <3>1. vis' = [vis EXCEPT ![u] = w]
      BY <1>3 DEF TryFetch, Step
    <3> HIDE DEF i, x
    <3>2. w.next = i + 1
      BY <1>1 DEF NextIndex
    <3> HIDE DEF w
    <3> QED
      BY <1>1, <3>1, <3>2
  <2>6. \A v \in Visitors : v # u => Moved(v)
    BY <2>5 DEF Moved
  <2>7. Moved(u)
    <3>1. (i + 1) - 1 = i /\ i + 1 > n /\ (i + 1 # n + 1 => i # n)
      BY <2>2, <2>3
    <3> HIDE DEF i, x
    <3> QED
      BY <2>2, <2>4, <2>5, <3>1 DEF Moved
  <2> QED
    BY <2>6, <2>7
<1> QED
  BY <1>2, <1>3

LEMMA StepMoves == Inv /\ [Next]_vars => \A v \in Visitors : Moved(v)
<1> SUFFICES ASSUME Inv, [Next]_vars PROVE \A v \in Visitors : Moved(v)
  OBVIOUS
<1>1. (\A v \in Visitors : vis'[v].next = vis[v].next) => \A v \in Visitors : Moved(v)
  BY DEF Moved
<1>2. CASE UNCHANGED vars
  BY <1>1, <1>2 DEF vars
<1>3. ASSUME NEW c \in Channels,
             Receive(c) \/ Dispatching(c) \/ UseAfterFree(c) \/ Handling(c)
      PROVE  \A v \in Visitors : Moved(v)
  BY <1>1, <1>3, ThreadKeepsNext
<1>4. ASSUME NEW u \in Visitors,
             \/ Creating(u) \/ Reallocating(u) \/ RemoveTask(u)
             \/ Fetching(u) \/ Owning(u)
      PROVE  \A v \in Visitors : Moved(v)
  <2>1. CASE TryFetch(u)
    BY <2>1, FetchMoves
  <2>2. CASE ~TryFetch(u)
    BY <1>1, <1>4, <2>2, CreationKeepsNext, OthersKeepNext DEF Fetching
  <2> QED
    BY <2>1, <2>2
<1> QED
  BY <1>2, <1>3, <1>4 DEF Next

-----------------------------------------------------------------------------
(* Every variable has its type, and the rings stay within their capacity   *)
(* (cache_buffer.h).                                                       *)
THEOREM TypeCorrect == Spec => []TypeOK
BY Invariance, InvTypeOK, PTL

(* Messages reach a visitor in order, once unless the sender is known, and *)
(* the pairs of a fused one go back on neither channel                     *)
(* (listener_handler.h:160, all_latest.h:134).                             *)
THEOREM OrderHolds == Spec => []InOrder
BY Invariance, InvInOrder, PTL

(* A pair is made with the latest message of the second channel, whatever  *)
(* is received between its choice and the write (all_latest.h:134).        *)
THEOREM PairsHold == Spec => []PairsAreLatest
BY Invariance, InvPairsAreLatest, PTL

(* The queues of a blocker are windows without a gap of what its           *)
(* subscriber was given, though the owner changes the depth and clears the *)
(* data between the test of the capacity and the queue                     *)
(* (blocker.h:243-266).                                                    *)
THEOREM WindowHolds == Spec => []BlockerWindow
BY Invariance, InvBlockerWindow, PTL

(* A fetch returns the message that was filled at its index, and leaves    *)
(* messages out only to jump to the newest (channel_buffer.h:41).          *)
THEOREM FetchHolds == Spec => FetchesNext
<1>1. Inv /\ [Next]_vars =>
        [\A v \in Visitors : LET n == vis[v].next  m == vis'[v].next IN m # n =>
           /\ m > n
           /\ delivered'[v] = Append(delivered[v], filled[v][m - 1])
           /\ m # n + 1 => /\ m - 1 = Len(filled[v])
                           /\ n = 0 \/ n <= ReadBuffer(v).head]_vars
  BY StepMoves DEF Moved
<1> QED
  BY <1>1, Invariance, PTL DEF Spec, FetchesNext
=============================================================================
