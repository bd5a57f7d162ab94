---------------------------- MODULE CacheBuffer ----------------------------
(* The ring that keeps the newest messages of a channel for one reader:    *)
(* data/cache_buffer.h, and the reads that data/channel_buffer.h builds on *)
(* it. Every operation runs under the mutex of the buffer, so each is one  *)
(* function of the buffer. The cursors are unbounded (64 bits wide).       *)
EXTENDS Naturals

CONSTANT NULL      \* what a slot holds before it is filled

(* capacity_ is one more than the size asked for.                          *)
NewBuffer(size) ==
  [head |-> 0, tail |-> 0, capacity |-> size + 1,
   buffer |-> [i \in 0..size |-> NULL]]

HeadIndex(b) == b.head + 1      \* Head()
Empty(b) == b.tail = 0
FullTooLate(b) == b.capacity = b.tail - b.head    \* off by one
Full(b) == b.capacity - 1 = b.tail - b.head
At(b, pos) == b.buffer[pos % b.capacity]

(* Fill, when there is no fusion callback.                                 *)
Put(b, value) ==
  IF Full(b)
  THEN [b EXCEPT !.buffer[b.head % b.capacity] = value,
                 !.head = @ + 1, !.tail = @ + 1]
  ELSE [b EXCEPT !.buffer[(b.tail + 1) % b.capacity] = value, !.tail = @ + 1]

(* ChannelBuffer::Fetch(index): whether there is something to read, and    *)
(* the index it is read at. An index that was overwritten jumps to the     *)
(* newest message.                                                         *)
CanFetch(b, index) == ~Empty(b) /\ index # b.tail + 1
FetchIndexKept(b, index) ==    \* does not notice that it was overwritten
  IF index = 0 THEN b.tail ELSE index
FetchIndex(b, index) ==
  IF index = 0 \/ index < HeadIndex(b) THEN b.tail ELSE index

(* ChannelBuffer::Latest, of a buffer that is not empty.                   *)
Oldest(b) == At(b, HeadIndex(b))     \* Front() for Back()
Latest(b) == At(b, b.tail)
=============================================================================
