----------------------------- MODULE DataStream -----------------------------
(* Serialisation: serialize/data_stream.cpp and data_stream.h. A stream is *)
(* m_buf, m_pos and m_byteorder. What is written is a type byte and the    *)
(* bytes of the value; a number is the sequence of its bytes, the most     *)
(* significant one first, and a machine keeps it in its own order. Reading *)
(* past the end is undefined in the code and is not described here. The    *)
(* members of a class and the elements of lists, maps and sets are numbers *)
(* here.                                                                   *)
EXTENDS Integers, SequencesExt

(* enum DataType; the byte of a type is written as its name.               *)
Numbers == {"BOOL", "CHAR", "INT32", "INT64", "UINT32", "UINT64", "FLOAT", "DOUBLE"}

Width(type) ==    \* sizeof
  IF type \in {"BOOL", "CHAR"} THEN 1
  ELSE IF type \in {"INT64", "UINT64", "DOUBLE"} THEN 8 ELSE 4

ByteOrders == {"BigEndian", "LittleEndian"}
InMemory(number, order) ==
  IF order = "BigEndian" THEN number ELSE Reverse(number)

Stream(buf, order) == [buf |-> buf, pos |-> 0, order |-> order]

-----------------------------------------------------------------------------
WriteBytes(s, bytes) == [buf |-> s.buf \o bytes, pos |-> s.pos, order |-> s.order]
Advance(s, len) == [buf |-> s.buf, pos |-> s.pos + len, order |-> s.order]
ReadBytes(s, len) == SubSeq(s.buf, s.pos + 1, s.pos + len)
At(s) == s.buf[s.pos + 1]          \* m_buf[m_pos]

(* std::reverse of the copy, on a machine that begins with the big end.    *)
Wire(image, order) == IF order = "BigEndian" THEN Reverse(image) ELSE image

Write(s, type, number) ==
  WriteBytes(s, <<type>> \o Wire(InMemory(number, s.order), s.order))

(* A value of another type is left where it is.                            *)
Read(s, type) ==
  IF At(s) # type THEN [ok |-> FALSE, value |-> <<>>, stream |-> s]
  ELSE [ok |-> TRUE,
        value |-> InMemory(Wire(ReadBytes(Advance(s, 1), Width(type)), s.order),
                           s.order),
        stream |-> Advance(s, 1 + Width(type))]

(* int len = size(), which is not negative.                                *)
Upper(n) == n \div 256
Lengths == {n \in Nat : Upper(Upper(Upper(n))) < 128}
Int32(n) == <<Upper(Upper(Upper(n))), Upper(Upper(n)) % 256, Upper(n) % 256, n % 256>>
ValueOf(b) == ((b[1] * 256 + b[2]) * 256 + b[3]) * 256 + b[4]

WriteString(s, chars) ==
  WriteBytes(Write(WriteBytes(s, <<"STRING">>), "INT32", Int32(Len(chars))), chars)

(* The length is read after the type byte; that it is an INT32 is not      *)
(* looked at, and a negative one cannot have been written.                 *)
ReadString(s) ==
  LET len == Read(Advance(s, 1), "INT32")
      n == ValueOf(len.value)
  IN IF At(s) # "STRING" THEN [ok |-> FALSE, value |-> <<>>, stream |-> s]
     ELSE [ok |-> TRUE, value |-> ReadBytes(len.stream, n),
           stream |-> Advance(len.stream, n)]

(* A vector is written as the memory of its elements, of which size() is   *)
(* taken for the number of bytes.                                          *)
WriteVector(s, memory, size) ==
  WriteBytes(Write(WriteBytes(s, <<"VECTOR">>), "INT32", Int32(size)),
             SubSeq(memory, 1, size))

(* resize() fills the elements with zeros.                                 *)
Resized(bytes, width) == bytes \o [i \in 1..(Len(bytes) * (width - 1)) |-> 0]
ReadVector(s, width) ==
  LET len == Read(Advance(s, 1), "INT32")
      n == ValueOf(len.value)
  IN IF At(s) # "VECTOR" THEN [ok |-> FALSE, value |-> <<>>, stream |-> s]
     ELSE [ok |-> TRUE,
           value |-> Resized(ReadBytes(len.stream, n), width),
           stream |-> Advance(len.stream, n)]

(* write_args and read_args: one after the other, whether an earlier one   *)
(* was read or not. One that was not is <<>>, which stands for what the    *)
(* variable held before.                                                   *)
WriteArgs(s, args) == FoldLeft(LAMBDA t, x : Write(t, x.type, x.number), s, args)
ReadArg(r, type) ==
  LET read == Read(r.stream, type)
  IN [values |-> Append(r.values, read.value), stream |-> read.stream]
ReadArgs(s, types) == FoldLeft(ReadArg, [values |-> <<>>, stream |-> s], types)

(* Lists, sets and maps: the type, the number of elements, and then each   *)
(* of them with its own type, those of a set or a map in their order. As   *)
(* for strings, nothing looks at the type of the length.                   *)
WriteElements(s, type, n, args) ==
  WriteArgs(Write(WriteBytes(s, <<type>>), "INT32", Int32(n)), args)
ReadElements(s, type, elem) ==
  LET len == Read(Advance(s, 1), "INT32")
      n == ValueOf(len.value)
      read == ReadArgs(len.stream, [i \in 1..(n * Len(elem)) |->
                                      elem[((i - 1) % Len(elem)) + 1]])
  IN IF At(s) # type THEN [ok |-> FALSE, values |-> <<>>, stream |-> s]
     ELSE [ok |-> TRUE, values |-> read.values, stream |-> read.stream]

WriteList(s, elem, numbers) ==
  WriteElements(s, "LIST", Len(numbers),
    [i \in 1..Len(numbers) |-> [type |-> elem, number |-> numbers[i]]])
ReadList(s, elem) == ReadElements(s, "LIST", <<elem>>)

WriteSet(s, elem, numbers) ==
  WriteElements(s, "SET", Len(numbers),
    [i \in 1..Len(numbers) |-> [type |-> elem, number |-> numbers[i]]])
ReadSet(s, elem) ==
  LET read == ReadElements(s, "SET", <<elem>>)
  IN [ok |-> read.ok, value |-> ToSet(read.values), stream |-> read.stream]

(* pairs: the keys and the values, <<k, v>>, in the order of the keys.     *)
WriteMap(s, types, pairs) ==
  WriteElements(s, "MAP", Len(pairs),
    [i \in 1..(2 * Len(pairs)) |->
       LET j == 2 - (i % 2)
       IN [type |-> types[j], number |-> pairs[(i + 1) \div 2][j]]])
ReadMap(s, types) ==
  LET read == ReadElements(s, "MAP", types)
      keys == {read.values[i] : i \in {k \in DOMAIN read.values : k % 2 = 1}}
      Final(k) == SelectLastInSeq([i \in 1..(Len(read.values) \div 2) |->
                                   read.values[2 * i - 1]], LAMBDA x : x = k)
  IN [ok |-> read.ok, value |-> [k \in keys |-> read.values[2 * Final(k)]],
      stream |-> read.stream]

(* SERIALIZE: the type byte of an object is passed also when it is not     *)
(* CUSTOM, where unserialize gives up.                                     *)
WriteCustom(s) == WriteBytes(s, <<"CUSTOM">>)
ReadCustom(s) == [ok |-> At(s) = "CUSTOM", stream |-> Advance(s, 1)]
=============================================================================
