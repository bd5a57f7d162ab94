----------------------------- MODULE MCTopology ------------------------------
(* MCTopology.cfg: a publisher and a subscriber in two processes, with     *)
(* faults and closes (scene "pair"), or two publishers of nodes that share *)
(* a vertex and a subscriber in the other process, whose changes all       *)
(* arrive and are read as sent (scene "shared"). MCTransmitsToAll.cfg: a   *)
(* publisher and two subscribers in one process.                           *)
EXTENDS Topology, TLC

CONSTANTS p1, p2, w1, w2, r1, r2, n1, n2, n3, b1, b2
MCProcOf == w1 :> p1 @@ w2 :> p1 @@ r1 :> p2
MCProcOfLocal == w1 :> p1 @@ r1 :> p1 @@ r2 :> p1
MCNodeOf == w1 :> n1 @@ w2 :> n3 @@ r1 :> n2 @@ r2 :> n2
MCLowByte == n1 :> b1 @@ n2 :> b2 @@ n3 :> b1

VARIABLE scene

MCInit == Init /\ scene \in {"pair", "shared"}
MCNext ==
  /\ Next
  /\ scene = "pair" => \A w \in Writer \ {w1} : pc'[w] = "new"
  /\ scene = "shared" =>
       /\ Faults' = 0 /\ \A r \in Reader : pc'[r] # "leave"
       /\ \A p \in Proc : job'[p] # NONE => job'[p].key = "channel"
  /\ UNCHANGED scene

MCSpec == MCInit /\ [][MCNext]_<<vars, scene>> /\ Fairness
-----------------------------------------------------------------------------
(* On what the changes travel as: a join and a leave arrive as they were   *)
(* sent, between machines of any two byte orders (ChangeMsg), and strings  *)
(* and vectors of bytes do behind one another; but a vector of wider       *)
(* elements loses the rest of its memory (DataStream::write of vectors).   *)
S == INSTANCE ChangeMsg

ASSUME ChangesOfTwoMachines ==
  \A w, r \in S!ByteOrders : \A what \in {1, 2} : \A id \in [1..8 -> {7, 200}] :
    S!Unserialize(r, S!Serialize(w, <<0, 0, 0, what>>, id))
      = [operate_type |-> <<0, 0, 0, what>>, id |-> id]

ASSUME StringsAndVectors ==
  \A w, r \in S!ByteOrders : \A chars \in {<<>>, <<3>>, [i \in 1..300 |-> i % 256]} :
    LET written == S!WriteVector(S!WriteString(S!Stream(<<>>, w), chars),
                                 chars, Len(chars))
        string == S!ReadString(S!Stream(written.buf, r))
        vector == S!ReadVector(string.stream, 1)
    IN /\ string.ok /\ string.value = chars
       /\ vector.ok /\ vector.value = chars
       /\ vector.stream.pos = Len(written.buf)

ASSUME ListsSetsAndMaps ==
  \A w, r \in S!ByteOrders : \A n \in 0..3 :
    LET Number(i, width) == [j \in 1..width |-> 10 * i + j]
        ints == [i \in 1..n |-> Number(i, 4)]
        pairs == [i \in 1..n |-> <<Number(i, 8), Number(5 - i, 1)>>]
        lists == S!WriteList(S!Stream(<<>>, w), "FLOAT", ints \o ints)
        sets == S!WriteSet(lists, "INT32", ints)
        maps == S!WriteMap(sets, <<"UINT64", "CHAR">>, pairs)
        list == S!ReadList(S!Stream(maps.buf, r), "FLOAT")
        set == S!ReadSet(list.stream, "INT32")
        map == S!ReadMap(set.stream, <<"UINT64", "CHAR">>)
    IN /\ list.ok /\ list.values = ints \o ints
       /\ set.ok /\ set.value = {ints[i] : i \in 1..n}
       /\ map.ok /\ DOMAIN map.value = {pairs[i][1] : i \in 1..n}
       /\ \A i \in 1..n : map.value[pairs[i][1]] = pairs[i][2]
       /\ map.stream.pos = Len(maps.buf)

(* A member that was written with another type is left alone, and so are   *)
(* all that come after it: they are read from the byte where it stands.    *)
ASSUME LaterMembersAreLost ==
  LET written == S!WriteArgs(S!Stream(<<>>, "LittleEndian"),
                   <<[type |-> "CHAR", number |-> <<1>>],
                     [type |-> "INT32", number |-> <<0, 0, 0, 2>>],
                     [type |-> "CHAR", number |-> <<3>>]>>)
  IN S!ReadArgs(written, <<"CHAR", "UINT32", "CHAR">>).values = <<<<1>>, <<>>, <<>>>>

ASSUME WideElementsAreLost ==
  \A memory \in [1..4 -> 1..3] :      \* two elements of two bytes
    LET written == S!WriteVector(S!Stream(<<>>, "LittleEndian"), memory, 2)
    IN S!ReadVector(written, 2).value = <<memory[1], memory[2], 0, 0>>
=============================================================================
