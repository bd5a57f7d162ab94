----------------------------- MODULE NodeManager ------------------------------
(***************************************************************************)
(* The nodes of the system as each process knows them:                     *)
(* discovery/specific_manager/node_manager.cpp with the Join, Leave,       *)
(* OnRemoteChange, Write and Shutdown of manager.cpp, its warehouse        *)
(* single_value_warehouse.cpp, and the constructor and destructor of       *)
(* NodeChannelImpl that call them.                                         *)
(*                                                                         *)
(* A node is made and destroyed by its own thread; each process has one    *)
(* Fast-RTPS thread for the changes of the others and for the departure of *)
(* a participant. Every call of the warehouse takes its lock once, so a    *)
(* change is disposed in up to three steps. A role is known by its node    *)
(* and carries the time of its change; the clocks of two machines need not *)
(* agree. As in Topology the network is ordered and best effort; a change  *)
(* comes back to its own process too. No slot of the repository listens to *)
(* these changes: Notify is left out.                                      *)
(***************************************************************************)
EXTENDS Naturals, Sequences, FiniteSets

CONSTANTS
  Proc,        \* processes that take part in the discovery
  Node,        \* node objects, each made at most once; none has an empty name
  ProcOf,      \* ProcOf[n]: the process of node n
  NameOf,      \* NameOf[n]: its name, and so its node_id
  MaxStamp,    \* bound: timestamps are 1..MaxStamp
  MaxNodes,    \* bound: nodes that are made
  MaxEvents,   \* bound: nodes destroyed, changes lost and processes exited
               \* or shut down, together
  NONE

Name == {NameOf[n] : n \in Node}
Thread == Node \cup Proc
Home(t) == IF t \in Proc THEN t ELSE ProcOf[t]

VARIABLES
  pc,        \* where each thread is
  job,       \* the change a thread disposes and writes
  existing,  \* existing_node of DisposeJoin; name to remove of ParticipantLeft
  nodes,     \* nodes_: the role of a name
  net,       \* net[p][q]: changes written by p and not taken by q
  state,     \* of each process's manager; "exited" is the whole process
  gone,      \* gone[p]: exits that p has been told of
  faults,    \* number of changes lost, processes exited or shut down
  warned,    \* names each process was told to be terminated for
  heard,     \* history: nodes whose join each process has disposed
  removed,   \* history: names each process has removed
  stamp      \* history: timestamp of each node's join, 0 before

procVars == <<state, gone, faults>>
history == <<heard, removed, stamp>>
vars == <<pc, job, existing, nodes, net, procVars, warned, history>>

Roles == [node : Node, stamp : 1..MaxStamp]
Changes == [op : {"join", "leave"}, node : Node, stamp : 1..MaxStamp]
RoleOf(c) == [node |-> c.node, stamp |-> c.stamp]
Key(c) == NameOf[c.node]

(* What the constants must be; Tables assumes it of the instance.          *)
NodeAssumption ==
  /\ ProcOf \in [Node -> Proc] /\ Node \cap Proc = {}
  /\ MaxStamp \in Nat \ {0} /\ MaxNodes \in Nat /\ MaxEvents \in Nat
  /\ NONE \notin Node \cup Proc \cup Roles \cup Changes

Init ==
  /\ pc = [t \in Thread |-> IF t \in Proc THEN "idle" ELSE "new"]
  /\ job = [t \in Thread |-> NONE]
  /\ existing = [t \in Thread |-> NONE]
  /\ nodes = [p \in Proc |-> [k \in Name |-> NONE]]
  /\ net = [p \in Proc |-> [q \in Proc |-> <<>>]]
  /\ state = [p \in Proc |-> "on"]
  /\ gone = [p \in Proc |-> {}]
  /\ faults = 0
  /\ warned = [p \in Proc |-> {}]
  /\ heard = [p \in Proc |-> {}]
  /\ removed = [p \in Proc |-> {}]
  /\ stamp = [n \in Node |-> 0]

Made == {n \in Node : pc[n] # "new"}

Left == {n \in Node : pc[n] = "gone" \/ (job[n] # NONE /\ job[n].op = "leave")}
More == Cardinality(Left) + faults < MaxEvents

(* What a process is told of the nodes there are.                          *)
HasNode(p, k) == nodes[p][k] # NONE
GetNodes(p) == {nodes[p][k].node : k \in {i \in Name : HasNode(p, i)}}

Runs(t) == state[Home(t)] # "exited"
Goto(t, loc) == pc' = [pc EXCEPT ![t] = loc]
Store(p, k, r) == nodes' = [nodes EXCEPT ![p][k] = r]

-----------------------------------------------------------------------------
(* Dispose. Each step is one call of the warehouse, taken by the thread of *)
(* a node that joins or leaves or by the Fast-RTPS thread.                 *)

Disposed(t) ==
  /\ Goto(t, "write")
  /\ heard' = [heard EXCEPT ![Home(t)] = @ \cup {job[t].node}]

(* Add(key, node, false).                                                  *)
AddNode(t) ==
  /\ pc[t] = "add" /\ Runs(t)
  /\ IF HasNode(Home(t), Key(job[t]))
     THEN Goto(t, "search") /\ UNCHANGED <<nodes, heard>>
     ELSE Store(Home(t), Key(job[t]), RoleOf(job[t])) /\ Disposed(t)
  /\ UNCHANGED <<job, existing, net, procVars, warned, removed, stamp>>

SearchNode(t) ==
  /\ pc[t] = "search" /\ Runs(t)
  /\ existing' = [existing EXCEPT ![t] = nodes[Home(t)][Key(job[t])]]
  /\ Goto(t, "compare")
  /\ UNCHANGED <<job, nodes, net, procVars, warned, history>>

(* Mutant: the later node is taken for the earlier one. *)
IsLaterThan(role, other) == role.stamp > other.stamp

IsEarlierThan(role, other) == role.stamp < other.stamp

(* The earlier of the two nodes stays; the process of the newer one should *)
(* end. A node that is not there any more is stored over.                  *)
CompareNodes(t) ==
  LET p == Home(t)
      k == Key(job[t])
      node == RoleOf(job[t])
      replace == existing[t] = NONE \/ IsEarlierThan(node, existing[t])
      newer_node == IF replace THEN existing[t] ELSE node
  IN /\ pc[t] = "compare" /\ Runs(t)
     /\ IF replace THEN Store(p, k, node) ELSE UNCHANGED nodes
     /\ warned' = [warned EXCEPT ![p] =
          IF newer_node # NONE /\ ProcOf[newer_node.node] = p
          THEN @ \cup {k} ELSE @]
     /\ existing' = [existing EXCEPT ![t] = NONE]
     /\ Disposed(t)
     /\ UNCHANGED <<job, net, procVars, removed, stamp>>

(* Whoever leaves, the name goes.                                          *)
Remove(p, k) ==
  /\ Store(p, k, NONE)
  /\ removed' = [removed EXCEPT ![p] = @ \cup {k}]

DisposeLeave(t) ==
  /\ pc[t] = "remove" /\ Runs(t)
  /\ Remove(Home(t), Key(job[t]))
  /\ Goto(t, "write")
  /\ UNCHANGED <<job, existing, net, procVars, warned, heard, stamp>>

Dispose(t, c) ==
  /\ job' = [job EXCEPT ![t] = c]
  /\ Goto(t, IF c.op = "join" THEN "add" ELSE "remove")

-----------------------------------------------------------------------------
(* A node: NodeChannelImpl(node_name) and ~NodeChannelImpl. A manager that *)
(* has been shut down returns at once. Nobody looks at the time of a leave.*)

Announce(n, op, done) ==
  /\ Runs(n)
  /\ IF state[ProcOf[n]] = "on"
     THEN \E now \in IF op = "join" THEN 1..MaxStamp ELSE {stamp[n]} :
            /\ Dispose(n, [op |-> op, node |-> n, stamp |-> now])
            /\ stamp' = [stamp EXCEPT ![n] = now]
     ELSE Goto(n, done) /\ UNCHANGED <<job, stamp>>
  /\ UNCHANGED <<existing, nodes, net, procVars, warned, heard, removed>>

Join(n) ==
  /\ pc[n] = "new" /\ Cardinality(Made) < MaxNodes
  /\ Announce(n, "join", "joined")
Leave(n) == pc[n] = "joined" /\ More /\ Announce(n, "leave", "gone")

(* Mutant: only joins are written. *)
WritesJoins(p, c) == state[p] # "stopped" /\ c.op = "join"

(* NeedPublish, and is_discovery_started_ in Write. The test and the use   *)
(* of writer_ are one step: a StopDiscovery between them, which takes      *)
(* writer_ away, is left out.                                              *)
Writes(p, c) == state[p] # "stopped"

Listening(q) == state[q] \in {"on", "shutdown"}

Write(n) ==
  /\ n \in Node /\ pc[n] = "write" /\ Runs(n)
  /\ IF Writes(ProcOf[n], job[n])
     THEN net' = [net EXCEPT ![ProcOf[n]] =
            [q \in Proc |-> IF Listening(q) THEN Append(@[q], job[n]) ELSE @[q]]]
     ELSE UNCHANGED net
  /\ Goto(n, IF job[n].op = "join" THEN "joined" ELSE "gone")
  /\ job' = [job EXCEPT ![n] = NONE]
  /\ UNCHANGED <<existing, nodes, procVars, warned, history>>

-----------------------------------------------------------------------------
(* The Fast-RTPS thread of a process *)

(* Mutant: a process takes its own changes for those of another. *)
NeverFromSameProcess(p, c) == FALSE

IsFromSameProcess(p, c) == ProcOf[c.node] = p

OnRemoteChange(p, q) ==
  /\ pc[p] = "idle" /\ Listening(p) /\ net[q][p] # <<>>
  /\ net' = [net EXCEPT ![q][p] = Tail(@)]
  /\ LET c == Head(net[q][p]) IN
     IF state[p] = "shutdown" \/ IsFromSameProcess(p, c)
     THEN UNCHANGED <<pc, job>>
     ELSE Dispose(p, c)
  /\ UNCHANGED <<existing, nodes, procVars, warned, history>>

HandlerReturns(p) ==
  /\ p \in Proc /\ pc[p] = "write" /\ Runs(p)
  /\ Goto(p, "idle")
  /\ job' = [job EXCEPT ![p] = NONE]
  /\ UNCHANGED <<existing, nodes, net, procVars, warned, history>>

(* OnTopoModuleLeave: the attributes searched for have the process that    *)
(* left but an unset node_id; it may be that of one of its nodes. What is  *)
(* found is removed by name, in a step of its own. It runs while discovery *)
(* is on, and on the thread of OnRemoteChange, not beside it.              *)
ParticipantLeft(p, q) ==
  /\ pc[p] = "idle" /\ state[p] = "on"
  /\ state[q] = "exited" /\ q \notin gone[p]
  /\ gone' = [gone EXCEPT ![p] = @ \cup {q}]
  /\ \/ UNCHANGED <<pc, existing>>
     \/ \E k \in Name :
          /\ HasNode(p, k) /\ ProcOf[nodes[p][k].node] = q
          /\ existing' = [existing EXCEPT ![p] = nodes[p][k]]
          /\ Goto(p, "expel")
  /\ UNCHANGED <<job, nodes, net, state, faults, warned, history>>

RemoveFound(p) ==
  /\ pc[p] = "expel" /\ Runs(p)
  /\ Remove(p, NameOf[existing[p].node])
  /\ existing' = [existing EXCEPT ![p] = NONE]
  /\ Goto(p, "idle")
  /\ UNCHANGED <<job, net, procVars, warned, heard, stamp>>

-----------------------------------------------------------------------------
(* Manager::Shutdown: is_shutdown_, then StopDiscovery. A process may also *)
(* exit without it.                                                        *)
Shutdown(p) ==
  /\ state[p] = "on" /\ More
  /\ state' = [state EXCEPT ![p] = "shutdown"] /\ faults' = faults + 1
  /\ UNCHANGED <<pc, job, existing, nodes, net, gone, warned, history>>

StopDiscovery(p) ==
  /\ state[p] = "shutdown" /\ pc[p] = "idle"    \* removeRTPSReader waits for it
  /\ state' = [state EXCEPT ![p] = "stopped"]
  /\ UNCHANGED <<pc, job, existing, nodes, net, gone, faults, warned, history>>

Exit(p) ==
  /\ state[p] \in {"on", "stopped"}
  /\ state[p] = "on" => More
  /\ faults' = IF state[p] = "on" THEN faults + 1 ELSE faults
  /\ state' = [state EXCEPT ![p] = "exited"]
  /\ UNCHANGED <<pc, job, existing, nodes, net, gone, warned, history>>

Lose(p, q) ==
  /\ net[p][q] # <<>> /\ More
  /\ net' = [net EXCEPT ![p][q] = Tail(@)]
  /\ faults' = faults + 1
  /\ UNCHANGED <<pc, job, existing, nodes, state, gone, warned, history>>

-----------------------------------------------------------------------------
DisposeStep(t) == AddNode(t) \/ SearchNode(t) \/ CompareNodes(t) \/ DisposeLeave(t)
HandlerStep(p) ==
  \/ DisposeStep(p) \/ HandlerReturns(p) \/ RemoveFound(p)
  \/ \E q \in Proc : OnRemoteChange(p, q) \/ ParticipantLeft(p, q)
NodeStep(n) == Join(n) \/ Leave(n) \/ Write(n) \/ DisposeStep(n)
Environment ==
  \E p \in Proc : \/ Shutdown(p) \/ StopDiscovery(p) \/ Exit(p)
                  \/ \E q \in Proc : Lose(p, q)

Next == Environment \/ (\E n \in Node : NodeStep(n))
                    \/ (\E p \in Proc : HandlerStep(p))

Spec == Init /\ [][Next]_vars

-----------------------------------------------------------------------------
(* Properties *)

(* Every variable has its type; a role is stored under its name.           *)
Locations == {"idle", "new", "add", "search", "compare", "remove", "write",
              "joined", "gone", "expel"}
TypeOK ==
  /\ pc \in [Thread -> Locations]
  /\ job \in [Thread -> Changes \cup {NONE}]
  /\ existing \in [Thread -> Roles \cup {NONE}]
  /\ nodes \in [Proc -> [Name -> Roles \cup {NONE}]]
  /\ \A p \in Proc : \A k \in Name :
       HasNode(p, k) => NameOf[nodes[p][k].node] = k
  /\ net \in [Proc -> [Proc -> Seq(Changes)]]
  /\ state \in [Proc -> {"on", "shutdown", "stopped", "exited"}]
  /\ gone \in [Proc -> SUBSET Proc] /\ faults \in Nat
  /\ warned \in [Proc -> SUBSET Name] /\ heard \in [Proc -> SUBSET Node]
  /\ removed \in [Proc -> SUBSET Name] /\ stamp \in [Node -> 0..MaxStamp]

Holds(p, n) == n \in GetNodes(p)
Namesakes(n) == {m \in Node : NameOf[m] = NameOf[n] /\ pc[m] # "new"}

(* A node whose name no other has had is in its process's map from its     *)
(* join to its leave, and not before or after: neither the echo of its own *)
(* broadcast, nor the departure of another process, nor a change disposed  *)
(* by the Fast-RTPS thread meanwhile alters that (Manager::OnRemoteChange, *)
(* NodeManager::DisposeJoin). A manager that was shut down keeps the nodes *)
(* it has.                                                                 *)
OwnNodes ==
  \A n \in Node : Namesakes(n) \subseteq {n} =>
    /\ pc[n] = "joined" /\ state[ProcOf[n]] = "on" => Holds(ProcOf[n], n)
    /\ pc[n] \in {"new", "add"} => ~Holds(ProcOf[n], n)
    /\ pc[n] = "gone" /\ state[ProcOf[n]] = "on" => ~Holds(ProcOf[n], n)

(* Two nodes of one name are noticed: the process of the newer one is told *)
(* so as soon as it has disposed both their joins, in whatever order these *)
(* came and whether or not they were disposed at once, provided that their *)
(* clocks tell them apart and the name was not removed in between          *)
(* (node_manager.cpp:72).                                                  *)
DuplicateIsNoticed ==
  \A a, b \in Node :
    (/\ Namesakes(a) = {a, b} /\ a # b /\ stamp[a] < stamp[b]
     /\ {a, b} \subseteq heard[ProcOf[b]]
     /\ NameOf[a] \notin removed[ProcOf[b]])
      => NameOf[b] \in warned[ProcOf[b]]

(* When all that was written has been disposed and nothing was lost, every *)
(* process knows the same nodes, those that have joined and have not left, *)
(* as far as no two have had one name (Write, OnRemoteChange, Dispose).    *)
Settled(p) ==
  /\ state[p] = "on" /\ pc[p] = "idle"
  /\ \A q \in Proc : net[q][p] = <<>>
AllAgree ==
  \A p \in Proc : \A n \in Node :
    (Settled(p) /\ faults = 0 /\ Namesakes(n) \subseteq {n}) =>
      /\ pc[n] = "joined" => Holds(p, n)
      /\ pc[n] \in {"new", "gone"} => ~Holds(p, n)
=============================================================================
