------------------------------- MODULE Topology ------------------------------
(***************************************************************************)
(* Service discovery: discovery/specific_manager/, discovery/role/,        *)
(* discovery/container/, and the way node/publisher.h and                  *)
(* node/subscriber.h use them. One channel is modelled; the warehouses and *)
(* the edges of the graph of two channels do not meet.                     *)
(*                                                                         *)
(* An endpoint (a Publisher or a Subscriber) is initialised and shut down  *)
(* by its own thread. Each process has one Fast-RTPS thread, which handles *)
(* the changes the processes broadcast and the departure of a participant. *)
(* A change is applied to the warehouses and the graph, then signalled to  *)
(* the slots that were connected when the signal was copied, then written  *)
(* to the network. The network is ordered and best effort                  *)
(* (endpoint.reliabilityKind): it may lose a change.                       *)
(*                                                                         *)
(* A change is received as it was sent (ChangesArrive says so of its       *)
(* bytes, in Foundations_proofs), but RoleAttributes does not serialise    *)
(* channel_id: whoever receives it reads an uninitialised one, a member of *)
(* Keys.                                                                   *)
(*                                                                         *)
(* The attributes of an endpoint have its node's id, which is the hash of  *)
(* the node's name and stands for it here, and a node_name of their own:   *)
(* FillInAttr assigns the 64-bit id to that string, which keeps one        *)
(* character. The warehouses are keyed by the id, the vertices of the      *)
(* graph are those characters.                                             *)
(***************************************************************************)
EXTENDS Naturals, Sequences, FiniteSets

CONSTANTS
  Proc,        \* processes that take part in the discovery
  Writer,      \* publishers of the channel
  Reader,      \* subscribers of the channel
  ProcOf,      \* ProcOf[e]: the process of endpoint e
  NodeOf,      \* NodeOf[e]: the node of endpoint e, by its name
  LowByte,     \* LowByte[n]: the character that node_id leaves of node n
  Keys,        \* outcomes of reading an unset channel_id
  MaxFaults,   \* bound: changes lost, processes exited and zero ids, together
  ZeroIds,     \* subscribers whose unset id may read as zero
  MaxCloses,   \* bound: endpoints that are shut down
  Exiting,     \* bound: processes that may exit without leaving
  NONE

Endpoint == Writer \cup Reader
Thread == Endpoint \cup Proc
AllKeys == Keys \cup {"channel"}
Changes == [op : {"join", "leave"}, role : Endpoint, key : AllKeys]

ASSUME TopologyAssumption ==
  /\ IsFiniteSet(Proc) /\ IsFiniteSet(Endpoint)
  /\ Writer \cap Reader = {} /\ Endpoint \cap Proc = {}
  /\ \A e \in Endpoint : ProcOf[e] \in Proc
  /\ ZeroIds \subseteq Endpoint /\ MaxFaults \in Nat
  /\ NONE \notin Changes \cup Endpoint

(* The node_name that FillInAttr gives to an endpoint. *)
VertexOf(e) == LowByte[NodeOf[e]]
Vertices == {VertexOf(e) : e \in Endpoint}

Home(t) == IF t \in Proc THEN t ELSE ProcOf[t]

VARIABLES
  pc,        \* where each thread is
  job,       \* the change a thread disposes, notifies and writes
  todo,      \* publishers a subscriber found and has still to enable
  valid,     \* readers whose id is not zero: Subscriber never sets it
  slots,     \* signal_ of each process: endpoints that are connected
  copy,      \* slots a thread has copied and not called yet
  cur,       \* the slot whose callback a thread is in
  roles,     \* channel_writers_ and channel_readers_: pairs <<endpoint, key>>
  nodeReaders, \* node_readers_: the same pairs, by node
  graph,     \* node_graph_: [src, dst, list] of the channel's edge
  links,     \* slots of signals_[writer] in the process's listener handler
  conn,      \* writers with an entry in signals_conns_ of that handler
  tx,        \* publishers whose transmitter is enabled
  net,       \* net[p][q]: changes written by p and not taken by q
  up,        \* processes that run
  gone,      \* gone[p]: exits that p has been told of
  crashed,   \* processes that called into an endpoint already shut down
  lost       \* history: changes lost or ignored

sigVars == <<slots, copy, cur>>
dataVars == <<roles, nodeReaders, graph>>
transVars == <<links, conn, tx>>
procVars == <<up, gone, crashed>>
vars == <<pc, job, todo, valid, sigVars, dataVars, transVars, net, procVars,
          lost>>

NoGraph == [src |-> {}, dst |-> {}, list |-> {}]

Init ==
  /\ pc = [t \in Thread |-> IF t \in Proc THEN "idle" ELSE "new"]
  /\ job = [t \in Thread |-> NONE]
  /\ todo = [r \in Reader |-> {}]
  /\ valid \in {Endpoint \ rs : rs \in SUBSET ZeroIds}
  /\ slots = [p \in Proc |-> {}]
  /\ copy = [t \in Thread |-> {}]
  /\ cur = [t \in Thread |-> NONE]
  /\ roles = [p \in Proc |-> {}] /\ nodeReaders = [p \in Proc |-> {}]
  /\ graph = [p \in Proc |-> NoGraph]
  /\ links = [p \in Proc |-> [w \in Writer |-> 0]]
  /\ conn = [p \in Proc |-> {}]
  /\ tx = {}
  /\ net = [p \in Proc |-> [q \in Proc |-> <<>>]]
  /\ up = Proc /\ gone = [p \in Proc |-> {}] /\ crashed = {} /\ lost = 0

Runs(t) == Home(t) \in up \ crashed
Closed == {e \in Endpoint : pc[e] # "new" /\ e \notin slots[Home(e)]}
Faults == lost + Cardinality(Proc \ up) + Cardinality(Endpoint \ valid)

-----------------------------------------------------------------------------
(* The graph: a writer's vertex is a source of the channel's edge, a       *)
(* reader's a destination; complete edges join every source to every       *)
(* destination. Endpoints whose ids end in the same byte share a vertex.   *)

InsertOutgoingEdge(g, n) ==
  IF n \in g.src THEN g
  ELSE [g EXCEPT !.src = @ \cup {n}, !.list = @ \cup ({n} \X g.dst)]
InsertIncomingEdge(g, n) ==
  IF n \in g.dst THEN g
  ELSE [g EXCEPT !.dst = @ \cup {n}, !.list = @ \cup (g.src \X {n})]
Insert(g, e) == IF e \in Writer THEN InsertOutgoingEdge(g, VertexOf(e))
                                ELSE InsertIncomingEdge(g, VertexOf(e))

(* Mutant: the complete edges stay when a vertex goes. *)
DeleteVertexOnly(g, e) ==
  IF e \in Writer THEN [g EXCEPT !.src = @ \ {VertexOf(e)}]
                  ELSE [g EXCEPT !.dst = @ \ {VertexOf(e)}]

DeleteOutgoingEdge(g, n) ==
  IF n \notin g.src THEN g
  ELSE [g EXCEPT !.src = @ \ {n}, !.list = @ \ ({n} \X g.dst)]
DeleteIncomingEdge(g, n) ==
  IF n \notin g.dst THEN g
  ELSE [g EXCEPT !.dst = @ \ {n}, !.list = @ \ (g.src \X {n})]
Delete(g, e) == IF e \in Writer THEN DeleteOutgoingEdge(g, VertexOf(e))
                                ELSE DeleteIncomingEdge(g, VertexOf(e))

(* LevelTraverse, breadth first; GetDirectionOf of two different vertices. *)
LevelTraverse(g, start, end) ==
  LET visited[i \in 0..Cardinality(Vertices)] ==
        IF i = 0 THEN {start}
        ELSE visited[i - 1] \cup
             {v \in Vertices : \E curr \in visited[i - 1] : <<curr, v>> \in g.list}
  IN end \in visited[Cardinality(Vertices)]
GetDirectionOf(g, lhs, rhs) ==
  IF LevelTraverse(g, lhs, rhs) THEN "UPSTREAM"
  ELSE IF LevelTraverse(g, rhs, lhs) THEN "DOWNSTREAM" ELSE "UNREACHABLE"

(* The warehouses, multimaps from a key to roles. Each operation takes the *)
(* lock once.                                                              *)
Add(warehouse, c) == warehouse \cup {<<c.role, c.key>>}
RemoveRole(warehouse, c) == warehouse \ {<<c.role, c.key>>}
Search(warehouse, key) == {e \in Endpoint : <<e, key>> \in warehouse}
SearchAttributes(warehouse, q) ==       \* of a process: at most one role
  {{}} \cup {{x} : x \in {y \in warehouse : ProcOf[y[1]] = q}}

DisposeRoles(warehouse, c) ==
  IF c.op = "join" THEN Add(warehouse, c) ELSE RemoveRole(warehouse, c)

(* Mutant: a leave does not reach the graph. *)
DisposeNoDelete(p, c) ==
  /\ roles' = [roles EXCEPT ![p] = DisposeRoles(@, c)]
  /\ graph' = [graph EXCEPT ![p] =
       IF c.op = "join" THEN Insert(@, c.role) ELSE @]
  /\ UNCHANGED nodeReaders

(* A role that leaves is removed where its key and its attributes match:   *)
(* also the channel_id, so a leave read under another key removes nothing. *)
(* node_writers_ always holds the writers of channel_writers_. Readers are *)
(* looked up in node_readers_ by channel_id though they are added by       *)
(* node_id: none is ever removed.                                          *)
Dispose(p, c) ==
  /\ roles' = [roles EXCEPT ![p] = DisposeRoles(@, c)]
  /\ nodeReaders' = [nodeReaders EXCEPT ![p] =
       IF c.op = "join" /\ c.role \in Reader
       THEN Add(@, c) ELSE @]
  /\ graph' = [graph EXCEPT ![p] =
       IF c.op = "join" THEN Insert(@, c.role) ELSE Delete(@, c.role)]

(* The queries take the name of a node. Two of them look its hash up among *)
(* the ids of the nodes and return the node_names of the endpoints found   *)
(* by the channel: the nodes that write what it reads, and that read what  *)
(* it writes. The third looks the names themselves up in the graph.        *)
GetUpstreamOfNode(p, n) ==
  IF \E x \in nodeReaders[p] : NodeOf[x[1]] = n
  THEN {VertexOf(w) : w \in Search(roles[p], "channel") \cap Writer} ELSE {}
GetDownstreamOfNode(p, n) ==
  IF \E x \in roles[p] : x[1] \in Writer /\ NodeOf[x[1]] = n   \* node_writers_
  THEN {VertexOf(r) : r \in Search(roles[p], "channel") \cap Reader} ELSE {}
GetFlowDirection(p, lhs, rhs) == GetDirectionOf(graph[p], lhs, rhs)

-----------------------------------------------------------------------------
(* Signal: Notify copies the slots, then calls those still connected.      *)

(* A publisher's callback returns at once unless a reader changes, a       *)
(* subscriber's unless a writer does.                                      *)
Attends(s, e) == (s \in Writer) # (e \in Writer)

NotifyCopy(t) ==
  /\ pc[t] = "notify" /\ Runs(t)
  /\ copy' = [copy EXCEPT
       ![t] = {s \in slots[Home(t)] : Attends(s, job[t].role)}]
  /\ pc' = [pc EXCEPT ![t] = "calling"]
  /\ UNCHANGED <<job, todo, valid, slots, cur, dataVars, transVars, net,
                 procVars, lost>>

CallSlot(t, s) ==
  /\ pc[t] = "calling" /\ Runs(t) /\ cur[t] = NONE /\ s \in copy[t]
  /\ copy' = [copy EXCEPT ![t] = @ \ {s}]
  /\ IF s \in slots[Home(t)] THEN cur' = [cur EXCEPT ![t] = s]
                              ELSE UNCHANGED cur
  /\ UNCHANGED <<pc, job, todo, valid, slots, dataVars, transVars, net,
                 procVars, lost>>

(* ListenerHandler: Connect adds a slot and keeps only the newest          *)
(* connection; Disconnect removes the slot of the one kept.                *)
Connect(p, w) ==
  /\ links' = [links EXCEPT ![p][w] = @ + 1]
  /\ conn' = [conn EXCEPT ![p] = @ \cup {w}]

Disconnect(p, w) ==
  /\ links' = IF w \in conn[p] THEN [links EXCEPT ![p][w] = @ - 1] ELSE links
  /\ conn' = [conn EXCEPT ![p] = @ \ {w}]

(* OnChannelChange, in the body of a slot that was found connected. The    *)
(* endpoint may have been shut down meanwhile: its receiver or transmitter *)
(* is a null pointer then.                                                 *)
OnChannelChange(t) ==
  /\ pc[t] = "calling" /\ Runs(t) /\ cur[t] # NONE
  /\ cur' = [cur EXCEPT ![t] = NONE]
  /\ LET s == cur[t]  c == job[t]  p == Home(t) IN
     \/ /\ pc[s] = "gone"
        /\ crashed' = crashed \cup {p}
        /\ UNCHANGED transVars
     \/ /\ pc[s] # "gone" /\ s \in Reader
        /\ IF c.op = "join" THEN Connect(p, c.role) ELSE Disconnect(p, c.role)
        /\ UNCHANGED <<tx, crashed>>
     \/ /\ pc[s] # "gone" /\ s \in Writer
        /\ tx' = IF c.op = "join" THEN tx \cup {s} ELSE tx \ {s}
        /\ UNCHANGED <<links, conn, crashed>>
  /\ UNCHANGED <<pc, job, todo, valid, slots, copy, dataVars, net, up, gone,
                 lost>>

Notified(t) == pc[t] = "calling" /\ Runs(t) /\ cur[t] = NONE /\ copy[t] = {}

-----------------------------------------------------------------------------
(* An endpoint: Init, JoinTheTopology, LeaveTheTopology, Shutdown *)

(* A node creates a publisher, or its only subscriber of the channel; its  *)
(* attributes are filled in and Init runs. CreateTransmitter enables the   *)
(* transmitter at once.                                                    *)
Create(e) == pc[e] = "new" /\ Runs(e)
CreateTransmitter(e) == IF e \in Writer THEN tx \cup {e} ELSE tx

AddChangeListener(e) ==
  /\ Create(e)
  /\ slots' = [slots EXCEPT ![Home(e)] = @ \cup {e}]
  /\ tx' = CreateTransmitter(e)
  /\ pc' = [pc EXCEPT ![e] = IF e \in Writer THEN "join" ELSE "listening"]
  /\ UNCHANGED <<job, todo, valid, copy, cur, dataVars, links, conn, net,
                 procVars, lost>>

(* Mutant: the writers that are there already are not enabled, as in       *)
(* Publisher::JoinTheTopology for the readers.                             *)
GetNoWriters(r) ==
  /\ pc[r] = "listening" /\ Runs(r)
  /\ pc' = [pc EXCEPT ![r] = "join"]
  /\ UNCHANGED <<job, todo, valid, sigVars, dataVars, transVars, net, procVars,
                 lost>>

GetWritersOfChannel(r) ==
  /\ pc[r] = "listening" /\ Runs(r)
  /\ todo' = [todo EXCEPT
       ![r] = Search(roles[Home(r)], "channel") \cap Writer]
  /\ pc' = [pc EXCEPT ![r] = "join"]
  /\ UNCHANGED <<job, valid, sigVars, dataVars, transVars, net, procVars, lost>>

EnableWriter(r, w) ==
  /\ pc[r] = "join" /\ Runs(r) /\ w \in todo[r]
  /\ Connect(Home(r), w)
  /\ todo' = [todo EXCEPT ![r] = @ \ {w}]
  /\ UNCHANGED <<pc, job, valid, sigVars, dataVars, tx, net, procVars, lost>>

(* Join and Leave: Check refuses a role whose id is zero. *)
Announce(e, op, refused) ==
  IF e \in valid
  THEN LET c == [op |-> op, role |-> e, key |-> "channel"] IN
       /\ Dispose(Home(e), c)
       /\ job' = [job EXCEPT ![e] = c]
       /\ pc' = [pc EXCEPT ![e] = "notify"]
  ELSE /\ pc' = [pc EXCEPT ![e] = refused]
       /\ UNCHANGED <<dataVars, job>>

Join(e) ==
  /\ pc[e] = "join" /\ Runs(e) /\ (e \in Reader => todo[e] = {})
  /\ Announce(e, "join", "joined")
  /\ UNCHANGED <<todo, valid, sigVars, transVars, net, procVars, lost>>

(* Mutant: a process takes its own changes for those of another. *)
NeverFromSameProcess(p, c) == FALSE

(* A change comes back to its own process too, where OnRemoteChange drops  *)
(* it at once: the model does not send it there.                           *)
IsFromSameProcess(p, c) == ProcOf[c.role] = p

(* Mutant: the change is not written to the network. *)
WriteNothing(e) ==
  /\ e \in Endpoint /\ Notified(e)
  /\ pc' = [pc EXCEPT ![e] = IF job[e].op = "join" THEN "joined" ELSE "gone"]
  /\ tx' = IF job[e].op = "leave" THEN tx \ {e} ELSE tx
  /\ job' = [job EXCEPT ![e] = NONE]
  /\ UNCHANGED <<todo, valid, sigVars, dataVars, links, conn, net, procVars,
                 lost>>

(* Manager::Write, the end of Join and of Leave; after the latter Shutdown *)
(* drops the receiver or the transmitter, whose destructor disables it.    *)
Write(e) ==
  /\ e \in Endpoint /\ Notified(e)
  /\ LET p == Home(e) IN
     net' = [net EXCEPT ![p] =
       [q \in Proc |-> IF q \in up /\ ~IsFromSameProcess(q, job[e])
                      THEN Append(@[q], job[e]) ELSE @[q]]]
  /\ pc' = [pc EXCEPT ![e] = IF job[e].op = "join" THEN "joined" ELSE "gone"]
  /\ tx' = IF job[e].op = "leave" THEN tx \ {e} ELSE tx
  /\ job' = [job EXCEPT ![e] = NONE]
  /\ UNCHANGED <<todo, valid, sigVars, dataVars, links, conn, procVars, lost>>

RemoveChangeListener(e) ==
  /\ pc[e] = "joined" /\ Runs(e)
  /\ Cardinality(Closed) < MaxCloses
  /\ slots' = [slots EXCEPT ![Home(e)] = @ \ {e}]
  /\ pc' = [pc EXCEPT ![e] = "leave"]
  /\ UNCHANGED <<job, todo, valid, copy, cur, dataVars, transVars, net,
                 procVars, lost>>

Leave(e) ==
  /\ pc[e] = "leave" /\ Runs(e)
  /\ Announce(e, "leave", "gone")
  /\ UNCHANGED <<todo, valid, sigVars, transVars, net, procVars, lost>>

-----------------------------------------------------------------------------
(* The Fast-RTPS thread of a process *)

Take(p, q) ==
  /\ pc[p] = "idle" /\ Runs(p) /\ net[q][p] # <<>>
  /\ net' = [net EXCEPT ![q][p] = Tail(@)]

(* OnRemoteChange: a change whose channel_id reads as zero fails Check.    *)
OnRemoteChange(p, q, k) ==
  /\ Take(p, q) /\ (k = "zero" => Faults < MaxFaults)
  /\ LET c == [Head(net[q][p]) EXCEPT !.key = k] IN
     IF k = "zero"
     THEN /\ lost' = lost + 1
          /\ UNCHANGED <<pc, job, dataVars>>
     ELSE /\ Dispose(p, c)
          /\ job' = [job EXCEPT ![p] = c]
          /\ pc' = [pc EXCEPT ![p] = "notify"]
          /\ UNCHANGED lost
  /\ UNCHANGED <<todo, valid, sigVars, transVars, procVars>>

HandlerReturns(p) ==
  /\ p \in Proc /\ Notified(p)
  /\ pc' = [pc EXCEPT ![p] = "idle"]
  /\ job' = [job EXCEPT ![p] = NONE]
  /\ UNCHANGED <<todo, valid, sigVars, dataVars, transVars, net, procVars, lost>>

(* TopologyManager::OnParticipantChange and OnTopoModuleLeave: the         *)
(* attributes searched for have the host and process that left, but an     *)
(* unset node_id, id and channel_id, and a role is found only where those  *)
(* three happen to be its own. (That they are those of a writer and of a   *)
(* reader at once is left out.)                                            *)
ParticipantLeft(p, q, found) ==
  /\ pc[p] = "idle" /\ Runs(p) /\ q \notin up \cup gone[p]
  /\ gone' = [gone EXCEPT ![p] = @ \cup {q}]
  /\ IF found = {}
     THEN UNCHANGED <<pc, job, dataVars>>
     ELSE \E x \in found :
            LET c == [op |-> "leave", role |-> x[1], key |-> x[2]] IN
            /\ Dispose(p, c)
            /\ job' = [job EXCEPT ![p] = c]
            /\ pc' = [pc EXCEPT ![p] = "notify"]
  /\ UNCHANGED <<todo, valid, sigVars, transVars, net, up, crashed, lost>>

Exit(p) ==
  /\ p \in (up \cap Exiting) \ crashed /\ Faults < MaxFaults
  /\ up' = up \ {p}
  /\ UNCHANGED <<pc, job, todo, valid, sigVars, dataVars, transVars, net, gone,
                 crashed, lost>>

Lose(p, q) ==
  /\ net[p][q] # <<>> /\ Faults < MaxFaults
  /\ net' = [net EXCEPT ![p][q] = Tail(@)]
  /\ lost' = lost + 1
  /\ UNCHANGED <<pc, job, todo, valid, sigVars, dataVars, transVars, procVars>>

-----------------------------------------------------------------------------
UserCalls ==
  \E e \in Endpoint : AddChangeListener(e) \/ RemoveChangeListener(e)

EndpointStep(e) ==
  \/ \E s \in Endpoint : CallSlot(e, s)
  \/ NotifyCopy(e) \/ OnChannelChange(e)
  \/ (e \in Reader /\ (GetWritersOfChannel(e)
                       \/ \E w \in Writer : EnableWriter(e, w)))
  \/ Join(e) \/ Write(e) \/ Leave(e)

HandlerStep(p) ==
  \/ \E s \in Endpoint : CallSlot(p, s)
  \/ NotifyCopy(p) \/ OnChannelChange(p) \/ HandlerReturns(p)
  \/ \E q \in Proc :
       \/ \E k \in Keys : OnRemoteChange(p, q, k)
       \/ \E found \in SearchAttributes(roles[p], q) :
            ParticipantLeft(p, q, found)

Environment == \E p \in Proc : Exit(p) \/ \E q \in Proc : Lose(p, q)

Next == UserCalls \/ Environment
        \/ (\E e \in Endpoint : EndpointStep(e))
        \/ (\E p \in Proc : HandlerStep(p))

Spec == Init /\ [][Next]_vars

(* Threads are scheduled by the operating system, and Fast-RTPS goes on    *)
(* delivering; nobody has to create or to close an endpoint.               *)
Fairness == /\ \A e \in Endpoint : WF_vars(EndpointStep(e))
            /\ \A p \in Proc : WF_vars(HandlerStep(p))
FairSpec == Spec /\ Fairness

-----------------------------------------------------------------------------
(* Properties *)

(* Type invariant: the graph has no vertex but those of endpoints, and a   *)
(* connection is never taken back more often than it was made.             *)
TypeOK ==
  /\ pc \in [Thread -> {"idle", "new", "listening", "join", "notify",
                        "calling", "joined", "leave", "gone"}]
  /\ job \in [Thread -> Changes \cup {NONE}]
  /\ todo \in [Reader -> SUBSET Writer] /\ valid \subseteq Endpoint
  /\ slots \in [Proc -> SUBSET Endpoint]
  /\ copy \in [Thread -> SUBSET Endpoint]
  /\ cur \in [Thread -> Endpoint \cup {NONE}]
  /\ roles \in [Proc -> SUBSET (Endpoint \X AllKeys)]
  /\ nodeReaders \in [Proc -> SUBSET (Reader \X AllKeys)]
  /\ graph \in [Proc -> [src : SUBSET Vertices, dst : SUBSET Vertices,
                         list : SUBSET (Vertices \X Vertices)]]
  /\ links \in [Proc -> [Writer -> Nat]]
  /\ conn \in [Proc -> SUBSET Writer] /\ tx \subseteq Writer
  /\ net \in [Proc -> [Proc -> Seq(Changes)]]
  /\ up \subseteq Proc /\ gone \in [Proc -> SUBSET Proc]
  /\ crashed \subseteq Proc /\ lost \in 0..MaxFaults

(* A process always finds its own endpoints, from the moment they have     *)
(* joined to the moment they leave, and never one that has left: no echo   *)
(* of an own broadcast and no late change of another process alters that   *)
(* (Join, Leave, OnRemoteChange).                                          *)
OwnRoles ==
  \A e \in valid : \A p \in Proc : p = Home(e) =>
    /\ pc[e] \in {"joined", "leave"} => <<e, "channel">> \in roles[p]
    /\ pc[e] \in {"new", "listening", "join", "gone"} =>
         \A k \in AllKeys : <<e, k>> \notin roles[p]

(* The graph and the warehouses agree, though nodes may share a vertex.    *)
(* There is an edge from each source of the channel to each of its         *)
(* destinations, and no other. Where the graph has one vertex upstream of  *)
(* another, some writer has the first for its node_name and some reader    *)
(* the second: an edge never outlives the last role of either end. And the *)
(* node of every such reader that asks for what is upstream of it is told  *)
(* the first vertex, the node of every such writer that asks for what is   *)
(* downstream the second, unless all the roles that would say so are       *)
(* stored under an unset channel_id. Of nodes that are asked for by their  *)
(* own names nothing is said: they are no vertices, and GetFlowDirection   *)
(* finds them unreachable (Dispose, Insert, Delete, GetFlowDirection).     *)
WritersIn(p, v) == {x \in roles[p] : x[1] \in Writer /\ VertexOf(x[1]) = v}
ReadersIn(p, v) == {x \in roles[p] : x[1] \in Reader /\ VertexOf(x[1]) = v}
Listed(xs) == \E x \in xs : x[2] = "channel"
EdgesAreBacked ==
  /\ TypeOK
  /\ \A p \in Proc : graph[p].list = graph[p].src \X graph[p].dst
  /\ \A p \in Proc : \A a, b \in Vertices :
       a # b /\ GetFlowDirection(p, a, b) = "UPSTREAM" =>
         /\ WritersIn(p, a) # {} /\ ReadersIn(p, b) # {}
         /\ Listed(WritersIn(p, a)) =>
              \A x \in ReadersIn(p, b) : a \in GetUpstreamOfNode(p, NodeOf[x[1]])
         /\ Listed(ReadersIn(p, b)) =>
              \A x \in WritersIn(p, a) : b \in GetDownstreamOfNode(p, NodeOf[x[1]])

(* No writer is missed: a subscriber that has joined is connected to every *)
(* writer its process has listed under the channel and that has not left,  *)
(* once the notification of that writer is over (JoinTheTopology registers *)
(* its listener before it reads the writers that are there already).       *)
Leaving(w) == job[w] # NONE /\ job[w].op = "leave"
Notifying(p, e) ==
  \E t \in Thread : Home(t) = p /\ job[t] # NONE /\ job[t].role = e
NoMissedWriter ==
  \A r \in Reader : \A w \in Writer :
    (/\ Runs(r) /\ pc[r] = "joined" /\ <<w, "channel">> \in roles[Home(r)]
     /\ pc[w] \notin {"leave", "gone"} /\ ~Leaving(w)
     /\ ~Notifying(Home(r), w))
       => w \in conn[Home(r)] /\ links[Home(r)][w] > 0

(* A writer that joins after a subscriber is discovered by it, in whatever *)
(* process, unless a change was lost or one of the two has stopped         *)
(* meanwhile (Join, Write, OnRemoteChange, Notify, OnChannelChange).       *)
Discovered ==
  \A r \in Reader : \A w \in Writer :
    (pc[r] = "joined" /\ pc[w] = "join" /\ Runs(r) /\ Runs(w))
      ~> \/ links[Home(r)][w] > 0
         \/ lost > 0 \/ pc[r] # "joined" \/ pc[w] \in {"leave", "gone"}
         \/ ~Runs(r) \/ ~Runs(w)

(* A publisher is able to transmit while a subscriber of its process has   *)
(* joined the channel, whoever else leaves it: a writer may serve many     *)
(* readers (listener_handler.h:120; Publisher::OnChannelChange).           *)
TransmitsToAll ==
  \A w \in Writer : \A r \in Reader \cap valid :
    (/\ Home(w) = Home(r) /\ pc[w] = "joined" /\ pc[r] = "joined"
     /\ Runs(w) /\ \A e \in Reader : ~Notifying(Home(r), e))
      => w \in tx
=============================================================================
