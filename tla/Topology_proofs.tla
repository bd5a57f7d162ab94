--------------------------- MODULE Topology_proofs ---------------------------
(***************************************************************************)
(* What holds of the discovery (Topology) for every set of processes,      *)
(* publishers and subscribers, wherever these run and whatever is lost.    *)
(* The invariant comes first, in named parts; then lemmas on the graph,    *)
(* on the network and on what a step leaves alone; then a lemma for each   *)
(* action; and the theorems at the end.                                    *)
(***************************************************************************)
EXTENDS Topology, FiniteSetTheorems, FunctionTheorems,
  WellFoundedInduction, TLAPS

(* A thread has a change in hand while it notifies the slots: its own, in  *)
(* an endpoint, or one of another process, in a Fast-RTPS thread.          *)
Busy(t) == pc[t] \in {"notify", "calling"}
Working ==
  \A t \in Thread :
    /\ Busy(t) <=> job[t] # NONE
    /\ pc[t] # "calling" => copy[t] = {} /\ cur[t] = NONE
    /\ t \in Proc => /\ pc[t] \in {"idle", "notify", "calling"}
                     /\ Busy(t) => ProcOf[job[t].role] # t
    /\ t \in Endpoint => /\ pc[t] # "idle"
                         /\ Busy(t) => t \in valid /\ job[t].role = t

(* An endpoint is connected to the signal of its process from              *)
(* AddChangeListener to RemoveChangeListener.                              *)
Joining(e) == job[e] # NONE /\ job[e].op = "join"
Listens(e) == pc[e] \in {"listening", "join", "joined"} \/ Joining(e)
Listening ==
  \A e \in Endpoint : \A p \in Proc :
    e \in slots[p] <=> p = Home(e) /\ Listens(e)

(* A thread calls slots of its own process, and only those that attend.    *)
Calling ==
  \A t \in Thread : \A s \in Endpoint :
    s \in copy[t] \/ s = cur[t] => Home(s) = Home(t) /\ Attends(s, job[t].role)

(* A subscriber enables the writers it has found before it joins.          *)
Enabling == \A r \in Reader : todo[r] # {} => pc[r] = "join"

(* What a process has been sent: changes of endpoints of the sender, each  *)
(* written after its endpoint had disposed it.                             *)
Announcing(e) == pc[e] \in {"new", "listening", "join"} \/ Joining(e)
MaySend(q, p, c) ==
  /\ q # p /\ ProcOf[c.role] = q /\ ~Announcing(c.role)
  /\ c.op = "leave" => pc[c.role] = "gone"
Sent ==
  \A q, p \in Proc : \A i \in 1..Len(net[q][p]) : MaySend(q, p, net[q][p][i])

(* A process hears of a join at most once: it has a role of another        *)
(* process under one key, and none while the join is on its way.           *)
JoinAt(q, p, i, e) == net[q][p][i].role = e /\ net[q][p][i].op = "join"
Heard(e, p) ==
  LET q == Home(e) IN
    /\ \A i, j \in 1..Len(net[q][p]) :
         JoinAt(q, p, i, e) /\ JoinAt(q, p, j, e) => i = j
    /\ Announcing(e) \/ (\E i \in 1..Len(net[q][p]) : JoinAt(q, p, i, e))
         => \A k \in AllKeys : <<e, k>> \notin roles[p]
    /\ \A k, l \in AllKeys :
         <<e, k>> \in roles[p] /\ <<e, l>> \in roles[p] => k = l
HeardOnce == \A e \in Endpoint : \A p \in Proc \ {Home(e)} : Heard(e, p)

(* In its own process an endpoint is stored from its join to its leave.    *)
IsMember(e) == pc[e] \in {"joined", "leave"} \/ Joining(e)
Stored ==
  \A e \in valid : \A k \in AllKeys :
    <<e, k>> \in roles[Home(e)] <=> IsMember(e) /\ k = "channel"

(* The edges join the sources to the destinations, and whatever is one of  *)
(* these has a role; readers are never removed from node_readers_.         *)
Backed ==
  \A p \in Proc :
    /\ graph[p].list = graph[p].src \X graph[p].dst
    /\ \A n \in graph[p].src : WritersIn(p, n) # {}
    /\ \A n \in graph[p].dst : ReadersIn(p, n) # {}
    /\ \A x \in roles[p] : x[1] \in Reader => x \in nodeReaders[p]

(* A connection that is kept has its slot.                                 *)
Connected == \A p \in Proc : \A w \in conn[p] : links[p][w] > 0

(* A writer that a subscriber's process has listed is connected, or the    *)
(* subscriber has still to enable it, or is still to be called for it.     *)
Stays(w) == pc[w] \notin {"leave", "gone"} /\ ~Leaving(w)
WillCall(t, r, w) ==
  /\ Home(t) = Home(r) /\ Joining(t) /\ job[t].role = w
  /\ pc[t] = "notify" \/ r \in copy[t] \/ r = cur[t]
Told ==
  \A r \in Reader : \A w \in Writer :
    (/\ pc[r] \in {"join", "joined"} \/ Joining(r)
     /\ <<w, "channel">> \in roles[Home(r)] /\ Stays(w)) =>
      w \in conn[Home(r)] \cup todo[r] \/ \E t \in Thread : WillCall(t, r, w)

(* Whoever notifies that an endpoint leaves has forgotten it, or it does.  *)
Departing ==
  \A t \in Thread : Leaving(t) =>
    ~Stays(job[t].role) \/ <<job[t].role, "channel">> \notin roles[Home(t)]

Inv == /\ TypeOK /\ Working /\ Listening /\ Calling /\ Enabling
       /\ Sent /\ HeardOnce /\ Stored /\ Backed
       /\ Connected /\ Told /\ Departing

-----------------------------------------------------------------------------
(* The graph: LevelTraverse finds what an edge joins. Its rounds are       *)
(* analysed by way of the least number for which a claim would be false.   *)

Less == {ss \in Nat \X Nat : ss[1] < ss[2]}
LEMMA NatMin ==
  ASSUME NEW T, T \subseteq Nat, T # {}
  PROVE  \E x \in T : \A y \in T : x <= y
<1>1. IsWellFoundedOn(Less, Nat)
  BY NatLessThanWellFounded DEF OpToRel, Less
<1>2. PICK x \in T : \A y \in T : <<y, x>> \notin Less
  BY <1>1, WFMin
<1>3. ASSUME NEW y \in T PROVE x <= y
  <2>1. <<y, x>> \notin Less
    BY <1>2
  <2> QED
    BY <2>1 DEF Less
<1> QED
  BY <1>3

LEMMA FiniteVertices == IsFiniteSet(Vertices) /\ Cardinality(Vertices) \in Nat
<1> DEFINE f == [e \in Endpoint |-> VertexOf(e)]
<1>1. f \in Surjection(Endpoint, Vertices)
  BY DEF Surjection, Vertices
<1> HIDE DEF f
<1>2. IsFiniteSet(Vertices)
  BY <1>1, FS_Surjection, TopologyAssumption
<1> QED
  BY <1>2, FS_CardinalityType

(* The nodes that a breadth-first search has visited after i rounds.       *)
Round(g, start, f, i) ==
  IF i = 0 THEN {start}
  ELSE f[i - 1] \cup {n \in Vertices : \E curr \in f[i - 1] : <<curr, n>> \in g.list}

LEMMA Rounds ==
  ASSUME NEW g, NEW start, NEW N \in Nat
  PROVE  \E f : f = [i \in 0..N |-> Round(g, start, f, i)]
<1> DEFINE Bad == {n \in Nat : ~ \E f : f = [i \in 0..n |-> Round(g, start, f, i)]}
<1> SUFFICES ASSUME Bad # {} PROVE FALSE
  OBVIOUS
<1>1. PICK n \in Bad : \A m \in Bad : n <= m
  BY NatMin
<1>2. CASE n = 0
  <2> DEFINE f == [i \in 0..0 |-> {start}]
  <2>1. f = [i \in 0..0 |-> Round(g, start, f, i)]
    BY DEF Round
  <2> QED
    BY <1>1, <1>2, <2>1
<1>3. CASE n # 0
  <2>1. n - 1 \in Nat /\ n - 1 \notin Bad
    BY <1>1, <1>3
  <2>2. PICK f : f = [i \in 0..(n - 1) |-> Round(g, start, f, i)]
    BY <2>1
  <2> DEFINE h == [i \in 0..n |-> IF i < n THEN f[i] ELSE Round(g, start, f, n)]
  <2>3. \A i \in 0..n : h[i] = Round(g, start, h, i)
    <3> SUFFICES ASSUME NEW i \in 0..n PROVE h[i] = Round(g, start, h, i)
      OBVIOUS
    <3>1. i # 0 => h[i - 1] = f[i - 1]
      BY <2>1
    <3>2. Round(g, start, h, i) = Round(g, start, f, i)
      BY <3>1 DEF Round
    <3>3. i < n => f[i] = Round(g, start, f, i)
      BY <2>2, <2>1
    <3>4. h[i] = IF i < n THEN f[i] ELSE Round(g, start, f, n)
      OBVIOUS
    <3> QED
      BY <3>2, <3>3, <3>4, <2>1
  <2>4. h = [i \in 0..n |-> Round(g, start, h, i)]
    BY <2>3
  <2> QED
    BY <1>1, <2>4
<1> QED
  BY <1>2, <1>3

LEMMA Traversed ==
  ASSUME NEW g, NEW a, NEW b, a # b, g.list = g.src \X g.dst,
         LevelTraverse(g, a, b)
  PROVE  a \in g.src /\ b \in g.dst
<1> DEFINE N == Cardinality(Vertices)
           f == CHOOSE f : f = [i \in 0..N |-> Round(g, a, f, i)]
<1>1. N \in Nat
  BY FiniteVertices
<1> HIDE DEF N
<1>2. f = [i \in 0..N |-> Round(g, a, f, i)]
  BY <1>1, Rounds, SMTT(40)
<1>3. b \in f[N]
  BY Zenon DEF LevelTraverse, Round, N
<1> HIDE DEF f
<1> DEFINE Reached(i) == /\ f[i] \subseteq {a} \cup g.dst
                         /\ f[i] \subseteq {a} \/ a \in g.src
           Bad == {i \in 0..N : ~Reached(i)}
<1>4. Bad = {}
  <2> SUFFICES ASSUME Bad # {} PROVE FALSE
    OBVIOUS
  <2>0. Bad \subseteq Nat
    BY <1>1
  <2>1. PICK i \in Bad : \A j \in Bad : i <= j
    <3> HIDE DEF Bad
    <3> QED
      BY <2>0, NatMin
  <2>2. i # 0
    BY <1>1, <1>2, <2>1 DEF Round
  <2>3. i - 1 \in 0..N /\ Reached(i - 1)
    BY <1>1, <2>1, <2>2
  <2>4. f[i] = f[i - 1] \cup
                 {n \in Vertices : \E curr \in f[i - 1] : <<curr, n>> \in g.list}
    BY <1>1, <1>2, <2>1, <2>2 DEF Round
  <2>5. ASSUME NEW n \in f[i], n \notin f[i - 1]
        PROVE  n \in g.dst /\ a \in g.src
    <3>1. PICK curr \in f[i - 1] : <<curr, n>> \in g.list
      BY <2>4, <2>5
    <3>2. curr \in g.src /\ n \in g.dst
      BY <3>1
    <3> QED
      BY <2>3, <3>1, <3>2
  <2>6. Reached(i)
    BY <2>3, <2>4, <2>5
  <2> QED
    BY <2>1, <2>6
<1>5. Reached(N)
  BY <1>1, <1>4
<1> QED
  BY <1>3, <1>5

-----------------------------------------------------------------------------
LEMMA Places ==
  /\ \A t \in Thread : Home(t) \in Proc
  /\ \A p \in Proc : p \in Thread /\ p \notin Endpoint /\ Home(p) = p
  /\ \A e \in Endpoint : e \in Thread /\ e \notin Proc /\ Home(e) = ProcOf[e]
  /\ Writer \cap Reader = {} /\ Endpoint = Writer \cup Reader
  /\ NONE \notin Changes \cup Endpoint
  /\ \A c \in Changes : /\ c.role \in Endpoint /\ c.op \in {"join", "leave"}
                        /\ c.key \in AllKeys
BY TopologyAssumption DEF Home, Thread, Endpoint, Changes

(* What a step may do to an endpoint: it goes on from its join to its end. *)
Onwards ==
  \A e \in Endpoint : /\ Announcing(e)' => Announcing(e)
                      /\ pc[e] = "gone" => pc'[e] = "gone"
                      /\ Stays(e)' => Stays(e)

(* What a step other than Write may do to the network: a first change goes. *)
Delivered ==
  \A q, p \in Proc : \E d \in {0, 1} :
    /\ Len(net'[q][p]) = Len(net[q][p]) - d
    /\ \A i \in 1..Len(net'[q][p]) : net'[q][p][i] = net[q][p][i + d]

LEMMA TailOf ==
  ASSUME NEW S, NEW s \in Seq(S), s # <<>>
  PROVE  /\ Tail(s) \in Seq(S) /\ Len(s) \in Nat \ {0}
         /\ Len(Tail(s)) = Len(s) - 1
         /\ \A i \in 1..Len(Tail(s)) : Tail(s)[i] = s[i + 1]
OBVIOUS

LEMMA Whole ==
  ASSUME NEW S, NEW s \in Seq(S)
  PROVE  Len(s) = Len(s) - 0 /\ \A i \in 1..Len(s) : s[i] = s[i + 0]
OBVIOUS

LEMMA NothingDelivered ==
  ASSUME TypeOK, UNCHANGED net
  PROVE  Delivered
<1> SUFFICES ASSUME NEW q \in Proc, NEW p \in Proc
             PROVE  /\ Len(net'[q][p]) = Len(net[q][p]) - 0
                    /\ \A i \in 1..Len(net'[q][p]) : net'[q][p][i] = net[q][p][i + 0]
  BY DEF Delivered
<1>1. net[q][p] \in Seq(Changes)
  BY DEF TypeOK
<1> QED
  BY <1>1

LEMMA OneDelivered ==
  ASSUME TypeOK, NEW q \in Proc, NEW p \in Proc, net[q][p] # <<>>,
         net' = [net EXCEPT ![q][p] = Tail(@)]
  PROVE  Delivered /\ net' \in [Proc -> [Proc -> Seq(Changes)]]
<1>1. \A a, b \in Proc : net[a][b] \in Seq(Changes)
  BY DEF TypeOK
<1>2. /\ Tail(net[q][p]) \in Seq(Changes)
      /\ Len(Tail(net[q][p])) = Len(net[q][p]) - 1
      /\ \A i \in 1..Len(Tail(net[q][p])) : Tail(net[q][p])[i] = net[q][p][i + 1]
  BY <1>1, TailOf
<1>3. \A a, b \in Proc : net'[a][b] = IF a = q /\ b = p THEN Tail(net[q][p])
                                                       ELSE net[a][b]
  BY DEF TypeOK
<1>4. net' \in [Proc -> [Proc -> Seq(Changes)]]
  BY <1>2 DEF TypeOK
<1>5. ASSUME NEW a \in Proc, NEW b \in Proc
      PROVE  \E d \in {0, 1} :
               /\ Len(net'[a][b]) = Len(net[a][b]) - d
               /\ \A i \in 1..Len(net'[a][b]) : net'[a][b][i] = net[a][b][i + d]
  <2>1. CASE a = q /\ b = p
    BY <1>2, <1>3, <2>1
  <2>2. CASE ~(a = q /\ b = p)
    BY <1>1, <1>3, <2>2, Whole
  <2> QED
    BY <2>1, <2>2
<1> QED
  BY <1>4, <1>5 DEF Delivered

LEMMA SentKept ==
  ASSUME TypeOK, Sent, Onwards, Delivered, net' \in [Proc -> [Proc -> Seq(Changes)]]
  PROVE  Sent'
<1> SUFFICES ASSUME NEW q \in Proc, NEW p \in Proc, NEW i \in 1..Len(net'[q][p])
             PROVE  MaySend(q, p, net[q][p][i])'
  BY DEF Sent
<1>1. net[q][p] \in Seq(Changes) /\ net'[q][p] \in Seq(Changes)
  BY DEF TypeOK
<1>2. PICK d \in {0, 1} :
        /\ Len(net'[q][p]) = Len(net[q][p]) - d
        /\ \A j \in 1..Len(net'[q][p]) : net'[q][p][j] = net[q][p][j + d]
  BY DEF Delivered
<1>3. i + d \in 1..Len(net[q][p]) /\ net'[q][p][i] = net[q][p][i + d]
  BY <1>1, <1>2
<1>4. MaySend(q, p, net[q][p][i + d]) /\ net[q][p][i + d] \in Changes
  BY <1>1, <1>3 DEF Sent
<1>5. ASSUME NEW c \in Changes, MaySend(q, p, c), c = net'[q][p][i]
      PROVE  MaySend(q, p, net[q][p][i])'
  BY <1>5 DEF MaySend, Onwards, Changes
<1> QED
  BY <1>3, <1>4, <1>5

(* What a process has heard of an endpoint of another is left alone by     *)
(* what happens to other endpoints, or in other processes.                 *)
LEMMA HeardKept ==
  ASSUME TypeOK, HeardOnce, NEW e \in Endpoint, NEW p \in Proc \ {Home(e)},
         Onwards, Delivered, net' \in [Proc -> [Proc -> Seq(Changes)]],
         \A k \in AllKeys : <<e, k>> \in roles'[p] => <<e, k>> \in roles[p]
  PROVE  Heard(e, p)'
<1> DEFINE q == Home(e)
<1>1. q \in Proc
  BY Places
<1>2. net[q][p] \in Seq(Changes) /\ net'[q][p] \in Seq(Changes)
  BY <1>1 DEF TypeOK
<1>3. PICK d \in {0, 1} :
        /\ Len(net'[q][p]) = Len(net[q][p]) - d
        /\ \A j \in 1..Len(net'[q][p]) : net'[q][p][j] = net[q][p][j + d]
  BY <1>1 DEF Delivered
<1>4. /\ \A i, j \in 1..Len(net[q][p]) :
           JoinAt(q, p, i, e) /\ JoinAt(q, p, j, e) => i = j
      /\ Announcing(e) \/ (\E i \in 1..Len(net[q][p]) : JoinAt(q, p, i, e))
           => \A k \in AllKeys : <<e, k>> \notin roles[p]
      /\ \A k, l \in AllKeys :
           <<e, k>> \in roles[p] /\ <<e, l>> \in roles[p] => k = l
  BY DEF HeardOnce, Heard
<1> HIDE DEF q
<1>5. \A i \in 1..Len(net'[q][p]) :
        i + d \in 1..Len(net[q][p]) /\ (JoinAt(q, p, i, e)' => JoinAt(q, p, i + d, e))
  <2>1. Len(net[q][p]) \in Nat /\ Len(net'[q][p]) \in Nat
    BY <1>2
  <2> TAKE i \in 1..Len(net'[q][p])
  <2>2. i + d \in 1..Len(net[q][p])
    BY <1>3, <2>1
  <2>3. net'[q][p][i] = net[q][p][i + d]
    BY <1>3
  <2> QED
    BY <2>2, <2>3, Zenon DEF JoinAt
<1>6. \A i, j \in 1..Len(net'[q][p]) : i + d = j + d => i = j
  BY <1>2, <1>3
<1>7. \A i, j \in 1..Len(net'[q][p]) : JoinAt(q, p, i, e)' /\ JoinAt(q, p, j, e)' => i = j
  BY <1>4, <1>5, <1>6
<1>8. Announcing(e)' => Announcing(e)
  BY DEF Onwards
<1> QED
  BY <1>4, <1>5, <1>7, <1>8 DEF q, Heard, Home

LEMMA HeardOnceKept ==
  ASSUME TypeOK, HeardOnce, Onwards, Delivered, UNCHANGED roles,
         net' \in [Proc -> [Proc -> Seq(Changes)]]
  PROVE  HeardOnce'
BY HeardKept DEF HeardOnce, Home

LEMMA StoredKept ==
  ASSUME Stored, UNCHANGED <<valid, roles>>, TypeOK,
         \A e \in valid \cap Endpoint : IsMember(e)' <=> IsMember(e)
  PROVE  Stored'
BY DEF Stored, Home, TypeOK

LEMMA BackedKept ==
  ASSUME Backed, UNCHANGED dataVars
  PROVE  Backed'
BY DEF Backed, dataVars, WritersIn, ReadersIn

LEMMA DepartingKept ==
  ASSUME Departing, Onwards, TypeOK, UNCHANGED roles, Working,
         \A t \in Thread : Leaving(t)' => Leaving(t) /\ job'[t] = job[t]
  PROVE  Departing'
<1> SUFFICES ASSUME NEW t \in Thread, Leaving(t)', Stays(job[t].role)'
             PROVE  <<job'[t].role, "channel">> \notin roles'[Home(t)]
  BY DEF Departing, Home
<1>1. PICK c \in Changes : c = job[t] /\ c = job'[t] /\ Leaving(t)
  BY DEF Leaving, TypeOK
<1>2. c.role \in Endpoint /\ Stays(c.role)'
  BY <1>1 DEF Changes, Stays, Leaving
<1>3. Stays(c.role)
  BY <1>2 DEF Onwards
<1>4. <<c.role, "channel">> \notin roles[Home(t)]
  BY <1>1, <1>3 DEF Departing
<1> QED
  BY <1>1, <1>4

(* The steps of Signal::Notify *)

LEMMA Connects ==
  ASSUME TypeOK, Connected, NEW p \in Proc, NEW w \in Writer, Connect(p, w)
  PROVE  /\ links' \in [Proc -> [Writer -> Nat]]
         /\ \A q \in Proc : conn'[q] = IF q = p THEN conn[q] \cup {w} ELSE conn[q]
         /\ conn' \in [Proc -> SUBSET Writer] /\ Connected'
<1>1. /\ links \in [Proc -> [Writer -> Nat]] /\ conn \in [Proc -> SUBSET Writer]
      /\ links' = [links EXCEPT ![p][w] = @ + 1]
      /\ conn' = [conn EXCEPT ![p] = @ \cup {w}]
  BY DEF TypeOK, Connect
<1>2. /\ \A q \in Proc : conn'[q] = IF q = p THEN conn[q] \cup {w} ELSE conn[q]
      /\ links' \in [Proc -> [Writer -> Nat]]
      /\ conn' \in [Proc -> SUBSET Writer]
  <2>1. links[p] \in [Writer -> Nat] /\ links[p][w] + 1 \in Nat
    BY <1>1
  <2>2. [links[p] EXCEPT ![w] = @ + 1] \in [Writer -> Nat]
    BY <2>1
  <2> QED
    BY <1>1, <2>2
<1>3. ASSUME NEW q \in Proc, NEW v \in conn'[q]
      PROVE  links'[q][v] > 0
  <2>1. v \in Writer /\ links[q][v] \in Nat
    BY <1>1, <1>2
  <2>2. CASE q = p /\ v = w
    <3>1. links'[p][w] = links[p][w] + 1
      BY <1>1
    <3> QED
      BY <2>1, <2>2, <3>1
  <2>3. CASE ~(q = p /\ v = w)
    <3>1. links'[q][v] = links[q][v] /\ v \in conn[q]
      BY <1>1, <1>2, <2>1, <2>3
    <3> QED
      BY <3>1 DEF Connected
  <2> QED
    BY <2>2, <2>3
<1> QED
  BY <1>2, <1>3 DEF Connected

LEMMA Disconnects ==
  ASSUME TypeOK, Connected, NEW p \in Proc, NEW w \in Writer, Disconnect(p, w)
  PROVE  /\ links' \in [Proc -> [Writer -> Nat]]
         /\ \A q \in Proc : conn'[q] = IF q = p THEN conn[q] \ {w} ELSE conn[q]
         /\ conn' \in [Proc -> SUBSET Writer] /\ Connected'
<1>1. /\ links \in [Proc -> [Writer -> Nat]] /\ conn \in [Proc -> SUBSET Writer]
      /\ links' = IF w \in conn[p] THEN [links EXCEPT ![p][w] = @ - 1] ELSE links
      /\ conn' = [conn EXCEPT ![p] = @ \ {w}]
  BY DEF TypeOK, Disconnect
<1>2. w \in conn[p] => links[p][w] - 1 \in Nat
  BY <1>1 DEF Connected
<1>3. /\ \A q \in Proc : conn'[q] = IF q = p THEN conn[q] \ {w} ELSE conn[q]
      /\ links' \in [Proc -> [Writer -> Nat]]
      /\ conn' \in [Proc -> SUBSET Writer]
  BY <1>1, <1>2
<1>4. ASSUME NEW q \in Proc, NEW v \in conn'[q]
      PROVE  links'[q][v] > 0
  <2>1. v \in Writer /\ v \in conn[q] /\ ~(q = p /\ v = w)
    BY <1>1, <1>3
  <2>2. links'[q][v] = links[q][v]
    BY <1>1, <2>1
  <2> QED
    BY <2>1, <2>2 DEF Connected
<1> QED
  BY <1>3, <1>4 DEF Connected

LEMMA NotifyCopyInv ==
  ASSUME Inv, NEW t \in Thread, NotifyCopy(t)
  PROVE  Inv'
<1> USE Places
<1> DEFINE called == {s \in slots[Home(t)] : Attends(s, job[t].role)}
<1>1. /\ UNCHANGED <<job, todo, valid, slots, cur, roles, conn, net>>
      /\ pc[t] = "notify" /\ cur[t] = NONE /\ job[t] \in Changes
      /\ \A u \in Thread : /\ pc'[u] = IF u = t THEN "calling" ELSE pc[u]
                           /\ copy'[u] = IF u = t THEN called ELSE copy[u]
  BY DEF Inv, TypeOK, NotifyCopy, Working, Busy, dataVars, transVars
<1>2. /\ called \subseteq Endpoint
      /\ \A s \in called : Home(s) = Home(t) /\ Attends(s, job[t].role)
      /\ \A r \in Reader, w \in Writer :
           r \in slots[Home(t)] /\ job[t].role = w => r \in called
  BY DEF Inv, TypeOK, Listening, Attends
<1>3. copy' = [copy EXCEPT ![t] = called]
  BY DEF NotifyCopy
<1> HIDE DEF called
<1>4. TypeOK'
  BY <1>2, <1>3 DEF Inv, TypeOK, NotifyCopy, dataVars, transVars, procVars
<1>5. Onwards
  BY <1>1 DEF Onwards, Announcing, Joining, Stays, Leaving
<1>6. Working'
  BY <1>1 DEF Inv, Working, Busy
<1>7. Listening'
  BY <1>1 DEF Inv, Listening, Listens, Joining, Home
<1>8. Calling'
  BY <1>1, <1>2 DEF Inv, Calling, Home, Attends
<1>9. Enabling'
  BY <1>1 DEF Inv, Enabling
<1>10. Sent' /\ HeardOnce'
  BY <1>1, <1>4, <1>5, NothingDelivered, SentKept, HeardOnceKept DEF Inv, TypeOK
<1>11. Stored'
  BY <1>1, StoredKept DEF Inv, IsMember, Joining
<1>12. Backed' /\ Connected'
  BY BackedKept DEF Inv, NotifyCopy, Connected, transVars
<1>13. Told'
  <2> SUFFICES ASSUME NEW r \in Reader, NEW w \in Writer,
                      pc'[r] \in {"join", "joined"} \/ Joining(r)',
                      <<w, "channel">> \in roles'[Home(r)], Stays(w)',
                      w \notin conn'[Home(r)] \cup todo'[r]
               PROVE  \E u \in Thread : WillCall(u, r, w)'
    BY DEF Told, Home
  <2>1. PICK u \in Thread : WillCall(u, r, w)
    BY <1>1, <1>5 DEF Inv, Told, Onwards, Joining
  <2>2. r \in slots[Home(r)]
    BY <1>1 DEF Inv, Listening, Listens, Joining
  <2>3. u = t => r \in called
    BY <1>2, <2>1, <2>2 DEF WillCall
  <2>4. WillCall(u, r, w)'
    BY <1>1, <2>1, <2>3 DEF WillCall, Joining, Home
  <2> QED
    BY <2>4
<1>14. Departing'
  BY <1>1, <1>5, DepartingKept DEF Inv, Leaving
<1> QED
  BY <1>4, <1>6, <1>7, <1>8, <1>9, <1>10, <1>11, <1>12, <1>13, <1>14 DEF Inv

LEMMA CallSlotInv ==
  ASSUME Inv, NEW t \in Thread, NEW s \in Endpoint, CallSlot(t, s)
  PROVE  Inv'
<1> USE Places
<1>0. /\ cur' = cur \/ cur' = [cur EXCEPT ![t] = s]
      /\ copy' = [copy EXCEPT ![t] = @ \ {s}]
      /\ copy \in [Thread -> SUBSET Endpoint]
      /\ cur \in [Thread -> Endpoint \cup {NONE}]
  BY DEF Inv, TypeOK, CallSlot
<1>1. TypeOK'
  <2>1. /\ copy' \in [Thread -> SUBSET Endpoint]
        /\ cur' \in [Thread -> Endpoint \cup {NONE}]
    BY <1>0
  <2> QED
    BY <2>1 DEF Inv, TypeOK, CallSlot, dataVars, transVars, procVars
<1>2. /\ job' = job /\ roles' = roles /\ valid' = valid /\ pc' = pc
      /\ pc[t] = "calling" /\ cur[t] = NONE /\ s \in copy[t]
      /\ \A u \in Thread : copy'[u] = IF u = t THEN copy[t] \ {s} ELSE copy[u]
      /\ \A u \in Thread : cur'[u] = IF u = t /\ s \in slots[Home(t)]
                                      THEN s ELSE cur[u]
  BY DEF Inv, TypeOK, CallSlot, dataVars
<1>3. Onwards
  BY <1>2 DEF Onwards, Announcing, Joining, Stays, Leaving
<1>4. Working'
  BY <1>2 DEF Inv, Working, Busy
<1>5. Listening'
  BY <1>2 DEF Inv, Listening, Listens, Joining, CallSlot, Home
<1>6. Calling'
  BY <1>2 DEF Inv, Calling, Home, Attends
<1>7. Enabling'
  BY <1>2 DEF Inv, Enabling, CallSlot
<1>8. Sent' /\ HeardOnce'
  BY <1>1, <1>2, <1>3, NothingDelivered, SentKept, HeardOnceKept
  DEF Inv, CallSlot, TypeOK
<1>9. Stored'
  BY <1>2, StoredKept DEF Inv, IsMember, Joining
<1>10. Backed' /\ Connected'
  BY BackedKept DEF Inv, CallSlot, Connected, transVars
<1>11. Told'
  <2> SUFFICES ASSUME NEW r \in Reader, NEW w \in Writer,
                      pc'[r] \in {"join", "joined"} \/ Joining(r)',
                      <<w, "channel">> \in roles'[Home(r)], Stays(w)',
                      w \notin conn'[Home(r)] \cup todo'[r]
               PROVE  \E u \in Thread : WillCall(u, r, w)'
    BY DEF Told, Home
  <2>1. PICK u \in Thread : WillCall(u, r, w)
    BY <1>2, <1>3 DEF Inv, Told, Onwards, CallSlot, transVars, Joining
  <2>2. r \in slots[Home(r)]
    BY <1>2 DEF Inv, Listening, Listens, Joining
  <2>3. WillCall(u, r, w)'
    BY <1>2, <2>1, <2>2 DEF WillCall, Joining, Home
  <2> QED
    BY <2>3
<1>12. Departing'
  BY <1>2, <1>3, DepartingKept DEF Inv, Leaving
<1> QED
  BY <1>1, <1>4, <1>5, <1>6, <1>7, <1>8, <1>9, <1>10, <1>11, <1>12 DEF Inv

LEMMA OnChannelChangeInv ==
  ASSUME Inv, NEW t \in Thread, OnChannelChange(t)
  PROVE  Inv'
<1> USE Places
<1> DEFINE s == cur[t]
           c == job[t]
           p == Home(t)
<1>1. /\ c \in Changes /\ s \in Endpoint /\ p \in Proc /\ Attends(s, c.role)
      /\ Home(s) = p /\ pc[t] = "calling"
  BY DEF Inv, TypeOK, OnChannelChange, Working, Busy, Calling
<1>2. /\ job' = job /\ roles' = roles /\ valid' = valid /\ pc' = pc
      /\ copy' = copy /\ todo' = todo /\ net' = net /\ slots' = slots
      /\ \A u \in Thread : cur'[u] = IF u = t THEN NONE ELSE cur[u]
  BY DEF Inv, TypeOK, OnChannelChange, dataVars
<1>3. s \in Reader => c.role \in Writer
  BY <1>1 DEF Attends
<1>4. /\ links' \in [Proc -> [Writer -> Nat]] /\ conn' \in [Proc -> SUBSET Writer]
      /\ Connected'
      /\ \A q \in Proc : \A w \in Writer : w \in conn[q] =>
           w \in conn'[q] \/ (q = p /\ c.op = "leave" /\ w = c.role)
      /\ s \in Reader /\ pc[s] # "gone" /\ c.op = "join" => c.role \in conn'[p]
  <2>1. CASE UNCHANGED <<links, conn>> /\ ~(s \in Reader /\ pc[s] # "gone")
    BY <2>1 DEF Inv, TypeOK, Connected
  <2>2. CASE s \in Reader /\ pc[s] # "gone" /\ c.op = "join" /\ Connect(p, c.role)
    <3>1. /\ links' \in [Proc -> [Writer -> Nat]]
          /\ \A q \in Proc : conn'[q] = IF q = p THEN conn[q] \cup {c.role} ELSE conn[q]
          /\ conn' \in [Proc -> SUBSET Writer] /\ Connected'
      BY <1>1, <1>3, <2>2, Connects DEF Inv
    <3> HIDE DEF s, c, p
    <3> QED
      BY <1>1, <2>2, <3>1, ZenonT(60)
  <2>3. CASE s \in Reader /\ pc[s] # "gone" /\ c.op = "leave" /\ Disconnect(p, c.role)
    <3>1. /\ links' \in [Proc -> [Writer -> Nat]]
          /\ \A q \in Proc : conn'[q] = IF q = p THEN conn[q] \ {c.role} ELSE conn[q]
          /\ conn' \in [Proc -> SUBSET Writer] /\ Connected'
      BY <1>1, <1>3, <2>3, Disconnects DEF Inv
    <3> HIDE DEF s, c, p
    <3> QED
      BY <1>1, <2>3, <3>1
  <2> QED
    BY <1>1, <2>1, <2>2, <2>3 DEF OnChannelChange, transVars
<1>5. TypeOK'
  <2>1. /\ slots' = slots /\ tx' \subseteq Writer /\ crashed' \subseteq Proc
        /\ cur' \in [Thread -> Endpoint \cup {NONE}]
        /\ UNCHANGED <<roles, nodeReaders, graph, up, gone, lost>>
    BY <1>1 DEF OnChannelChange, Inv, TypeOK, dataVars, transVars
  <2> QED
    BY <1>2, <1>4, <2>1 DEF Inv, TypeOK
<1>6. Onwards
  BY <1>2 DEF Onwards, Announcing, Joining, Stays, Leaving
<1>7. Working'
  BY <1>2 DEF Inv, Working, Busy
<1>8. Listening'
  BY <1>2 DEF Inv, Listening, Listens, Joining, Home
<1>9. Calling'
  BY <1>2 DEF Inv, Calling, Home, Attends
<1>10. Enabling'
  BY <1>2 DEF Inv, Enabling
<1>11. Sent' /\ HeardOnce'
  BY <1>2, <1>5, <1>6, NothingDelivered, SentKept, HeardOnceKept
  DEF Inv, TypeOK
<1>12. Stored'
  BY <1>2, StoredKept DEF Inv, IsMember, Joining
<1>13. Backed'
  BY BackedKept DEF Inv, OnChannelChange
<1>14. Told'
  <2> SUFFICES ASSUME NEW r \in Reader, NEW w \in Writer,
                      pc'[r] \in {"join", "joined"} \/ Joining(r)',
                      <<w, "channel">> \in roles'[Home(r)], Stays(w)',
                      w \notin conn'[Home(r)] \cup todo'[r]
               PROVE  \E u \in Thread : WillCall(u, r, w)'
    BY DEF Told, Home
  <2> HIDE DEF s, c, p
  <2>1. pc[r] \in {"join", "joined"} \/ Joining(r)
    BY <1>2 DEF Joining
  <2>2. pc[r] # "gone"
    BY <2>1 DEF Inv, Working, Busy, Joining
  <2>3. <<w, "channel">> \in roles[Home(r)] /\ Stays(w)
    BY <1>2, <1>6 DEF Onwards
  <2>4. ~(Home(r) = p /\ c.op = "leave" /\ w = c.role)
    BY <1>1, <2>3 DEF Inv, Departing, Leaving, c, p
  <2>5. w \notin conn[Home(r)] \cup todo[r]
    BY <1>2, <1>4, <2>4
  <2>6. PICK u \in Thread : WillCall(u, r, w)
    BY <2>1, <2>3, <2>5 DEF Inv, Told
  <2>7. ~(u = t /\ r = cur[u])
    BY <1>4, <2>2, <2>6 DEF WillCall, Joining, s, c, p
  <2>8. WillCall(u, r, w)'
    BY <1>2, <2>6, <2>7 DEF WillCall, Joining, Home
  <2> QED
    BY <2>8
<1>15. Departing'
  BY <1>2, <1>6, DepartingKept DEF Inv, Leaving
<1> QED
  BY <1>4, <1>5, <1>7, <1>8, <1>9, <1>10, <1>11, <1>12, <1>13, <1>14, <1>15 DEF Inv

(* The steps of an endpoint that dispose nothing. *)

LEMMA FaultsBound ==
  ASSUME TypeOK, Faults < MaxFaults
  PROVE  lost + 1 \in 0..MaxFaults
<1>1. /\ IsFiniteSet(Proc \ up) /\ IsFiniteSet(Endpoint \ valid)
  BY TopologyAssumption, FS_Difference
<1>2. Cardinality(Proc \ up) \in Nat /\ Cardinality(Endpoint \ valid) \in Nat
  BY <1>1, FS_CardinalityType
<1> QED
  BY <1>2, TopologyAssumption DEF TypeOK, Faults

LEMMA AddChangeListenerInv ==
  ASSUME Inv, NEW e \in Endpoint, AddChangeListener(e)
  PROVE  Inv'
<1> USE Places
<1>1. /\ UNCHANGED <<job, todo, valid, copy, cur, roles, conn, net>>
      /\ pc[e] = "new" /\ job[e] = NONE
      /\ \A u \in Thread : pc'[u] = IF u # e THEN pc[u]
           ELSE IF e \in Writer THEN "join" ELSE "listening"
      /\ \A p \in Proc : slots'[p] =
           IF p = Home(e) THEN slots[p] \cup {e} ELSE slots[p]
  <2>1. /\ pc' = [pc EXCEPT ![e] = IF e \in Writer THEN "join" ELSE "listening"]
        /\ slots' = [slots EXCEPT ![Home(e)] = @ \cup {e}]
        /\ UNCHANGED <<job, todo, valid, copy, cur, roles, conn, net>>
        /\ pc[e] = "new"
    BY DEF AddChangeListener, Create, dataVars
  <2>2. DOMAIN pc = Thread /\ DOMAIN slots = Proc
    BY DEF Inv, TypeOK
  <2>3. job[e] = NONE
    BY <2>1 DEF Inv, Working, Busy
  <2> QED
    BY <2>1, <2>2, <2>3
<1>2. TypeOK'
  <2>1. /\ slots' = [slots EXCEPT ![Home(e)] = @ \cup {e}]
        /\ tx' \subseteq tx \cup (Writer \cap {e})
    BY DEF AddChangeListener, CreateTransmitter
  <2>2. UNCHANGED <<job, todo, valid, copy, cur, roles, nodeReaders, graph, links,
                    conn, net, up, gone, crashed, lost>>
    BY DEF AddChangeListener, dataVars, procVars
  <2>3. slots' \in [Proc -> SUBSET Endpoint]
    BY <2>1 DEF Inv, TypeOK
  <2>4. pc' \in [Thread -> {"idle", "new", "listening", "join", "notify",
                           "calling", "joined", "leave", "gone"}]
    <3>1. CASE e \in Writer
      BY <3>1 DEF Inv, TypeOK, AddChangeListener
    <3>2. CASE e \notin Writer
      BY <3>2 DEF Inv, TypeOK, AddChangeListener
    <3> QED
      BY <3>1, <3>2
  <2> QED
    BY <2>1, <2>2, <2>3, <2>4 DEF Inv, TypeOK
<1>3. Onwards
  BY <1>1 DEF Onwards, Announcing, Joining, Stays, Leaving, Inv, Working, Busy
<1>4. Working'
  BY <1>1 DEF Inv, Working, Busy
<1>5. Listening'
  <2>1. \A f \in Endpoint : Listens(f)' <=> Listens(f) \/ f = e
    BY <1>1 DEF Listens, Joining
  <2>2. ~Listens(e)
    BY <1>1 DEF Listens, Joining
  <2> SUFFICES ASSUME NEW f \in Endpoint, NEW p \in Proc
               PROVE  f \in slots'[p] <=> p = Home(f) /\ Listens(f)'
    BY DEF Listening, Home
  <2>3. f \in slots[p] <=> p = Home(f) /\ Listens(f)
    BY DEF Inv, Listening
  <2>4. f \in slots'[p] <=> f \in slots[p] \/ (p = Home(e) /\ f = e)
    <3>1. slots'[p] = IF p = Home(e) THEN slots[p] \cup {e} ELSE slots[p]
      BY <1>1
    <3> QED
      BY <3>1
  <2> QED
    BY <2>1, <2>2, <2>3, <2>4, Zenon
<1>6. Calling'
  BY <1>1 DEF Inv, Calling, Home, Attends, Working, Busy
<1>7. Enabling'
  BY <1>1 DEF Inv, Enabling
<1>8. Sent'
  BY <1>1, <1>2, <1>3, NothingDelivered, SentKept DEF Inv, TypeOK
<1>9. HeardOnce'
  BY <1>1, <1>2, <1>3, NothingDelivered, HeardOnceKept DEF Inv, TypeOK
<1>10. Stored'
  BY <1>1, StoredKept DEF Inv, IsMember, Joining
<1>11. Backed'
  BY BackedKept DEF Inv, AddChangeListener
<1>12. Connected'
  BY DEF Inv, Connected, AddChangeListener, transVars
<1>13. Told'
  <2> SUFFICES ASSUME NEW r \in Reader, NEW w \in Writer,
                      pc'[r] \in {"join", "joined"} \/ Joining(r)',
                      <<w, "channel">> \in roles'[Home(r)], Stays(w)',
                      w \notin conn'[Home(r)] \cup todo'[r]
               PROVE  \E u \in Thread : WillCall(u, r, w)'
    BY DEF Told, Home
  <2>1. PICK u \in Thread : WillCall(u, r, w)
    BY <1>1, <1>3 DEF Inv, Told, Onwards, Joining
  <2>2. WillCall(u, r, w)'
    BY <1>1, <2>1 DEF WillCall, Joining, Home
  <2> QED
    BY <2>2
<1>14. Departing'
  BY <1>1, <1>3, DepartingKept DEF Inv, Leaving
<1> QED
  BY <1>2, <1>4, <1>5, <1>6, <1>7, <1>8, <1>9, <1>10, <1>11, <1>12, <1>13,
     <1>14 DEF Inv

LEMMA GetWritersInv ==
  ASSUME Inv, NEW r \in Reader, GetWritersOfChannel(r)
  PROVE  Inv'
<1> USE Places
<1>1. /\ UNCHANGED <<job, valid, slots, copy, cur, roles, conn, net>>
      /\ pc[r] = "listening"
      /\ \A u \in Thread : pc'[u] = IF u = r THEN "join" ELSE pc[u]
      /\ \A s \in Reader : todo'[s] =
           IF s = r THEN Search(roles[Home(r)], "channel") \cap Writer ELSE todo[s]
  BY DEF Inv, TypeOK, GetWritersOfChannel, sigVars, dataVars, transVars
<1>2. TypeOK'
  BY DEF Inv, TypeOK, GetWritersOfChannel, sigVars, dataVars, transVars, procVars
<1>3. Onwards
  BY <1>1 DEF Onwards, Announcing, Joining, Stays, Leaving, Inv, Working, Busy
<1>4. Working'
  BY <1>1 DEF Inv, Working, Busy
<1>5. Listening'
  BY <1>1 DEF Inv, Listening, Listens, Joining, Home
<1>6. Calling'
  BY <1>1 DEF Inv, Calling, Home, Attends, Working, Busy
<1>7. Enabling'
  BY <1>1 DEF Inv, Enabling
<1>8. Sent'
  BY <1>1, <1>2, <1>3, NothingDelivered, SentKept DEF Inv, TypeOK
<1>9. HeardOnce'
  BY <1>1, <1>2, <1>3, NothingDelivered, HeardOnceKept DEF Inv, TypeOK
<1>10. Stored'
  BY <1>1, StoredKept DEF Inv, IsMember, Joining
<1>11. Backed'
  BY BackedKept DEF Inv, GetWritersOfChannel
<1>12. Connected'
  BY DEF Inv, Connected, GetWritersOfChannel, transVars
<1>13. Told'
  <2> SUFFICES ASSUME NEW s \in Reader, NEW w \in Writer,
                      pc'[s] \in {"join", "joined"} \/ Joining(s)',
                      <<w, "channel">> \in roles'[Home(s)], Stays(w)',
                      w \notin conn'[Home(s)] \cup todo'[s]
               PROVE  \E u \in Thread : WillCall(u, s, w)'
    BY DEF Told, Home
  <2>1. s # r
    BY <1>1 DEF Search
  <2>2. PICK u \in Thread : WillCall(u, s, w)
    BY <1>1, <1>3, <2>1 DEF Inv, Told, Onwards, Joining
  <2>3. WillCall(u, s, w)'
    BY <1>1, <2>2 DEF WillCall, Joining, Home
  <2> QED
    BY <2>3
<1>14. Departing'
  BY <1>1, <1>3, DepartingKept DEF Inv, Leaving
<1> QED
  BY <1>2, <1>4, <1>5, <1>6, <1>7, <1>8, <1>9, <1>10, <1>11, <1>12, <1>13,
     <1>14 DEF Inv

LEMMA EnableWriterInv ==
  ASSUME Inv, NEW r \in Reader, NEW w0 \in Writer, EnableWriter(r, w0)
  PROVE  Inv'
<1> USE Places
<1>1. /\ UNCHANGED <<pc, job, valid, slots, copy, cur, roles, net>>
      /\ pc[r] = "join"
      /\ \A s \in Reader : todo'[s] = IF s = r THEN todo[r] \ {w0} ELSE todo[s]
      /\ links' \in [Proc -> [Writer -> Nat]]
      /\ \A q \in Proc : conn'[q] =
           IF q = Home(r) THEN conn[q] \cup {w0} ELSE conn[q]
      /\ conn' \in [Proc -> SUBSET Writer] /\ Connected'
  <2>1. Home(r) \in Proc /\ Connect(Home(r), w0)
    BY DEF EnableWriter
  <2>2. /\ links' \in [Proc -> [Writer -> Nat]]
        /\ \A q \in Proc : conn'[q] =
             IF q = Home(r) THEN conn[q] \cup {w0} ELSE conn[q]
        /\ conn' \in [Proc -> SUBSET Writer] /\ Connected'
    BY <2>1, Connects DEF Inv
  <2>3. /\ UNCHANGED <<pc, job, valid, slots, copy, cur, roles, net>>
        /\ pc[r] = "join" /\ todo' = [todo EXCEPT ![r] = @ \ {w0}]
    BY DEF EnableWriter, sigVars, dataVars
  <2>4. DOMAIN todo = Reader
    BY DEF Inv, TypeOK
  <2> QED
    BY <2>2, <2>3, <2>4
<1>2. TypeOK'
  <2>1. todo' = [todo EXCEPT ![r] = @ \ {w0}]
        /\ UNCHANGED <<nodeReaders, graph, tx, up, gone, crashed, lost>>
    BY DEF EnableWriter, dataVars, procVars
  <2> QED
    BY <1>1, <2>1 DEF Inv, TypeOK
<1>3. Onwards
  BY <1>1 DEF Onwards, Announcing, Joining, Stays, Leaving, Inv, Working, Busy
<1>4. Working'
  BY <1>1 DEF Inv, Working, Busy
<1>5. Listening'
  BY <1>1 DEF Inv, Listening, Listens, Joining, Home
<1>6. Calling'
  BY <1>1 DEF Inv, Calling, Home, Attends, Working, Busy
<1>7. Enabling'
  BY <1>1 DEF Inv, Enabling
<1>8. Sent'
  BY <1>1, <1>2, <1>3, NothingDelivered, SentKept DEF Inv, TypeOK
<1>9. HeardOnce'
  BY <1>1, <1>2, <1>3, NothingDelivered, HeardOnceKept DEF Inv, TypeOK
<1>10. Stored'
  BY <1>1, StoredKept DEF Inv, IsMember, Joining
<1>11. Backed'
  BY BackedKept DEF Inv, EnableWriter
<1>12. Connected'
  BY <1>1
<1>13. Told'
  <2> SUFFICES ASSUME NEW s \in Reader, NEW w \in Writer,
                      pc'[s] \in {"join", "joined"} \/ Joining(s)',
                      <<w, "channel">> \in roles'[Home(s)], Stays(w)',
                      w \notin conn'[Home(s)] \cup todo'[s]
               PROVE  \E u \in Thread : WillCall(u, s, w)'
    BY DEF Told, Home
  <2>1. w \notin conn[Home(s)] \cup todo[s]
    BY <1>1
  <2>2. PICK u \in Thread : WillCall(u, s, w)
    BY <1>1, <1>3, <2>1 DEF Inv, Told, Onwards, Joining
  <2>3. WillCall(u, s, w)'
    BY <1>1, <2>2 DEF WillCall, Joining, Home
  <2> QED
    BY <2>3
<1>14. Departing'
  BY <1>1, <1>3, DepartingKept DEF Inv, Leaving
<1> QED
  BY <1>2, <1>4, <1>5, <1>6, <1>7, <1>8, <1>9, <1>10, <1>11, <1>12, <1>13,
     <1>14 DEF Inv

LEMMA RefusedInv ==
  ASSUME Inv, NEW e \in Endpoint, Runs(e), e \notin valid,
         Join(e) \/ Leave(e)
  PROVE  Inv'
<1> USE Places
<1>1. /\ UNCHANGED <<job, todo, valid, slots, copy, cur, roles, conn, net>>
      /\ job[e] = NONE
      /\ \/ /\ pc[e] = "join" /\ (e \in Reader => todo[e] = {})
            /\ \A u \in Thread : pc'[u] = IF u = e THEN "joined" ELSE pc[u]
         \/ /\ pc[e] = "leave"
            /\ \A u \in Thread : pc'[u] = IF u = e THEN "gone" ELSE pc[u]
  <2>1. pc[e] \in {"join", "leave"} => job[e] = NONE
    BY DEF Inv, Working, Busy
  <2> QED
    BY <2>1 DEF Inv, TypeOK, Join, Leave, Announce, sigVars, dataVars, transVars
<1>2. TypeOK'
  <2>1. pc' = [pc EXCEPT ![e] = "joined"] \/ pc' = [pc EXCEPT ![e] = "gone"]
    BY DEF Join, Leave, Announce
  <2>2. UNCHANGED <<job, todo, valid, slots, copy, cur, roles, nodeReaders, graph,
                    links, conn, tx, net, up, gone, crashed, lost>>
    BY DEF Join, Leave, Announce, sigVars, dataVars, transVars, procVars
  <2> QED
    BY <2>1, <2>2, ZenonT(60) DEF Inv, TypeOK
<1>3. Onwards
  BY <1>1, ZenonT(60) DEF Onwards, Announcing, Joining, Stays, Leaving, Inv, Working, Busy
<1>4. Working'
  BY <1>1 DEF Inv, Working, Busy
<1>5. Listening'
  BY <1>1 DEF Inv, Listening, Listens, Joining, Home
<1>6. Calling'
  BY <1>1 DEF Inv, Calling, Home, Attends, Working, Busy
<1>7. Enabling'
  BY <1>1 DEF Inv, Enabling
<1>8. Sent'
  BY <1>1, <1>2, <1>3, NothingDelivered, SentKept DEF Inv, TypeOK
<1>9. HeardOnce'
  BY <1>1, <1>2, <1>3, NothingDelivered, HeardOnceKept DEF Inv, TypeOK
<1>10. Stored'
  BY <1>1, StoredKept DEF Inv, IsMember, Joining
<1>11. Backed'
  BY BackedKept DEF Inv, Join, Leave, Announce
<1>12. Connected'
  BY DEF Inv, Connected, Join, Leave, Announce, transVars
<1>13. Told'
  <2> SUFFICES ASSUME NEW r \in Reader, NEW w \in Writer,
                      pc'[r] \in {"join", "joined"} \/ Joining(r)',
                      <<w, "channel">> \in roles'[Home(r)], Stays(w)',
                      w \notin conn'[Home(r)] \cup todo'[r]
               PROVE  \E u \in Thread : WillCall(u, r, w)'
    BY DEF Told, Home
  <2>1. PICK u \in Thread : WillCall(u, r, w)
    BY <1>1, <1>3 DEF Inv, Told, Onwards, Joining
  <2>2. WillCall(u, r, w)'
    BY <1>1, <2>1 DEF WillCall, Joining, Home
  <2> QED
    BY <2>2
<1>14. Departing'
  BY <1>1, <1>3, DepartingKept DEF Inv, Leaving
<1> QED
  BY <1>2, <1>4, <1>5, <1>6, <1>7, <1>8, <1>9, <1>10, <1>11, <1>12, <1>13,
     <1>14 DEF Inv

LEMMA RemoveChangeListenerInv ==
  ASSUME Inv, NEW e \in Endpoint, RemoveChangeListener(e)
  PROVE  Inv'
<1> USE Places
<1>1. /\ UNCHANGED <<job, todo, valid, copy, cur, roles, conn, net>>
      /\ pc[e] = "joined" /\ job[e] = NONE
      /\ \A u \in Thread : pc'[u] = IF u = e THEN "leave" ELSE pc[u]
      /\ \A p \in Proc : slots'[p] = IF p = Home(e) THEN slots[p] \ {e} ELSE slots[p]
  <2>1. /\ pc' = [pc EXCEPT ![e] = "leave"]
        /\ slots' = [slots EXCEPT ![Home(e)] = @ \ {e}]
        /\ UNCHANGED <<job, todo, valid, copy, cur, roles, conn, net>>
        /\ pc[e] = "joined"
    BY DEF RemoveChangeListener, dataVars, transVars
  <2>2. DOMAIN pc = Thread /\ DOMAIN slots = Proc
    BY DEF Inv, TypeOK
  <2>3. job[e] = NONE
    BY <2>1 DEF Inv, Working, Busy
  <2> QED
    BY <2>1, <2>2, <2>3
<1>2. TypeOK'
  BY DEF Inv, TypeOK, RemoveChangeListener, sigVars, dataVars, transVars, procVars
<1>3. Onwards
  BY <1>1 DEF Onwards, Announcing, Joining, Stays, Leaving, Inv, Working, Busy
<1>4. Working'
  BY <1>1 DEF Inv, Working, Busy
<1>5. Listening'
  <2>1. \A f \in Endpoint : Listens(f)' <=> Listens(f) /\ f # e
    BY <1>1 DEF Listens, Joining
  <2>2. Listens(e)
    BY <1>1 DEF Listens, Joining
  <2> SUFFICES ASSUME NEW f \in Endpoint, NEW p \in Proc
               PROVE  f \in slots'[p] <=> p = Home(f) /\ Listens(f)'
    BY DEF Listening, Home
  <2>3. f \in slots[p] <=> p = Home(f) /\ Listens(f)
    BY DEF Inv, Listening
  <2>4. f \in slots'[p] <=> f \in slots[p] /\ ~(p = Home(e) /\ f = e)
    <3>1. slots'[p] = IF p = Home(e) THEN slots[p] \ {e} ELSE slots[p]
      BY <1>1
    <3> QED
      BY <3>1
  <2> QED
    BY <2>1, <2>2, <2>3, <2>4, Zenon
<1>6. Calling'
  BY <1>1 DEF Inv, Calling, Home, Attends, Working, Busy
<1>7. Enabling'
  BY <1>1 DEF Inv, Enabling
<1>8. Sent'
  BY <1>1, <1>2, <1>3, NothingDelivered, SentKept DEF Inv, TypeOK
<1>9. HeardOnce'
  BY <1>1, <1>2, <1>3, NothingDelivered, HeardOnceKept DEF Inv, TypeOK
<1>10. Stored'
  BY <1>1, StoredKept DEF Inv, IsMember, Joining
<1>11. Backed'
  BY BackedKept DEF Inv, RemoveChangeListener
<1>12. Connected'
  BY DEF Inv, Connected, RemoveChangeListener, transVars
<1>13. Told'
  <2> SUFFICES ASSUME NEW r \in Reader, NEW w \in Writer,
                      pc'[r] \in {"join", "joined"} \/ Joining(r)',
                      <<w, "channel">> \in roles'[Home(r)], Stays(w)',
                      w \notin conn'[Home(r)] \cup todo'[r]
               PROVE  \E u \in Thread : WillCall(u, r, w)'
    BY DEF Told, Home
  <2>1. PICK u \in Thread : WillCall(u, r, w)
    BY <1>1, <1>3 DEF Inv, Told, Onwards, Joining
  <2>2. WillCall(u, r, w)'
    BY <1>1, <2>1 DEF WillCall, Joining, Home
  <2> QED
    BY <2>2
<1>14. Departing'
  BY <1>1, <1>3, DepartingKept DEF Inv, Leaving
<1> QED
  BY <1>2, <1>4, <1>5, <1>6, <1>7, <1>8, <1>9, <1>10, <1>11, <1>12, <1>13,
     <1>14 DEF Inv

LEMMA HandlerReturnsInv ==
  ASSUME Inv, NEW p \in Proc, HandlerReturns(p)
  PROVE  Inv'
<1> USE Places
<1>1. /\ UNCHANGED <<todo, valid, slots, copy, cur, roles, conn, net>>
      /\ pc[p] = "calling" /\ copy[p] = {} /\ cur[p] = NONE
      /\ \A u \in Thread : /\ pc'[u] = IF u = p THEN "idle" ELSE pc[u]
                           /\ job'[u] = IF u = p THEN NONE ELSE job[u]
  BY DEF Inv, TypeOK, HandlerReturns, Notified, sigVars, dataVars, transVars
<1>2. TypeOK'
  BY DEF Inv, TypeOK, HandlerReturns, sigVars, dataVars, transVars, procVars
<1>3. Onwards
  BY <1>1 DEF Onwards, Announcing, Joining, Stays, Leaving, Inv, Working, Busy
<1>4. Working'
  BY <1>1 DEF Inv, Working, Busy
<1>5. Listening'
  BY <1>1 DEF Inv, Listening, Listens, Joining, Home
<1>6. Calling'
  BY <1>1 DEF Inv, Calling, Home, Attends, Working, Busy
<1>7. Enabling'
  BY <1>1 DEF Inv, Enabling
<1>8. Sent'
  BY <1>1, <1>2, <1>3, NothingDelivered, SentKept DEF Inv, TypeOK
<1>9. HeardOnce'
  BY <1>1, <1>2, <1>3, NothingDelivered, HeardOnceKept DEF Inv, TypeOK
<1>10. Stored'
  BY <1>1, StoredKept DEF Inv, IsMember, Joining
<1>11. Backed'
  BY BackedKept DEF Inv, HandlerReturns
<1>12. Connected'
  BY DEF Inv, Connected, HandlerReturns, transVars
<1>13. Told'
  <2> SUFFICES ASSUME NEW r \in Reader, NEW w \in Writer,
                      pc'[r] \in {"join", "joined"} \/ Joining(r)',
                      <<w, "channel">> \in roles'[Home(r)], Stays(w)',
                      w \notin conn'[Home(r)] \cup todo'[r]
               PROVE  \E u \in Thread : WillCall(u, r, w)'
    BY DEF Told, Home
  <2>1. PICK u \in Thread : WillCall(u, r, w)
    BY <1>1, <1>3 DEF Inv, Told, Onwards, Joining
  <2>2. WillCall(u, r, w)'
    BY <1>1, <2>1 DEF WillCall, Joining, Home
  <2> QED
    BY <2>2
<1>14. Departing'
  BY <1>1, <1>3, DepartingKept DEF Inv, Leaving
<1> QED
  BY <1>2, <1>4, <1>5, <1>6, <1>7, <1>8, <1>9, <1>10, <1>11, <1>12, <1>13,
     <1>14 DEF Inv

LEMMA ExitInv ==
  ASSUME Inv, NEW p \in Proc, Exit(p)
  PROVE  Inv'
<1> USE Places
<1>1. UNCHANGED <<pc, job, todo, valid, slots, copy, cur, roles, conn, net>>
  BY DEF Exit, sigVars, dataVars, transVars
<1>2. TypeOK'
  BY DEF Inv, TypeOK, Exit, sigVars, dataVars, transVars, procVars
<1>3. Onwards
  BY <1>1 DEF Onwards, Announcing, Joining, Stays, Leaving, Inv, Working, Busy
<1>4. Working'
  BY <1>1 DEF Inv, Working, Busy
<1>5. Listening'
  BY <1>1 DEF Inv, Listening, Listens, Joining, Home
<1>6. Calling'
  BY <1>1 DEF Inv, Calling, Home, Attends, Working, Busy
<1>7. Enabling'
  BY <1>1 DEF Inv, Enabling
<1>8. Sent'
  BY <1>1, <1>2, <1>3, NothingDelivered, SentKept DEF Inv, TypeOK
<1>9. HeardOnce'
  BY <1>1, <1>2, <1>3, NothingDelivered, HeardOnceKept DEF Inv, TypeOK
<1>10. Stored'
  BY <1>1, StoredKept DEF Inv, IsMember, Joining
<1>11. Backed'
  BY BackedKept DEF Inv, Exit
<1>12. Connected'
  BY DEF Inv, Connected, Exit, transVars
<1>13. Told'
  <2> SUFFICES ASSUME NEW r \in Reader, NEW w \in Writer,
                      pc'[r] \in {"join", "joined"} \/ Joining(r)',
                      <<w, "channel">> \in roles'[Home(r)], Stays(w)',
                      w \notin conn'[Home(r)] \cup todo'[r]
               PROVE  \E u \in Thread : WillCall(u, r, w)'
    BY DEF Told, Home
  <2>1. PICK u \in Thread : WillCall(u, r, w)
    BY <1>1, <1>3 DEF Inv, Told, Onwards, Joining
  <2>2. WillCall(u, r, w)'
    BY <1>1, <2>1 DEF WillCall, Joining, Home
  <2> QED
    BY <2>2
<1>14. Departing'
  BY <1>1, <1>3, DepartingKept DEF Inv, Leaving
<1> QED
  BY <1>2, <1>4, <1>5, <1>6, <1>7, <1>8, <1>9, <1>10, <1>11, <1>12, <1>13,
     <1>14 DEF Inv

LEMMA LoseInv ==
  ASSUME Inv, NEW p \in Proc, NEW q \in Proc, Lose(p, q)
  PROVE  Inv'
<1> USE Places
<1>1. /\ UNCHANGED <<pc, job, todo, valid, slots, copy, cur, roles, conn>>
      /\ Delivered /\ net' \in [Proc -> [Proc -> Seq(Changes)]]
  BY OneDelivered DEF Inv, Lose, sigVars, dataVars, transVars
<1>2. TypeOK'
  <2>1. lost' \in 0..MaxFaults
    BY FaultsBound DEF Inv, Lose
  <2>2. UNCHANGED <<pc, job, todo, valid, slots, copy, cur, roles, nodeReaders,
                    graph, links, conn, tx, up, gone, crashed>>
    BY DEF Lose, sigVars, dataVars, transVars, procVars
  <2>3. TypeOK /\ net' \in [Proc -> [Proc -> Seq(Changes)]]
    BY <1>1 DEF Inv
  <2> QED
    BY <2>1, <2>2, <2>3 DEF TypeOK
<1>3. Onwards
  BY <1>1 DEF Onwards, Announcing, Joining, Stays, Leaving, Inv, Working, Busy
<1>4. Working'
  BY <1>1 DEF Inv, Working, Busy
<1>5. Listening'
  BY <1>1 DEF Inv, Listening, Listens, Joining, Home
<1>6. Calling'
  BY <1>1 DEF Inv, Calling, Home, Attends, Working, Busy
<1>7. Enabling'
  BY <1>1 DEF Inv, Enabling
<1>8. Sent'
  BY <1>1, <1>3, SentKept DEF Inv
<1>9. HeardOnce'
  BY <1>1, <1>3, HeardOnceKept DEF Inv
<1>10. Stored'
  BY <1>1, StoredKept DEF Inv, IsMember, Joining
<1>11. Backed'
  BY BackedKept DEF Inv, Lose
<1>12. Connected'
  BY DEF Inv, Connected, Lose, transVars
<1>13. Told'
  <2> SUFFICES ASSUME NEW r \in Reader, NEW w \in Writer,
                      pc'[r] \in {"join", "joined"} \/ Joining(r)',
                      <<w, "channel">> \in roles'[Home(r)], Stays(w)',
                      w \notin conn'[Home(r)] \cup todo'[r]
               PROVE  \E u \in Thread : WillCall(u, r, w)'
    BY DEF Told, Home
  <2>1. PICK u \in Thread : WillCall(u, r, w)
    BY <1>1, <1>3 DEF Inv, Told, Onwards, Joining
  <2>2. WillCall(u, r, w)'
    BY <1>1, <2>1 DEF WillCall, Joining, Home
  <2> QED
    BY <2>2
<1>14. Departing'
  BY <1>1, <1>3, DepartingKept DEF Inv, Leaving
<1> QED
  BY <1>2, <1>4, <1>5, <1>6, <1>7, <1>8, <1>9, <1>10, <1>11, <1>12, <1>13,
     <1>14 DEF Inv

LEMMA Appended ==
  ASSUME NEW S, NEW s \in Seq(S), NEW c \in S
  PROVE  /\ Append(s, c) \in Seq(S) /\ Len(Append(s, c)) = Len(s) + 1 /\ Len(s) \in Nat
         /\ \A i \in 1..Len(s) : Append(s, c)[i] = s[i]
         /\ Append(s, c)[Len(s) + 1] = c
OBVIOUS

(* Manager::Write: an endpoint broadcasts the change it has disposed. *)
LEMMA WriteInv ==
  ASSUME Inv, NEW e \in Endpoint, Write(e)
  PROVE  Inv'
<1> USE Places
<1> DEFINE c == job[e]
           p == Home(e)
<1>1. /\ c \in Changes /\ c.role = e /\ e \in valid /\ p \in Proc
      /\ pc[e] = "calling" /\ copy[e] = {} /\ cur[e] = NONE
      /\ UNCHANGED <<todo, valid, slots, copy, cur, roles, conn>>
  BY DEF Inv, TypeOK, Write, Notified, Working, Busy, sigVars, dataVars
<1>2. \A u \in Thread :
        /\ pc'[u] = IF u = e THEN IF c.op = "join" THEN "joined" ELSE "gone" ELSE pc[u]
        /\ job'[u] = IF u = e THEN NONE ELSE job[u]
  BY DEF Inv, TypeOK, Write
<1>3. \A a, b \in Proc : net[a][b] \in Seq(Changes)
  BY DEF Inv, TypeOK
<1>4. \A a, b \in Proc :
        net'[a][b] = IF a = p /\ b \in up /\ b # p THEN Append(net[a][b], c)
                                                   ELSE net[a][b]
  BY <1>1 DEF Inv, TypeOK, Write, IsFromSameProcess
<1>5. net' \in [Proc -> [Proc -> Seq(Changes)]]
  <2> DEFINE row == [q \in Proc |-> IF q \in up /\ ~IsFromSameProcess(q, job[e])
                                   THEN Append(net[p][q], job[e]) ELSE net[p][q]]
  <2>1. row \in [Proc -> Seq(Changes)]
    BY <1>1, <1>3, Appended
  <2>2. net' = [net EXCEPT ![p] = row]
    BY DEF Write
  <2> HIDE DEF row
  <2> QED
    BY <2>1, <2>2 DEF Inv, TypeOK
<1>6. ASSUME NEW a \in Proc, NEW b \in Proc, NEW i \in 1..Len(net[a][b])
       PROVE  /\ i \in 1..Len(net'[a][b]) /\ net'[a][b][i] = net[a][b][i]
              /\ net[a][b][i] \in Changes
  <2>1. net[a][b] \in Seq(Changes)
    BY <1>3
  <2>2. CASE net'[a][b] = net[a][b]
    BY <2>1, <2>2
  <2>3. CASE net'[a][b] = Append(net[a][b], c)
    <3> HIDE DEF c
    <3> QED
      BY <1>1, <2>1, <2>3, Appended
  <2> QED
    BY <1>4, <2>2, <2>3
<1>7. TypeOK'
  <2>1. /\ tx' \subseteq tx
        /\ UNCHANGED <<nodeReaders, graph, links, up, gone, crashed, lost>>
    BY DEF Write, dataVars, procVars
  <2>2. /\ pc' \in [Thread -> {"idle", "new", "listening", "join", "notify",
                              "calling", "joined", "leave", "gone"}]
        /\ job' \in [Thread -> Changes \cup {NONE}]
    BY DEF Inv, TypeOK, Write
  <2> QED
    BY <1>1, <1>5, <2>1, <2>2 DEF Inv, TypeOK
<1> HIDE DEF c, p
<1>8. Onwards
  BY <1>1, <1>2 DEF Onwards, Announcing, Joining, Stays, Leaving, c
<1>9. Working'
  BY <1>1, <1>2 DEF Inv, Working, Busy
<1>10. Listening'
  <2>1. \A f \in Endpoint : Listens(f)' <=> Listens(f)
    BY <1>1, <1>2 DEF Listens, Joining, c
  <2> SUFFICES ASSUME NEW f \in Endpoint, NEW q \in Proc
               PROVE  f \in slots'[q] <=> q = Home(f) /\ Listens(f)'
    BY DEF Listening, Home
  <2>2. f \in slots[q] <=> q = Home(f) /\ Listens(f)
    BY DEF Inv, Listening
  <2> QED
    BY <1>1, <2>1, <2>2
<1>11. Calling'
  BY <1>1, <1>2 DEF Inv, Calling, Home, Attends
<1>12. Enabling'
  BY <1>1, <1>2 DEF Inv, Enabling
<1>13. ~Announcing(e)' /\ (c.op = "leave" => pc'[e] = "gone")
  BY <1>1, <1>2 DEF Announcing, Joining
<1>14. Sent'
  <2> SUFFICES ASSUME NEW a \in Proc, NEW b \in Proc, NEW i \in 1..Len(net'[a][b])
               PROVE  MaySend(a, b, net[a][b][i])'
    BY DEF Sent
  <2>1. CASE i \in 1..Len(net[a][b])
    <3>1. net'[a][b][i] = net[a][b][i] /\ net[a][b][i] \in Changes
      BY <1>6, <2>1
    <3>2. MaySend(a, b, net[a][b][i])
      BY <2>1 DEF Inv, Sent
    <3>3. ASSUME NEW d \in Changes, d = net'[a][b][i], MaySend(a, b, d)
          PROVE  MaySend(a, b, net[a][b][i])'
      BY <1>8, <3>3 DEF MaySend, Onwards
    <3> QED
      BY <3>1, <3>2, <3>3
  <2>2. CASE i \notin 1..Len(net[a][b])
    <3>1. a = p /\ b # p /\ net'[a][b] = Append(net[a][b], c)
      BY <1>4, <2>2
    <3>2. net'[a][b][i] = c
      BY <1>1, <1>3, <2>2, <3>1, Appended
    <3> QED
      BY <1>1, <1>13, <3>1, <3>2 DEF MaySend, p
  <2> QED
    BY <2>1, <2>2
<1>15. HeardOnce'
  <2> SUFFICES ASSUME NEW f \in Endpoint, NEW b \in Proc \ {Home(f)}
               PROVE  Heard(f, b)'
    BY DEF HeardOnce, Home
  <2> DEFINE a == Home(f)
  <2>0. a \in Proc /\ net[a][b] \in Seq(Changes)
    BY <1>3
  <2>1. /\ \A i, j \in 1..Len(net[a][b]) :
             JoinAt(a, b, i, f) /\ JoinAt(a, b, j, f) => i = j
        /\ Announcing(f) \/ (\E i \in 1..Len(net[a][b]) : JoinAt(a, b, i, f))
             => \A k \in AllKeys : <<f, k>> \notin roles[b]
        /\ \A k, l \in AllKeys :
             <<f, k>> \in roles[b] /\ <<f, l>> \in roles[b] => k = l
    BY DEF Inv, HeardOnce, Heard
  <2> HIDE DEF a
  <2>2. Announcing(f)' => Announcing(f)
    BY <1>8 DEF Onwards
  <2>3. \A i \in 1..Len(net[a][b]) : i \in 1..Len(net'[a][b])
                                     /\ net'[a][b][i] = net[a][b][i]
    BY <1>6, <2>0
  <2>4. CASE f = e /\ c.op = "join" /\ b \in up
    <3>1. Announcing(e) /\ ~Announcing(e)'
      BY <1>13, <2>4, <1>1 DEF Announcing, Joining, c
    <3>2. \A i \in 1..Len(net[a][b]) : net[a][b][i].role # e
      BY <2>0, <3>1 DEF Inv, Sent, MaySend
    <3>3. /\ net'[a][b] = Append(net[a][b], c) /\ b # p
      BY <1>4, <2>0, <2>4 DEF a, p
    <3>4. Len(net'[a][b]) = Len(net[a][b]) + 1 /\ Len(net[a][b]) \in Nat
      BY <1>1, <2>0, <3>3, Appended
    <3>5. \A i \in 1..Len(net'[a][b]) : JoinAt(a, b, i, f)' => i = Len(net[a][b]) + 1
      BY <2>3, <2>4, <3>2, <3>4 DEF JoinAt
    <3> QED
      BY <1>1, <2>1, <2>2, <2>4, <3>1, <3>5 DEF a, Heard, Home
  <2>5. CASE ~(f = e /\ c.op = "join" /\ b \in up)
    <3>1. \A i \in 1..Len(net'[a][b]) : JoinAt(a, b, i, f)' =>
            i \in 1..Len(net[a][b]) /\ JoinAt(a, b, i, f)
      <4> SUFFICES ASSUME NEW i \in 1..Len(net'[a][b]), JoinAt(a, b, i, f)'
                   PROVE  i \in 1..Len(net[a][b]) /\ JoinAt(a, b, i, f)
        OBVIOUS
      <4>1. CASE i \in 1..Len(net[a][b])
        BY <2>3, <4>1 DEF JoinAt
      <4>2. CASE i \notin 1..Len(net[a][b])
        <5>1. net'[a][b] = Append(net[a][b], c) /\ b \in up
          BY <1>4, <2>0, <4>2
        <5>2. net'[a][b][i] = c
          BY <1>1, <2>0, <4>2, <5>1, Appended
        <5> QED
          BY <1>1, <2>5, <5>1, <5>2 DEF JoinAt
      <4> QED
        BY <4>1, <4>2
    <3> QED
      BY <1>1, <2>1, <2>2, <3>1 DEF a, Heard, Home
  <2> QED
    BY <2>4, <2>5
<1>16. Stored'
  BY <1>1, <1>2, StoredKept DEF Inv, IsMember, Joining, c
<1>17. Backed'
  BY BackedKept DEF Inv, Write
<1>18. Connected'
  BY DEF Inv, Connected, Write
<1>19. Told'
  <2> SUFFICES ASSUME NEW r \in Reader, NEW w \in Writer,
                      pc'[r] \in {"join", "joined"} \/ Joining(r)',
                      <<w, "channel">> \in roles'[Home(r)], Stays(w)',
                      w \notin conn'[Home(r)] \cup todo'[r]
               PROVE  \E u \in Thread : WillCall(u, r, w)'
    BY DEF Told, Home
  <2>1. pc[r] \in {"join", "joined"} \/ Joining(r)
    BY <1>1, <1>2 DEF Joining, c
  <2>2. PICK u \in Thread : WillCall(u, r, w)
    BY <1>1, <1>8, <2>1 DEF Inv, Told, Onwards
  <2>3. u # e
    BY <1>1, <2>2 DEF WillCall
  <2>4. WillCall(u, r, w)'
    BY <1>1, <1>2, <2>2, <2>3 DEF WillCall, Joining, Home
  <2> QED
    BY <2>4
<1>20. Departing'
  BY <1>1, <1>2, <1>8, DepartingKept DEF Inv, Leaving
<1> QED
  BY <1>7, <1>9, <1>10, <1>11, <1>12, <1>14, <1>15, <1>16, <1>17, <1>18, <1>19,
     <1>20 DEF Inv

(***************************************************************************)
(* Dispose: a thread that is idle applies a change to the warehouses and   *)
(* the graph of its process, and notifies next.                            *)
(***************************************************************************)
Disposes(t, c) ==
  /\ ~Busy(t) /\ Dispose(Home(t), c)
  /\ pc' = [pc EXCEPT ![t] = "notify"] /\ job' = [job EXCEPT ![t] = c]
  /\ UNCHANGED <<todo, valid, slots, copy, cur, links, conn, tx, up, crashed>>
  /\ gone' \in [Proc -> SUBSET Proc] /\ lost' \in 0..MaxFaults
  /\ net' \in [Proc -> [Proc -> Seq(Changes)]] /\ Delivered

(* An endpoint disposes its own join and its own leave.                    *)
Own(t, c) ==
  /\ t \in valid /\ c.role = t /\ c.key = "channel"
  /\ c.op = "join" => pc[t] = "join" /\ (t \in Reader => todo[t] = {})
  /\ c.op = "leave" => pc[t] = "leave"

(* A Fast-RTPS thread disposes what another process has written, or the    *)
(* departure of a role it has.                                             *)
Remote(t, c) ==
  /\ t \in Proc /\ ProcOf[c.role] # t /\ ~Announcing(c.role)
  /\ c.op = "leave" => pc[c.role] = "gone" \/ <<c.role, c.key>> \in roles[t]

(* The warehouse of the channel, after a change.                           *)
LEMMA RolesAfter ==
  ASSUME TypeOK, NEW t \in Thread, NEW c \in Changes, Disposes(t, c)
  PROVE  \A q \in Proc : \A e \in Endpoint, k \in AllKeys :
           IF q = Home(t) /\ e = c.role /\ k = c.key
           THEN <<e, k>> \in roles'[q] <=> c.op = "join"
           ELSE <<e, k>> \in roles'[q] <=> <<e, k>> \in roles[q]
<1> USE Places
<1>1. \A q \in Proc : roles'[q] = IF q = Home(t) THEN DisposeRoles(roles[q], c)
                                                  ELSE roles[q]
  BY DEF Disposes, Dispose, TypeOK
<1>2. ASSUME NEW q \in Proc, NEW e \in Endpoint, NEW k \in AllKeys
      PROVE  IF q = Home(t) /\ e = c.role /\ k = c.key
             THEN <<e, k>> \in roles'[q] <=> c.op = "join"
             ELSE <<e, k>> \in roles'[q] <=> <<e, k>> \in roles[q]
  <2>1. CASE q = Home(t) /\ c.op = "join"
    <3>1. roles'[q] = roles[q] \cup {<<c.role, c.key>>}
      BY <1>1, <2>1 DEF DisposeRoles, Add
    <3> QED
      BY <2>1, <3>1
  <2>2. CASE q = Home(t) /\ c.op = "leave"
    BY <1>1, <2>2 DEF DisposeRoles, RemoveRole
  <2>3. CASE q # Home(t)
    BY <1>1, <2>3
  <2> QED
    BY <2>1, <2>2, <2>3
<1> QED
  BY <1>2

(* Insert and Delete keep the edges complete, and add or take one vertex.  *)
Graphs == [src : SUBSET Vertices, dst : SUBSET Vertices,
           list : SUBSET (Vertices \X Vertices)]

LEMMA Graphing ==
  ASSUME NEW g \in Graphs, NEW e \in Endpoint
  PROVE  /\ Insert(g, e) \in Graphs /\ Delete(g, e) \in Graphs
         /\ e \in Writer => /\ Insert(g, e).src = g.src \cup {VertexOf(e)}
                           /\ Delete(g, e).src = g.src \ {VertexOf(e)}
                           /\ Insert(g, e).dst = g.dst /\ Delete(g, e).dst = g.dst
         /\ e \in Reader => /\ Insert(g, e).dst = g.dst \cup {VertexOf(e)}
                           /\ Delete(g, e).dst = g.dst \ {VertexOf(e)}
                           /\ Insert(g, e).src = g.src /\ Delete(g, e).src = g.src
         /\ g.list = g.src \X g.dst =>
              /\ Insert(g, e).list = Insert(g, e).src \X Insert(g, e).dst
              /\ Delete(g, e).list = Delete(g, e).src \X Delete(g, e).dst
<1> DEFINE n == VertexOf(e)
<1>1. n \in Vertices /\ Writer \cap Reader = {} /\ (e \in Writer \/ e \in Reader)
  BY TopologyAssumption DEF Vertices, Endpoint
<1> HIDE DEF n
<1>2. g.src \subseteq Vertices /\ g.dst \subseteq Vertices /\ g.list \subseteq Vertices \X Vertices
  BY DEF Graphs
<1>3. CASE e \in Writer
  <2>1. /\ Insert(g, e) = IF n \in g.src THEN g
             ELSE [g EXCEPT !.src = @ \cup {n}, !.list = @ \cup ({n} \X g.dst)]
        /\ Delete(g, e) = IF n \notin g.src THEN g
             ELSE [g EXCEPT !.src = @ \ {n}, !.list = @ \ ({n} \X g.dst)]
    BY <1>3 DEF Insert, Delete, InsertOutgoingEdge, DeleteOutgoingEdge, n
  <2>2. CASE n \in g.src
    <3>1. /\ Delete(g, e) = [src |-> g.src \ {n}, dst |-> g.dst,
                            list |-> g.list \ ({n} \X g.dst)]
          /\ Insert(g, e) = g
      BY <2>1, <2>2 DEF Graphs
    <3> QED
      BY <1>1, <1>2, <1>3, <2>2, <3>1 DEF Graphs, n
  <2>3. CASE n \notin g.src
    <3>1. /\ Insert(g, e) = [src |-> g.src \cup {n}, dst |-> g.dst,
                            list |-> g.list \cup ({n} \X g.dst)]
          /\ Delete(g, e) = g
      BY <2>1, <2>3 DEF Graphs
    <3> QED
      BY <1>1, <1>2, <1>3, <2>3, <3>1 DEF Graphs, n
  <2> QED
    BY <2>2, <2>3
<1>4. CASE e \in Reader
  <2>1. /\ Insert(g, e) = IF n \in g.dst THEN g
             ELSE [g EXCEPT !.dst = @ \cup {n}, !.list = @ \cup (g.src \X {n})]
        /\ Delete(g, e) = IF n \notin g.dst THEN g
             ELSE [g EXCEPT !.dst = @ \ {n}, !.list = @ \ (g.src \X {n})]
    BY <1>1, <1>4 DEF Insert, Delete, InsertIncomingEdge, DeleteIncomingEdge, n
  <2>2. CASE n \in g.dst
    <3>1. /\ Delete(g, e) = [src |-> g.src, dst |-> g.dst \ {n},
                            list |-> g.list \ (g.src \X {n})]
          /\ Insert(g, e) = g
      BY <2>1, <2>2 DEF Graphs
    <3> QED
      BY <1>1, <1>2, <1>4, <2>2, <3>1 DEF Graphs, n
  <2>3. CASE n \notin g.dst
    <3>1. /\ Insert(g, e) = [src |-> g.src, dst |-> g.dst \cup {n},
                            list |-> g.list \cup (g.src \X {n})]
          /\ Delete(g, e) = g
      BY <2>1, <2>3 DEF Graphs
    <3> QED
      BY <1>1, <1>2, <1>4, <2>3, <3>1 DEF Graphs, n
  <2> QED
    BY <2>2, <2>3
<1> QED
  BY <1>1, <1>3, <1>4

LEMMA Completed ==
  ASSUME NEW g \in Graphs, NEW e \in Endpoint, g.list = g.src \X g.dst
  PROVE  /\ Insert(g, e).list = Insert(g, e).src \X Insert(g, e).dst
         /\ Delete(g, e).list = Delete(g, e).src \X Delete(g, e).dst
BY Graphing

LEMMA DisposesTypeOK ==
  ASSUME TypeOK, NEW t \in Thread, NEW c \in Changes, Disposes(t, c)
  PROVE  TypeOK'
<1> USE Places
<1>1. /\ pc' \in [Thread -> {"idle", "new", "listening", "join", "notify",
                            "calling", "joined", "leave", "gone"}]
      /\ job' \in [Thread -> Changes \cup {NONE}]
  BY DEF TypeOK, Disposes
<1>2. roles' \in [Proc -> SUBSET (Endpoint \X AllKeys)]
  <2>1. DisposeRoles(roles[Home(t)], c) \in SUBSET (Endpoint \X AllKeys)
    BY DEF TypeOK, DisposeRoles, Add, RemoveRole
  <2>2. roles' = [roles EXCEPT ![Home(t)] = DisposeRoles(roles[Home(t)], c)]
    BY DEF Disposes, Dispose
  <2> QED
    BY <2>1, <2>2 DEF TypeOK
<1>3. nodeReaders' \in [Proc -> SUBSET (Reader \X AllKeys)]
  <2> DEFINE after == IF c.op = "join" /\ c.role \in Reader
                      THEN Add(nodeReaders[Home(t)], c) ELSE nodeReaders[Home(t)]
  <2>1. after \in SUBSET (Reader \X AllKeys)
    BY DEF TypeOK, Add
  <2>2. nodeReaders' = [nodeReaders EXCEPT ![Home(t)] = after]
    BY DEF Disposes, Dispose
  <2> HIDE DEF after
  <2> QED
    BY <2>1, <2>2 DEF TypeOK
<1>4. graph' \in [Proc -> Graphs]
  <2> DEFINE after == IF c.op = "join" THEN Insert(graph[Home(t)], c.role)
                                     ELSE Delete(graph[Home(t)], c.role)
  <2>1. after \in Graphs
    BY Graphing, ZenonT(60) DEF TypeOK, Graphs
  <2>2. graph' = [graph EXCEPT ![Home(t)] = after]
    BY DEF Disposes, Dispose
  <2> HIDE DEF after
  <2> QED
    BY <2>1, <2>2 DEF TypeOK, Graphs
<1> QED
  BY <1>1, <1>2, <1>3, <1>4 DEF TypeOK, Disposes, Graphs

LEMMA DisposesWorking ==
  ASSUME Inv, NEW t \in Thread, NEW c \in Changes, Disposes(t, c),
         Own(t, c) \/ Remote(t, c)
  PROVE  Working' /\ Listening' /\ Calling' /\ Enabling' /\ Connected' /\ Onwards
<1> USE Places
<1>1. /\ job[t] = NONE /\ copy[t] = {} /\ cur[t] = NONE
      /\ UNCHANGED <<todo, valid, slots, copy, cur, links, conn>>
      /\ \A u \in Thread : /\ pc'[u] = IF u = t THEN "notify" ELSE pc[u]
                           /\ job'[u] = IF u = t THEN c ELSE job[u]
  BY DEF Inv, TypeOK, Disposes, Working, Busy
<1>2. Onwards
  BY <1>1 DEF Onwards, Announcing, Joining, Stays, Leaving, Own, Remote
<1>3. Working'
  <2> SUFFICES ASSUME NEW u \in Thread
               PROVE  /\ Busy(u)' <=> job'[u] # NONE
                      /\ pc'[u] # "calling" => copy'[u] = {} /\ cur'[u] = NONE
                      /\ u \in Proc => /\ pc'[u] \in {"idle", "notify", "calling"}
                                       /\ Busy(u)' => ProcOf[job'[u].role] # u
                      /\ u \in Endpoint =>
                           /\ pc'[u] # "idle"
                           /\ Busy(u)' => u \in valid' /\ job'[u].role = u
    BY DEF Working
  <2>1. CASE u = t
    BY <1>1, <2>1 DEF Inv, TypeOK, Busy, Own, Remote
  <2>2. CASE u # t
    BY <1>1, <2>2 DEF Inv, Working, Busy
  <2> QED
    BY <2>1, <2>2
<1>4. Listening'
  <2> SUFFICES ASSUME NEW f \in Endpoint, NEW p \in Proc
               PROVE  f \in slots'[p] <=> p = Home(f) /\ Listens(f)'
    BY DEF Listening, Home
  <2>1. f \in slots[p] <=> p = Home(f) /\ Listens(f)
    BY DEF Inv, Listening
  <2>2. Listens(f)' <=> Listens(f)
    BY <1>1 DEF Listens, Joining, Own, Remote
  <2> QED
    BY <1>1, <2>1, <2>2
<1>5. Calling'
  BY <1>1 DEF Inv, Calling, Home, Attends
<1>6. Enabling'
  BY <1>1 DEF Inv, Enabling, Own, Remote
<1>7. Connected'
  BY <1>1 DEF Inv, Connected
<1> QED
  BY <1>2, <1>3, <1>4, <1>5, <1>6, <1>7

LEMMA DisposesStored ==
  ASSUME Inv, NEW t \in Thread, NEW c \in Changes, Disposes(t, c),
         Own(t, c) \/ Remote(t, c)
  PROVE  Stored'
<1> USE Places
<1>1. /\ job[t] = NONE /\ valid' = valid /\ valid \subseteq Endpoint
      /\ \A u \in Thread : /\ pc'[u] = IF u = t THEN "notify" ELSE pc[u]
                           /\ job'[u] = IF u = t THEN c ELSE job[u]
  BY DEF Inv, TypeOK, Disposes, Working, Busy
<1> SUFFICES ASSUME NEW e \in valid, NEW k \in AllKeys
             PROVE  <<e, k>> \in roles'[Home(e)] <=> IsMember(e)' /\ k = "channel"
  BY <1>1 DEF Stored, Home
<1>2. <<e, k>> \in roles[Home(e)] <=> IsMember(e) /\ k = "channel"
  BY DEF Inv, Stored
<1>3. e \in Endpoint
  BY <1>1
<1>4. CASE e = t
  <2>1. Own(t, c)
    BY <1>3, <1>4 DEF Remote
  <2>2. k = "channel" => (<<e, k>> \in roles'[Home(e)] <=> c.op = "join")
    BY <1>3, <1>4, <2>1, RolesAfter DEF Own, Inv
  <2>3. k # "channel" => (<<e, k>> \in roles'[Home(e)] <=> <<e, k>> \in roles[Home(e)])
    BY <1>3, <1>4, <2>1, RolesAfter DEF Own, Inv
  <2>4. IsMember(e)' <=> c.op = "join"
    BY <1>1, <1>3, <1>4 DEF IsMember, Joining
  <2> QED
    BY <1>2, <2>2, <2>3, <2>4
<1>5. CASE e # t
  <2>1. ~(Home(e) = Home(t) /\ e = c.role)
    BY <1>3, <1>5 DEF Own, Remote
  <2>2. <<e, k>> \in roles'[Home(e)] <=> <<e, k>> \in roles[Home(e)]
    BY <1>3, <2>1, RolesAfter DEF Inv
  <2>3. IsMember(e)' <=> IsMember(e)
    BY <1>1, <1>3, <1>5 DEF IsMember, Joining
  <2> QED
    BY <1>2, <2>2, <2>3
<1> QED
  BY <1>4, <1>5

(* The edge of the channel, after a change.                                *)
LEMMA DisposesBacked ==
  ASSUME Inv, NEW t \in Thread, NEW c \in Changes, Disposes(t, c)
  PROVE  Backed'
<1> USE Places
<1> DEFINE p == Home(t)
           e == c.role
           n == VertexOf(e)
<1>1. p \in Proc /\ e \in Endpoint
  OBVIOUS
<1> SUFFICES ASSUME NEW q \in Proc
             PROVE  /\ graph'[q].list = graph'[q].src \X graph'[q].dst
                    /\ \A m \in graph'[q].src : WritersIn(q, m)' # {}
                    /\ \A m \in graph'[q].dst : ReadersIn(q, m)' # {}
                    /\ \A x \in roles'[q] : x[1] \in Reader => x \in nodeReaders'[q]
  BY DEF Backed
<1>2. /\ graph[q].list = graph[q].src \X graph[q].dst
      /\ \A m \in graph[q].src : WritersIn(q, m) # {}
      /\ \A m \in graph[q].dst : ReadersIn(q, m) # {}
      /\ \A x \in roles[q] : x[1] \in Reader => x \in nodeReaders[q]
      /\ graph[q] \in Graphs /\ roles[q] \subseteq Endpoint \X AllKeys
  BY DEF Inv, Backed, TypeOK, Graphs
<1>3. /\ roles'[q] = IF q = p THEN DisposeRoles(roles[q], c) ELSE roles[q]
      /\ nodeReaders'[q] = IF q = p /\ c.op = "join" /\ e \in Reader
                           THEN Add(nodeReaders[q], c) ELSE nodeReaders[q]
      /\ graph'[q] = IF q # p THEN graph[q]
                     ELSE IF c.op = "join" THEN Insert(graph[q], e)
                                           ELSE Delete(graph[q], e)
  BY DEF Inv, TypeOK, Disposes, Dispose
<1> HIDE DEF p, n, e
<1>4. CASE q # p
  BY <1>2, <1>3, <1>4 DEF WritersIn, ReadersIn
<1>5. CASE q = p /\ c.op = "join"
  <2>1. /\ roles'[q] = roles[q] \cup {<<e, c.key>>}
        /\ graph'[q] = Insert(graph[q], e)
        /\ nodeReaders[q] \subseteq nodeReaders'[q]
        /\ e \in Reader => <<e, c.key>> \in nodeReaders'[q]
    BY <1>3, <1>5 DEF DisposeRoles, Add, e
  <2>2. \A m : /\ WritersIn(q, m) \subseteq WritersIn(q, m)'
               /\ ReadersIn(q, m) \subseteq ReadersIn(q, m)'
    BY <2>1 DEF WritersIn, ReadersIn
  <2>3. /\ e \in Writer => <<e, c.key>> \in WritersIn(q, n)'
        /\ e \in Reader => <<e, c.key>> \in ReadersIn(q, n)'
    BY <2>1 DEF WritersIn, ReadersIn, n
  <2>4. /\ graph'[q].list = graph'[q].src \X graph'[q].dst
        /\ \A m \in graph'[q].src : m \in graph[q].src \/ (m = n /\ e \in Writer)
        /\ \A m \in graph'[q].dst : m \in graph[q].dst \/ (m = n /\ e \in Reader)
    <3>1. n = VertexOf(e)
      BY DEF n
    <3>2. CASE e \in Writer
      <4>1. /\ Insert(graph[q], e).src = graph[q].src \cup {n}
            /\ Insert(graph[q], e).dst = graph[q].dst
        BY <1>1, <1>2, <3>1, <3>2, Graphing
      <4>2. Insert(graph[q], e).list =
              Insert(graph[q], e).src \X Insert(graph[q], e).dst
        BY <1>1, <1>2, Completed
      <4> QED
        BY <2>1, <3>2, <4>1, <4>2
    <3>3. CASE e \in Reader
      <4>1. /\ Insert(graph[q], e).dst = graph[q].dst \cup {n}
            /\ Insert(graph[q], e).src = graph[q].src
        BY <1>1, <1>2, <3>1, <3>3, Graphing
      <4>2. Insert(graph[q], e).list =
              Insert(graph[q], e).src \X Insert(graph[q], e).dst
        BY <1>1, <1>2, Completed
      <4> QED
        BY <2>1, <3>3, <4>1, <4>2
    <3> QED
      BY <1>1, <3>2, <3>3
  <2>5. \A x \in roles'[q] : x[1] \in Reader => x \in nodeReaders'[q]
    BY <1>2, <2>1
  <2> QED
    BY <1>2, <2>2, <2>3, <2>4, <2>5
<1>6. CASE q = p /\ c.op = "leave"
  <2>1. /\ roles'[q] = roles[q] \ {<<e, c.key>>}
        /\ graph'[q] = Delete(graph[q], e)
        /\ nodeReaders'[q] = nodeReaders[q]
    BY <1>3, <1>6 DEF DisposeRoles, RemoveRole, e
  <2>2. ASSUME NEW m, NEW x, x \in WritersIn(q, m), m # n \/ e \notin Writer
        PROVE  x \in WritersIn(q, m)'
    <3>1. x \in roles[q] /\ x[1] \in Writer /\ VertexOf(x[1]) = m
      BY <2>2 DEF WritersIn
    <3>2. x # <<e, c.key>>
      BY <2>2, <3>1 DEF n
    <3> QED
      BY <2>1, <3>1, <3>2 DEF WritersIn
  <2>3. ASSUME NEW m, NEW x, x \in ReadersIn(q, m), m # n \/ e \notin Reader
        PROVE  x \in ReadersIn(q, m)'
    <3>1. x \in roles[q] /\ x[1] \in Reader /\ VertexOf(x[1]) = m
      BY <2>3 DEF ReadersIn
    <3>2. x # <<e, c.key>>
      BY <2>3, <3>1 DEF n
    <3> QED
      BY <2>1, <3>1, <3>2 DEF ReadersIn
  <2>4. /\ graph'[q].list = graph'[q].src \X graph'[q].dst
        /\ \A m \in graph'[q].src : m \in graph[q].src /\ (m # n \/ e \notin Writer)
        /\ \A m \in graph'[q].dst : m \in graph[q].dst /\ (m # n \/ e \notin Reader)
    <3>1. n = VertexOf(e)
      BY DEF n
    <3>2. CASE e \in Writer
      <4>1. /\ Delete(graph[q], e).src = graph[q].src \ {n}
            /\ Delete(graph[q], e).dst = graph[q].dst
        BY <1>1, <1>2, <3>1, <3>2, Graphing
      <4>2. Delete(graph[q], e).list =
              Delete(graph[q], e).src \X Delete(graph[q], e).dst
        BY <1>1, <1>2, Completed
      <4> QED
        BY TopologyAssumption, <2>1, <3>2, <4>1, <4>2
    <3>3. CASE e \in Reader
      <4>1. /\ Delete(graph[q], e).dst = graph[q].dst \ {n}
            /\ Delete(graph[q], e).src = graph[q].src
        BY <1>1, <1>2, <3>1, <3>3, Graphing
      <4>2. Delete(graph[q], e).list =
              Delete(graph[q], e).src \X Delete(graph[q], e).dst
        BY <1>1, <1>2, Completed
      <4> QED
        BY TopologyAssumption, <2>1, <3>3, <4>1, <4>2
    <3> QED
      BY <1>1, <3>2, <3>3
  <2>5. \A x \in roles'[q] : x[1] \in Reader => x \in nodeReaders'[q]
    BY <1>2, <2>1
  <2> QED
    BY <1>2, <2>2, <2>3, <2>4, <2>5
<1> QED
  BY <1>4, <1>5, <1>6

LEMMA DisposesTold ==
  ASSUME Inv, NEW t \in Thread, NEW c \in Changes, Disposes(t, c),
         Own(t, c) \/ Remote(t, c)
  PROVE  Told'
<1> USE Places
<1>1. /\ job[t] = NONE /\ ~Busy(t)
      /\ UNCHANGED <<todo, copy, cur, conn>>
      /\ \A u \in Thread : /\ pc'[u] = IF u = t THEN "notify" ELSE pc[u]
                           /\ job'[u] = IF u = t THEN c ELSE job[u]
  BY DEF Inv, TypeOK, Disposes, Working
<1>2. Onwards
  BY DisposesWorking
<1> SUFFICES ASSUME NEW r \in Reader, NEW w \in Writer,
                    pc'[r] \in {"join", "joined"} \/ Joining(r)',
                    <<w, "channel">> \in roles'[Home(r)], Stays(w)',
                    w \notin conn'[Home(r)] \cup todo'[r]
             PROVE  \E u \in Thread : WillCall(u, r, w)'
  BY DEF Told, Home
<1>3. CASE <<w, "channel">> \in roles[Home(r)]
  <2>1. pc[r] \in {"join", "joined"} \/ Joining(r)
    BY <1>1 DEF Joining, Own, Remote
  <2>2. PICK u \in Thread : WillCall(u, r, w)
    BY <1>1, <1>2, <1>3, <2>1 DEF Inv, Told, Onwards
  <2>3. u # t
    BY <1>1, <2>2 DEF WillCall, Joining
  <2>4. WillCall(u, r, w)'
    BY <1>1, <2>2, <2>3 DEF WillCall, Joining, Home
  <2> QED
    BY <2>4
<1>4. CASE <<w, "channel">> \notin roles[Home(r)]
  <2>1. w \in Endpoint /\ "channel" \in AllKeys
    BY DEF AllKeys
  <2>2. Home(r) = Home(t) /\ w = c.role /\ c.op = "join"
    BY <1>4, <2>1, RolesAfter DEF Inv
  <2>3. WillCall(t, r, w)'
    BY <1>1, <2>2 DEF WillCall, Joining, Home
  <2> QED
    BY <2>3
<1> QED
  BY <1>3, <1>4

LEMMA DisposesDeparting ==
  ASSUME Inv, NEW t \in Thread, NEW c \in Changes, Disposes(t, c),
         Own(t, c) \/ Remote(t, c), HeardOnce
  PROVE  Departing'
<1> USE Places
<1>1. /\ job[t] = NONE
      /\ \A u \in Thread : /\ pc'[u] = IF u = t THEN "notify" ELSE pc[u]
                           /\ job'[u] = IF u = t THEN c ELSE job[u]
  BY DEF Inv, TypeOK, Disposes, Working, Busy
<1>2. Onwards
  BY DisposesWorking
<1>3. "channel" \in AllKeys
  BY DEF AllKeys
<1> SUFFICES ASSUME NEW u \in Thread, Leaving(u)', Stays(job[u].role)'
             PROVE  <<job'[u].role, "channel">> \notin roles'[Home(u)]
  BY DEF Departing, Home
<1>4. CASE u = t
  <2>1. c.op = "leave" /\ job'[t] = c /\ Stays(c.role)'
    BY <1>1, <1>4 DEF Leaving
  <2>2. CASE Own(t, c)
    BY <1>1, <2>1, <2>2 DEF Own, Stays, Leaving
  <2>3. CASE Remote(t, c)
    <3>1. pc[c.role] # "gone"
      BY <1>2, <2>1 DEF Onwards, Stays
    <3>2. <<c.role, c.key>> \in roles[t] /\ Home(c.role) # t
      BY <2>1, <2>3, <3>1 DEF Remote
    <3>3. \A k \in AllKeys : <<c.role, k>> \in roles[t] => k = c.key
      BY <2>3, <3>2 DEF Remote, HeardOnce, Heard
    <3> QED
      BY <1>3, <1>4, <2>1, <2>3, <3>3, RolesAfter DEF Inv, Remote
  <2> QED
    BY <2>2, <2>3
<1>5. CASE u # t
  <2>1. PICK d \in Changes : job[u] = d /\ job'[u] = d /\ Leaving(u)
    BY <1>1, <1>5 DEF Leaving, Inv, TypeOK
  <2>2. <<d.role, "channel">> \notin roles[Home(u)]
    BY <1>2, <2>1 DEF Inv, Departing, Onwards
  <2>3. Busy(u)
    BY <2>1 DEF Inv, Working
  <2>4. CASE Home(u) = Home(t) /\ c.role = d.role
    <3>1. CASE u \in Endpoint
      <4>1. d.role = u /\ ProcOf[u] = Home(u)
        BY <2>1, <2>3, <3>1 DEF Inv, Working
      <4> QED
        BY <1>5, <2>4, <4>1 DEF Own, Remote
    <3>2. CASE u \in Proc
      <4>1. ProcOf[d.role] # u
        BY <2>1, <2>3, <3>2 DEF Inv, Working
      <4>2. t \notin Proc
        BY <1>5, <2>4, <3>2
      <4>3. c.role = t /\ t \in Endpoint
        BY <4>2 DEF Own, Remote, Thread
      <4> QED
        BY <2>4, <3>2, <4>1, <4>3
    <3> QED
      BY <3>1, <3>2 DEF Thread
  <2>5. CASE ~(Home(u) = Home(t) /\ c.role = d.role)
    BY <1>3, <2>1, <2>2, <2>5, RolesAfter DEF Inv
  <2> QED
    BY <2>4, <2>5
<1> QED
  BY <1>4, <1>5

(* All but HeardOnce, which depends on where the change came from.         *)
LEMMA DisposesInv ==
  ASSUME Inv, NEW t \in Thread, NEW c \in Changes, Disposes(t, c),
         Own(t, c) \/ Remote(t, c), HeardOnce'
  PROVE  Inv'
<1>1. TypeOK'
  BY DisposesTypeOK DEF Inv
<1>2. Working' /\ Listening' /\ Calling' /\ Enabling' /\ Connected' /\ Onwards
  BY DisposesWorking
<1>3. Sent'
  BY <1>1, <1>2, SentKept DEF Inv, Disposes
<1>4. Stored' /\ Backed' /\ Told' /\ Departing'
  BY DisposesStored, DisposesBacked, DisposesTold, DisposesDeparting DEF Inv
<1> QED
  BY <1>1, <1>2, <1>3, <1>4 DEF Inv

(* Join, Leave, OnRemoteChange and ParticipantLeft *)

LEMMA AnnounceInv ==
  ASSUME Inv, NEW e \in Endpoint, Join(e) \/ Leave(e), e \in valid
  PROVE  Inv'
<1> USE Places
<1>1. PICK c \in Changes :
        /\ c.role = e /\ c.key = "channel" /\ Dispose(Home(e), c)
        /\ job' = [job EXCEPT ![e] = c] /\ pc' = [pc EXCEPT ![e] = "notify"]
        /\ \/ c.op = "join" /\ pc[e] = "join" /\ (e \in Reader => todo[e] = {})
           \/ c.op = "leave" /\ pc[e] = "leave"
  <2>1. CASE Join(e)
    <3> DEFINE c == [op |-> "join", role |-> e, key |-> "channel"]
    <3>1. c \in Changes /\ c.role = e /\ c.key = "channel" /\ c.op = "join"
      BY DEF Changes, AllKeys
    <3>2. /\ Dispose(Home(e), c) /\ job' = [job EXCEPT ![e] = c]
          /\ pc' = [pc EXCEPT ![e] = "notify"]
          /\ pc[e] = "join" /\ (e \in Reader => todo[e] = {})
      BY <2>1 DEF Join, Announce
    <3> HIDE DEF c
    <3> QED
      BY <3>1, <3>2
  <2>2. CASE Leave(e)
    <3> DEFINE c == [op |-> "leave", role |-> e, key |-> "channel"]
    <3>1. c \in Changes /\ c.role = e /\ c.key = "channel" /\ c.op = "leave"
      BY DEF Changes, AllKeys
    <3>2. /\ Dispose(Home(e), c) /\ job' = [job EXCEPT ![e] = c]
          /\ pc' = [pc EXCEPT ![e] = "notify"] /\ pc[e] = "leave"
      BY <2>2 DEF Leave, Announce
    <3> HIDE DEF c
    <3> QED
      BY <3>1, <3>2
  <2> QED
    BY <2>1, <2>2
<1>2. UNCHANGED <<todo, valid, slots, copy, cur, links, conn, tx, net, up, gone,
                  crashed, lost>>
  BY DEF Join, Leave, sigVars, transVars, procVars
<1>3. Disposes(e, c) /\ Own(e, c)
  BY <1>1, <1>2, NothingDelivered DEF Disposes, Own, Busy, Inv, TypeOK
<1>4. Onwards
  BY <1>3, DisposesWorking
<1>5. HeardOnce'
  <2>1. \A f \in Endpoint : \A p \in Proc \ {Home(f)} : \A k \in AllKeys :
          <<f, k>> \in roles'[p] => <<f, k>> \in roles[p]
    BY <1>1, <1>3, RolesAfter DEF Inv
  <2>2. \A f \in Endpoint : \A p \in Proc \ {Home(f)} : Heard(f, p)'
    BY <1>3, <1>4, <2>1, HeardKept DEF Inv, Disposes
  <2> QED
    BY <2>2 DEF HeardOnce, Home
<1> QED
  BY <1>1, <1>3, <1>5, DisposesInv

LEMMA ParticipantLeftInv ==
  ASSUME Inv, NEW p \in Proc, NEW q \in Proc,
         NEW found \in SearchAttributes(roles[p], q), ParticipantLeft(p, q, found)
  PROVE  Inv'
<1> USE Places
<1>1. /\ UNCHANGED <<todo, valid, slots, copy, cur, links, conn, tx, net, up,
                     crashed, lost>>
      /\ pc[p] = "idle" /\ p # q /\ gone' = [gone EXCEPT ![p] = @ \cup {q}]
  BY DEF ParticipantLeft, Runs, sigVars, transVars
<1>2. gone' \in [Proc -> SUBSET Proc] /\ lost' \in 0..MaxFaults
  BY <1>1 DEF Inv, TypeOK
<1>3. CASE found = {}
  <2>1. UNCHANGED <<pc, job, roles, nodeReaders, graph>>
    BY <1>3 DEF ParticipantLeft, dataVars
  <2>2. TypeOK'
    BY <1>1, <1>2, <2>1 DEF Inv, TypeOK
  <2>3. Onwards
    BY <2>1 DEF Onwards, Announcing, Joining, Stays, Leaving
  <2>4. Working' /\ Listening' /\ Calling' /\ Enabling' /\ Connected' /\ Departing'
    BY <1>1, <2>1 DEF Inv, Working, Busy, Listening, Listens, Joining, Calling,
       Enabling, Connected, Departing, Leaving, Stays, Home, Attends
  <2>5. Sent' /\ HeardOnce' /\ Stored' /\ Backed'
    BY <1>1, <2>1, <2>2, <2>3, NothingDelivered, SentKept, HeardOnceKept,
       StoredKept, BackedKept DEF Inv, TypeOK, IsMember, Joining, dataVars
  <2>6. Told'
    BY <1>1, <2>1 DEF Inv, Told, Joining, Stays, Leaving, WillCall, Home
  <2> QED
    BY <2>2, <2>4, <2>5, <2>6 DEF Inv
<1>4. CASE found # {}
  <2>1. PICK x \in found :
          LET c == [op |-> "leave", role |-> x[1], key |-> x[2]] IN
            /\ Dispose(p, c) /\ job' = [job EXCEPT ![p] = c]
            /\ pc' = [pc EXCEPT ![p] = "notify"]
    BY <1>4 DEF ParticipantLeft
  <2>2. x \in roles[p] /\ ProcOf[x[1]] = q
    BY <2>1 DEF SearchAttributes
  <2>3. x[1] \in Endpoint /\ x[2] \in AllKeys /\ x = <<x[1], x[2]>>
    BY <2>2 DEF Inv, TypeOK
  <2> DEFINE c == [op |-> "leave", role |-> x[1], key |-> x[2]]
  <2>4. c \in Changes /\ c.role = x[1] /\ c.key = x[2] /\ c.op = "leave"
    BY <2>3 DEF Changes
  <2>5. /\ Dispose(p, c) /\ job' = [job EXCEPT ![p] = c]
        /\ pc' = [pc EXCEPT ![p] = "notify"]
    BY <2>1
  <2> HIDE DEF c
  <2>6. Disposes(p, c)
    BY <1>1, <1>2, <2>5, NothingDelivered, SMTT(40) DEF Disposes, Busy, Inv, TypeOK
  <2>7. ~Announcing(x[1])
    BY <1>1, <2>2, <2>3 DEF Inv, HeardOnce, Heard
  <2>8. Remote(p, c)
    BY <1>1, <2>2, <2>3, <2>4, <2>7 DEF Remote
  <2>9. Onwards
    BY <2>4, <2>6, <2>8, DisposesWorking
  <2>10. HeardOnce'
    <3>1. \A f \in Endpoint : \A a \in Proc \ {Home(f)} : \A k \in AllKeys :
            <<f, k>> \in roles'[a] => <<f, k>> \in roles[a]
      BY <2>4, <2>6, RolesAfter DEF Inv
    <3>2. \A f \in Endpoint : \A a \in Proc \ {Home(f)} : Heard(f, a)'
      BY <2>6, <2>9, <3>1, HeardKept DEF Inv, Disposes
    <3> QED
      BY <3>2 DEF HeardOnce, Home
  <2> QED
    BY <2>4, <2>6, <2>8, <2>10, DisposesInv
<1> QED
  BY <1>3, <1>4

LEMMA OnRemoteChangeInv ==
  ASSUME Inv, NEW p \in Proc, NEW q \in Proc, NEW k \in Keys,
         OnRemoteChange(p, q, k)
  PROVE  Inv'
<1> USE Places
<1>1. /\ pc[p] = "idle" /\ net[q][p] # <<>>
      /\ net' = [net EXCEPT ![q][p] = Tail(@)]
      /\ UNCHANGED <<todo, valid, slots, copy, cur, links, conn, tx, up, gone,
                     crashed>>
  BY DEF OnRemoteChange, Take, sigVars, transVars, procVars
<1>2. Delivered /\ net' \in [Proc -> [Proc -> Seq(Changes)]]
  BY <1>1, OneDelivered DEF Inv
<1>3. CASE k = "zero"
  <2>1. UNCHANGED <<pc, job, roles, nodeReaders, graph>>
    BY <1>3 DEF OnRemoteChange, dataVars
  <2>2. lost' \in 0..MaxFaults
    BY <1>3, FaultsBound DEF OnRemoteChange, Inv
  <2>3. TypeOK'
    BY <1>1, <1>2, <2>1, <2>2 DEF Inv, TypeOK
  <2>4. Onwards
    BY <2>1 DEF Onwards, Announcing, Joining, Stays, Leaving
  <2>5. Working' /\ Listening' /\ Calling' /\ Enabling' /\ Connected' /\ Departing'
    BY <1>1, <2>1 DEF Inv, Working, Busy, Listening, Listens, Joining, Calling,
       Enabling, Connected, Departing, Leaving, Stays, Home, Attends
  <2>6. Sent' /\ HeardOnce' /\ Stored' /\ Backed'
    BY <1>1, <1>2, <2>1, <2>3, <2>4, SentKept, HeardOnceKept,
       StoredKept, BackedKept DEF Inv, IsMember, Joining, dataVars
  <2>7. Told'
    BY <1>1, <2>1 DEF Inv, Told, Joining, Stays, Leaving, WillCall, Home
  <2> QED
    BY <2>3, <2>5, <2>6, <2>7 DEF Inv
<1>4. CASE k # "zero"
  <2> DEFINE h == Head(net[q][p])
             c == [h EXCEPT !.key = k]
  <2>1. /\ h \in Changes /\ h = net[q][p][1] /\ 1 \in 1..Len(net[q][p])
        /\ Len(net[q][p]) \in Nat
    BY <1>1 DEF Inv, TypeOK
  <2>2. c \in Changes /\ c.role = h.role /\ c.op = h.op /\ c.key = k
    BY <2>1 DEF Changes, AllKeys
  <2>3. MaySend(q, p, h)
    BY <2>1 DEF Inv, Sent
  <2>4. /\ Dispose(p, c) /\ job' = [job EXCEPT ![p] = c]
        /\ pc' = [pc EXCEPT ![p] = "notify"] /\ lost' = lost
    BY <1>4 DEF OnRemoteChange
  <2> HIDE DEF c, h
  <2>5. gone' \in [Proc -> SUBSET Proc] /\ lost' \in 0..MaxFaults
    BY <1>1, <2>4 DEF Inv, TypeOK
  <2>6. Disposes(p, c)
    BY <1>1, <1>2, <2>4, <2>5 DEF Disposes, Busy
  <2>7. Remote(p, c)
    BY <2>2, <2>3 DEF Remote, MaySend
  <2>8. Onwards
    BY <2>2, <2>6, <2>7, DisposesWorking
  <2>9. ASSUME NEW f \in Endpoint, NEW a \in Proc \ {Home(f)}
        PROVE  Heard(f, a)'
    <3>1. CASE f = c.role /\ a = p /\ c.op = "join"
      <4> DEFINE s == net[q][p]
                 s1 == net'[q][p]
      <4>1. Home(f) = q
        BY <2>2, <2>3, <3>1 DEF MaySend
      <4>2. JoinAt(q, p, 1, f)
        BY <2>1, <2>2, <3>1 DEF JoinAt
      <4>3. /\ \A i \in 1..Len(s) : JoinAt(q, p, i, f) => i = 1
            /\ \A l \in AllKeys : <<f, l>> \notin roles[p]
        BY <2>1, <3>1, <4>1, <4>2 DEF Inv, HeardOnce, Heard
      <4>4. /\ s \in Seq(Changes) /\ s # <<>> /\ s1 = Tail(s)
        BY <1>1 DEF Inv, TypeOK
      <4>5. \A i \in 1..Len(s1) : i + 1 \in 1..Len(s) /\ i + 1 # 1 /\ s1[i] = s[i + 1]
        BY <4>4, TailOf
      <4>6. \A i \in 1..Len(s1) : ~JoinAt(q, p, i, f)'
        BY <4>3, <4>5 DEF JoinAt
      <4>7. ~Announcing(f)'
        BY <2>2, <2>3, <2>8, <3>1 DEF MaySend, Onwards
      <4>8. \A l \in AllKeys : <<f, l>> \in roles'[p] => l = k
        BY <2>2, <2>6, <3>1, <4>3, RolesAfter DEF Inv
      <4> QED
        BY <3>1, <4>1, <4>6, <4>7, <4>8 DEF Heard, Home
    <3>2. CASE ~(f = c.role /\ a = p /\ c.op = "join")
      <4>1. \A l \in AllKeys : <<f, l>> \in roles'[a] => <<f, l>> \in roles[a]
        BY <2>2, <2>6, <3>2, RolesAfter DEF Inv
      <4> QED
        BY <1>2, <2>8, <4>1, HeardKept DEF Inv
    <3> QED
      BY <3>1, <3>2
  <2>10. HeardOnce'
    BY <2>9 DEF HeardOnce, Home
  <2> QED
    BY <2>2, <2>6, <2>7, <2>10, DisposesInv
<1> QED
  BY <1>3, <1>4

(***************************************************************************)
(* The invariant, and what follows from it                                 *)
(***************************************************************************)
LEMMA InitInv == Init => Inv
<1> SUFFICES ASSUME Init PROVE Inv
  OBVIOUS
<1> USE Places
<1>1. TypeOK
  <2>1. /\ pc \in [Thread -> {"idle", "new", "listening", "join", "notify",
                             "calling", "joined", "leave", "gone"}]
        /\ valid \subseteq Endpoint /\ lost \in 0..MaxFaults
    BY TopologyAssumption DEF Init
  <2>2. graph \in [Proc -> [src : SUBSET Vertices, dst : SUBSET Vertices,
                           list : SUBSET (Vertices \X Vertices)]]
    BY DEF Init, NoGraph
  <2>3. net \in [Proc -> [Proc -> Seq(Changes)]]
    BY DEF Init
  <2> QED
    BY <2>1, <2>2, <2>3 DEF Init, TypeOK
<1>2. \A t \in Thread : /\ job[t] = NONE /\ copy[t] = {} /\ cur[t] = NONE
                        /\ pc[t] = IF t \in Proc THEN "idle" ELSE "new"
  BY DEF Init
<1>3. \A p \in Proc : /\ roles[p] = {} /\ slots[p] = {} /\ conn[p] = {}
                      /\ graph[p] = NoGraph /\ \A q \in Proc : net[p][q] = <<>>
  BY DEF Init
<1>4. Working /\ Listening /\ Enabling /\ Connected /\ Departing /\ Told
  BY <1>2, <1>3 DEF Init, Working, Busy, Listening, Listens, Joining, Enabling,
     Connected, Departing, Leaving, Told
<1>5. Calling
  BY <1>2 DEF Calling
<1>6. Sent /\ HeardOnce
  BY <1>3 DEF Sent, HeardOnce, Heard
<1>7. Stored
  BY <1>1, <1>2, <1>3 DEF Stored, IsMember, Joining, TypeOK
<1>8. Backed
  BY <1>3 DEF Backed, NoGraph
<1> QED
  BY <1>1, <1>4, <1>5, <1>6, <1>7, <1>8 DEF Inv

LEMMA NextInv == Inv /\ [Next]_vars => Inv'
<1> SUFFICES ASSUME Inv, [Next]_vars PROVE Inv'
  OBVIOUS
<1>1. \A e \in Endpoint : e \in Thread
  BY Places
<1>2. \A p \in Proc : p \in Thread
  BY Places
<1>3. ASSUME NEW e \in Endpoint, EndpointStep(e)
      PROVE  Inv'
  <2>1. CASE \E s \in Endpoint : CallSlot(e, s)
    BY <1>1, <2>1, CallSlotInv
  <2>2. CASE NotifyCopy(e)
    BY <1>1, <2>2, NotifyCopyInv
  <2>3. CASE OnChannelChange(e)
    BY <1>1, <2>3, OnChannelChangeInv
  <2>4. CASE e \in Reader /\ GetWritersOfChannel(e)
    BY <2>4, GetWritersInv
  <2>5. CASE e \in Reader /\ \E w \in Writer : EnableWriter(e, w)
    BY <2>5, EnableWriterInv
  <2>6. CASE Join(e) \/ Leave(e)
    BY <2>6, AnnounceInv, RefusedInv DEF Join, Leave
  <2>7. CASE Write(e)
    BY <2>7, WriteInv
  <2> QED
    BY <1>3, <2>1, <2>2, <2>3, <2>4, <2>5, <2>6, <2>7 DEF EndpointStep
<1>4. ASSUME NEW p \in Proc, HandlerStep(p)
      PROVE  Inv'
  <2>1. CASE \E s \in Endpoint : CallSlot(p, s)
    BY <1>2, <2>1, CallSlotInv
  <2>2. CASE NotifyCopy(p)
    BY <1>2, <2>2, NotifyCopyInv
  <2>3. CASE OnChannelChange(p)
    BY <1>2, <2>3, OnChannelChangeInv
  <2>4. CASE HandlerReturns(p)
    BY <2>4, HandlerReturnsInv
  <2>5. ASSUME NEW q \in Proc, NEW k \in Keys, OnRemoteChange(p, q, k)
        PROVE  Inv'
    BY <2>5, OnRemoteChangeInv
  <2>6. ASSUME NEW q \in Proc, NEW found \in SearchAttributes(roles[p], q),
               ParticipantLeft(p, q, found)
        PROVE  Inv'
    BY <2>6, ParticipantLeftInv
  <2> QED
    BY <1>4, <2>1, <2>2, <2>3, <2>4, <2>5, <2>6 DEF HandlerStep
<1>5. CASE UserCalls
  BY <1>5, AddChangeListenerInv, RemoveChangeListenerInv DEF UserCalls
<1>6. CASE Environment
  BY <1>6, ExitInv, LoseInv DEF Environment
<1>7. CASE UNCHANGED vars
  <2>1. UNCHANGED <<pc, job, todo, valid, slots, copy, cur, roles, nodeReaders,
                    graph, links, conn, tx, net, up, gone, crashed, lost>>
    BY <1>7 DEF vars, sigVars, dataVars, transVars, procVars
  <2>2. TypeOK'
    BY <2>1 DEF Inv, TypeOK
  <2>3. Onwards
    BY <2>1 DEF Onwards, Announcing, Joining, Stays, Leaving
  <2>4. Working' /\ Listening' /\ Calling' /\ Enabling' /\ Connected' /\ Departing'
    BY <2>1 DEF Inv, Working, Busy, Listening, Listens, Joining, Calling,
       Enabling, Connected, Departing, Leaving, Stays, Home, Attends
  <2>5. Sent' /\ HeardOnce' /\ Stored' /\ Backed'
    BY <2>1, <2>2, <2>3, NothingDelivered, SentKept, HeardOnceKept,
       StoredKept, BackedKept DEF Inv, TypeOK, IsMember, Joining, dataVars
  <2>6. Told'
    BY <2>1 DEF Inv, Told, Joining, Stays, Leaving, WillCall, Home
  <2> QED
    BY <2>2, <2>4, <2>5, <2>6 DEF Inv
<1> QED
  BY <1>3, <1>4, <1>5, <1>6, <1>7 DEF Next

LEMMA Invariant == Spec => []Inv
BY InitInv, NextInv, PTL DEF Spec

(* Every reachable state is well formed: whatever the threads and the      *)
(* network do, no vertex of a graph but the node of an endpoint, and no    *)
(* connection taken back that was never made (Insert, Connect, Disconnect).*)
THEOREM TypeCorrect == Spec => []TypeOK
<1>1. Inv => TypeOK
  BY DEF Inv
<1> QED
  BY <1>1, Invariant, PTL

(* A process finds its own endpoints from the moment they have joined to   *)
(* the moment they leave, and never one that has left (OwnRoles): no change*)
(* of another process, and no departure, alters that (Join, Leave,         *)
(* OnRemoteChange, ParticipantLeft).                                       *)
THEOREM OwnRolesHold == Spec => []OwnRoles
<1>1. Inv => OwnRoles
  BY Places DEF Inv, Stored, OwnRoles, IsMember, Joining, Working, Busy, AllKeys, TypeOK
<1> QED
  BY <1>1, Invariant, PTL

(* The graph and the warehouses agree, in every state, for any map of the  *)
(* nodes to vertices (EdgesAreBacked): what LevelTraverse finds to be      *)
(* upstream has a writer's role there, and a reader's where it leads, and  *)
(* the nodes of these are told each other's vertex by the queries for the  *)
(* neighbours (FillInAttr, Dispose, Insert, Delete, GetDirectionOf).       *)
THEOREM EdgesHold == Spec => []EdgesAreBacked
<1>1. Inv => EdgesAreBacked
  <2> SUFFICES ASSUME Inv PROVE EdgesAreBacked
    OBVIOUS
  <2>1. TypeOK /\ \A p \in Proc : graph[p].list = graph[p].src \X graph[p].dst
    BY DEF Inv, Backed
  <2>2. ASSUME NEW p \in Proc, NEW a \in Vertices, NEW b \in Vertices, a # b,
               GetFlowDirection(p, a, b) = "UPSTREAM"
        PROVE  /\ WritersIn(p, a) # {} /\ ReadersIn(p, b) # {}
               /\ Listed(WritersIn(p, a)) =>
                    \A x \in ReadersIn(p, b) :
                      a \in GetUpstreamOfNode(p, NodeOf[x[1]])
               /\ Listed(ReadersIn(p, b)) =>
                    \A x \in WritersIn(p, a) :
                      b \in GetDownstreamOfNode(p, NodeOf[x[1]])
    <3>1. LevelTraverse(graph[p], a, b)
      BY <2>2 DEF GetFlowDirection, GetDirectionOf
    <3>2. a \in graph[p].src /\ b \in graph[p].dst
      BY <2>1, <2>2, <3>1, Traversed
    <3>3. WritersIn(p, a) # {} /\ ReadersIn(p, b) # {}
      BY <3>2 DEF Inv, Backed
    <3>4. roles[p] \subseteq Endpoint \X AllKeys
      BY DEF Inv, TypeOK
    <3>5. ASSUME NEW x \in WritersIn(p, a), x[2] = "channel",
                 NEW y \in ReadersIn(p, b)
          PROVE  a \in GetUpstreamOfNode(p, NodeOf[y[1]])
      <4>1. y \in nodeReaders[p]
        BY <3>5 DEF Inv, Backed, ReadersIn
      <4>2. x[1] \in Search(roles[p], "channel") \cap Writer /\ VertexOf(x[1]) = a
        BY <3>4, <3>5 DEF WritersIn, Search
      <4> QED
        BY <4>1, <4>2 DEF GetUpstreamOfNode
    <3>6. ASSUME NEW x \in ReadersIn(p, b), x[2] = "channel",
                 NEW y \in WritersIn(p, a)
          PROVE  b \in GetDownstreamOfNode(p, NodeOf[y[1]])
      <4>1. y \in roles[p] /\ y[1] \in Writer
        BY <3>6 DEF WritersIn
      <4>2. x[1] \in Search(roles[p], "channel") \cap Reader /\ VertexOf(x[1]) = b
        BY <3>4, <3>6 DEF ReadersIn, Search
      <4> QED
        BY <4>1, <4>2 DEF GetDownstreamOfNode
    <3> QED
      BY <3>3, <3>5, <3>6 DEF Listed
  <2> QED
    BY <2>1, <2>2 DEF EdgesAreBacked
<1> QED
  BY <1>1, Invariant, PTL

(* A subscriber that has joined is connected to every writer its process   *)
(* has listed and told it of (NoMissedWriter): between AddChangeListener   *)
(* and the query of JoinTheTopology no writer slips through (NotifyCopy,   *)
(* GetWritersOfChannel, EnableWriter, OnChannelChange).                    *)
THEOREM NoWriterIsMissed == Spec => []NoMissedWriter
<1>1. Inv => NoMissedWriter
  <2> SUFFICES ASSUME Inv, NEW r \in Reader, NEW w \in Writer,
                      pc[r] = "joined", <<w, "channel">> \in roles[Home(r)],
                      pc[w] \notin {"leave", "gone"}, ~Leaving(w),
                      ~Notifying(Home(r), w)
               PROVE  w \in conn[Home(r)] /\ links[Home(r)][w] > 0
    BY DEF NoMissedWriter
  <2>1. w \in conn[Home(r)] \cup todo[r] \/ \E t \in Thread : WillCall(t, r, w)
    BY DEF Inv, Told, Stays
  <2>2. ~ \E t \in Thread : WillCall(t, r, w)
    BY DEF WillCall, Joining, Notifying
  <2>3. todo[r] = {}
    BY DEF Inv, Enabling
  <2>4. w \in conn[Home(r)] /\ Home(r) \in Proc
    BY <2>1, <2>2, <2>3, Places
  <2> QED
    BY <2>4 DEF Inv, Connected
<1> QED
  BY <1>1, Invariant, PTL
=============================================================================
