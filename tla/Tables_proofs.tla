----------------------------- MODULE Tables_proofs ----------------------------
(***************************************************************************)
(* What a process keeps outside of the data path: the names and their ids  *)
(* (NameRegistry), the pool of the contexts of routines (ObjectPool), the  *)
(* nodes of the system (NodeManager) and the classes of a library          *)
(* (ClassLoader), one after the other, for any threads, names, hash,       *)
(* objects, processes, nodes, loaders and calls.                           *)
(*                                                                         *)
(* The names. The lists are proved first: an exchange succeeds only where  *)
(* the place that was found is still the place of the key (Between). That  *)
(* names differ needs in addition that an entry keeps its key and is never *)
(* named by who avoids its id (Avoids, Apart).                             *)
(***************************************************************************)
EXTENDS Tables, Integers, Sequences, FiniteSetTheorems, TLAPS

(* The entries and the heads of the buckets, and their order.              *)
Places == Linked \cup Heads
Bucket(p) == IF p \in Heads THEN p ELSE HeadOf(entry[p].key)
Precedes(p, key) == p \in Heads \/ entry[p].key < key

(* The lists. An entry is of the bucket of its key and comes after entries *)
(* of smaller keys only (Sorted); from every place an entry of the same    *)
(* bucket with a greater key is still to come (Reached); no key is there   *)
(* twice, and nothing is cut off.                                          *)
Sorted ==
  \A p \in Places : next[p] # NULL =>
    /\ next[p] \in Linked /\ Bucket(next[p]) = Bucket(p)
    /\ Precedes(p, entry[next[p]].key)
Reached ==
  \A p \in Places : \A d \in Linked :
    Bucket(d) = Bucket(p) /\ Precedes(p, entry[d].key) =>
      next[p] # NULL /\ entry[next[p]].key <= entry[d].key
OnceEach == \A d, e \in Linked : entry[d].key = entry[e].key => d = e
HasPrevious == \A e \in Linked : \E p \in Places : next[p] = e
Lists == Sorted /\ Reached /\ OnceEach /\ HasPrevious

(* Of a thread: its entry is not linked before its exchange. Where it has  *)
(* stopped in the list it may link it, for its place is in the bucket of   *)
(* the key and before it, and what comes next is after it.                 *)
Fresh(t, r) ==
  \A k \in 1..MaxOps :
    <<t, k>> \in Linked => k < r.ops \/ (k = r.ops /\ r.pc = "idle")
Between(r) ==
  r.pc \in {"walk", "link"} =>
    /\ r.prev \in Places /\ Bucket(r.prev) = HeadOf(r.key)
    /\ Precedes(r.prev, r.key)
    /\ r.target # NULL =>
         /\ r.target \in Linked /\ Bucket(r.target) = HeadOf(r.key)
         /\ r.pc = "link" => r.key < entry[r.target].key
At(r) ==
  r.pc \in {"load", "read", "swap"} =>
    r.target \in Linked /\ entry[r.target].key = r.key
Purpose(r) ==
  /\ r.pc # "idle" =>
       r.ops \in 1..MaxOps /\ (r.for # "get" => r.name \in Names)
  /\ r.pc = "read" => r.for # "insert" /\ r.old # NULL
  /\ r.pc \in {"swap", "link"} => r.for = "insert"

(* Whoever registers n does not insert it under an id that another name    *)
(* had before: it finds the entry of that id, which is never named n.      *)
Avoids(r, n) ==
  r.pc # "idle" /\ r.name = n =>
    /\ earlier[n] # NULL
    /\ \A p \in earlier[n] : p[1] # n /\ p[2] = r.key =>
         /\ r.for # "insert"
         /\ r.pc = "walk" => r.target # NULL /\ entry[r.target].key <= r.key
Right(t, r) ==
  Fresh(t, r) /\ Between(r) /\ At(r) /\ Purpose(r)
    /\ \A n \in Names : Avoids(r, n)

Unknown(n) ==
  /\ \A e \in Linked : entry[e].value.name # n
  /\ \A q \in returned : q[1] # n
Taken(n, p) ==
  p[1] # n =>
    /\ \A e \in Linked : entry[e].key = p[2] => entry[e].value.name # n
    /\ \A q \in returned : q[1] = n => q[2] # p[2]
Apart(n) ==
  IF earlier[n] = NULL THEN Unknown(n)
  ELSE earlier[n] \subseteq returned /\ \A p \in earlier[n] : Taken(n, p)
Returned == \A p \in returned : \E e \in Linked : entry[e].key = p[2]

NamesInv == /\ TypeOK /\ Lists /\ Returned
            /\ \A t \in Threads : Right(t, th[t])
            /\ \A n \in Names : Apart(n)

-----------------------------------------------------------------------------
(* Buckets and places.                                                     *)
LEMMA Heading ==
  ASSUME NEW key \in Ids
  PROVE  HeadOf(key) \in Heads
<1>1. key \in Nat /\ TableSize \in Nat \ {0}
  BY RegistryAssumption DEF Ids
<1>2. key % TableSize \in 0..(TableSize - 1)
  BY <1>1
<1> QED
  BY <1>2 DEF HeadOf, Heads

LEMMA NoHead == Ops \cap Heads = {}
BY RegistryAssumption DEF Ops, Heads

LEMMA Linking ==
  ASSUME TypeOK, NEW e \in Linked
  PROVE  /\ e \in Ops /\ e \in Places /\ e \notin Heads
         /\ entry[e] \in Entries /\ entry[e].key \in Ids
         /\ entry[e].value \in Values /\ entry[e].value # NULL
         /\ entry[e].value.name \in Names
         /\ Bucket(e) = HeadOf(entry[e].key) /\ Bucket(e) \in Heads
<1>1. e \in Ops /\ e \notin Heads /\ entry[e] \in Entries
  BY NoHead DEF Linked, TypeOK
<1>2. entry[e].key \in Ids /\ entry[e].value \in Values
  BY <1>1 DEF Entries
<1> QED
  BY <1>1, <1>2, Heading, NullAssumption DEF Places, Bucket, Values

LEMMA IdsNat == Ids \subseteq Nat
BY RegistryAssumption DEF Ids

(* What follows from the lists for the properties: an entry follows one    *)
(* place only.                                                             *)
LEMMA OnePrevious ==
  ASSUME TypeOK, Lists, NEW p \in Places, NEW q \in Places,
         next[p] # NULL, next[p] = next[q]
  PROVE  p = q
<1>1. /\ next[p] \in Linked /\ Bucket(p) = Bucket(q)
      /\ Precedes(p, entry[next[p]].key) /\ Precedes(q, entry[next[p]].key)
  BY DEF Lists, Sorted
<1>2. \A d \in Linked : /\ entry[d].key \in Nat /\ d \notin Heads
                        /\ Bucket(d) = HeadOf(entry[d].key)
  BY Linking, IdsNat
<1>3. p \in Linked \/ p \in Heads
  BY DEF Places
<1>4. q \in Linked \/ q \in Heads
  BY DEF Places
<1>5. CASE p \in Heads /\ q \in Heads
  BY <1>1, <1>5 DEF Bucket
<1>6. CASE p \in Heads /\ q \in Linked
  <2>1. entry[q].key < entry[next[p]].key /\ entry[next[p]].key <= entry[q].key
    BY <1>1, <1>2, <1>6 DEF Lists, Reached, Precedes
  <2> QED
    BY <1>1, <1>2, <1>6, <2>1
<1>7. CASE p \in Linked /\ q \in Heads
  <2>1. entry[p].key < entry[next[p]].key /\ entry[next[p]].key <= entry[p].key
    BY <1>1, <1>2, <1>7 DEF Lists, Reached, Precedes
  <2> QED
    BY <1>1, <1>2, <1>7, <2>1
<1>8. CASE p \in Linked /\ q \in Linked
  <2>1. entry[p].key < entry[next[p]].key /\ entry[q].key < entry[next[p]].key
    BY <1>1, <1>2, <1>8 DEF Precedes
  <2>2. ~(entry[p].key < entry[q].key)
    BY <1>1, <1>2, <1>8, <2>1 DEF Lists, Reached, Precedes
  <2>3. ~(entry[q].key < entry[p].key)
    BY <1>1, <1>2, <1>8, <2>1 DEF Lists, Reached, Precedes
  <2>4. entry[p].key = entry[q].key
    BY <1>2, <1>8, <2>2, <2>3
  <2> QED
    BY <1>8, <2>4 DEF Lists, OnceEach
<1> QED
  BY <1>3, <1>4, <1>5, <1>6, <1>7, <1>8

LEMMA WholeLists ==
  ASSUME NamesInv
  PROVE  ListsWhole
<1>1. TypeOK /\ Lists
  BY DEF NamesInv
<1>2. ASSUME NEW e \in Linked
      PROVE  Cardinality({p \in Linked \cup Heads : next[p] = e}) = 1
  <2>1. PICK p \in Places : next[p] = e
    BY <1>1 DEF Lists, HasPrevious
  <2>2. e # NULL
    BY NullAssumption, Linking, <1>1
  <2>3. {q \in Linked \cup Heads : next[q] = e} = {p}
    BY <1>1, <2>1, <2>2, OnePrevious DEF Places
  <2> QED
    BY <2>3, FS_Singleton
<1>3. ASSUME NEW e \in Linked
      PROVE  next[e] # NULL =>
               next[e] \in Linked /\ entry[e].key < entry[next[e]].key
  BY <1>1, Linking DEF Lists, Sorted, Precedes
<1>4. ASSUME NEW e \in Linked, NEW p \in Heads, next[p] = e
      PROVE  p = HeadOf(entry[e].key)
  <2>1. p \in Places /\ Bucket(p) = p /\ e # NULL
    BY NullAssumption, Linking, <1>1 DEF Places, Bucket
  <2> QED
    BY <1>1, <1>4, <2>1, Linking DEF Lists, Sorted
<1> QED
  BY <1>1, <1>2, <1>3, <1>4 DEF ListsWhole, NamesInv, Lists, OnceEach, Returned

LEMMA LaterDiffer ==
  ASSUME NamesInv
  PROVE  LaterNamesDiffer
BY DEF NamesInv, LaterNamesDiffer, Apart, Taken

LEMMA InitNames ==
  ASSUME Init
  PROVE  NamesInv
<1>1. Linked = {} /\ Ops \cap Heads = {}
  BY NoHead DEF Init, Linked
<1>2. Idle \in ThreadStates
  BY RegistryAssumption DEF Idle, ThreadStates, Locations, Ids
<1>3. TypeOK
  BY <1>2 DEF Init, TypeOK
<1>4. Lists
  BY <1>1 DEF Init, Lists, Sorted, Reached, OnceEach, HasPrevious, Places
<1>5. \A t \in Threads : Right(t, th[t])
  BY <1>1 DEF Init, Idle, Right, Fresh, Between, At, Purpose, Avoids
<1>6. \A n \in Names : Apart(n)
  BY <1>1 DEF Init, Apart, Unknown
<1> QED
  BY <1>1, <1>3, <1>4, <1>5, <1>6 DEF NamesInv, Returned, Init

-----------------------------------------------------------------------------
(* Steps. The first lemma is for a step that leaves the lists alone.       *)
LEMMA Moves ==
  ASSUME NamesInv, NEW t \in Threads, NEW r \in ThreadStates, Right(t, r),
         Goto(t, r), UNCHANGED <<map, history>>, crashed' \in BOOLEAN
  PROVE  NamesInv'
<1>1. /\ entry' = entry /\ next' = next /\ returned' = returned
      /\ earlier' = earlier
      /\ Linked' = Linked
  BY DEF map, history, Linked
<1>2. \A u \in Threads : th'[u] = IF u = t THEN r ELSE th[u]
  BY DEF Goto, NamesInv, TypeOK
<1>3. TypeOK'
  BY <1>1 DEF NamesInv, TypeOK, Goto
<1>4. Lists' /\ Returned'
  BY <1>1
     DEF NamesInv, Lists, Sorted, Reached, OnceEach, HasPrevious, Returned,
         Places, Bucket, Precedes
<1>5. ASSUME NEW u \in Threads
      PROVE  Right(u, th[u])'
  <2>1. Right(u, th'[u])
    BY <1>2 DEF NamesInv
  <2> QED
    BY <1>1, <2>1
       DEF Right, Fresh, Between, At, Purpose, Avoids, Places, Bucket, Precedes
<1>6. ASSUME NEW n \in Names
      PROVE  Apart(n)'
  BY <1>1 DEF NamesInv, Apart, Unknown, Taken
<1> QED
  BY <1>3, <1>4, <1>5, <1>6 DEF NamesInv

LEMMA Walking ==
  ASSUME NEW r \in ThreadStates, NEW key \in Ids,
         NEW for \in {"has", "get", "insert"}
  PROVE  /\ Walk(r, key, for) \in ThreadStates
         /\ Walk(r, key, for).pc = "start" /\ Walk(r, key, for).ops = r.ops
         /\ Walk(r, key, for).name = r.name
         /\ Walk(r, key, for).key = key /\ Walk(r, key, for).for = for
<1>1. Walk(r, key, for) \in ThreadStates
  BY DEF Walk, ThreadStates, Locations
<1>2. /\ Walk(r, key, for).pc = "start" /\ Walk(r, key, for).ops = r.ops
      /\ Walk(r, key, for).name = r.name
  BY DEF Walk, ThreadStates
<1>3. Walk(r, key, for).key = key /\ Walk(r, key, for).for = for
  BY DEF Walk, ThreadStates
<1> QED
  BY <1>1, <1>2, <1>3

LEMMA Ending ==
  ASSUME NEW r \in ThreadStates
  PROVE  /\ Done(r) \in ThreadStates
         /\ Done(r).pc = "idle" /\ Done(r).ops = r.ops
BY RegistryAssumption DEF Done, Idle, ThreadStates, Locations, Ids

LEMMA Ended ==
  ASSUME NEW t \in Threads, NEW r \in ThreadStates, Fresh(t, r)
  PROVE  Right(t, Done(r))
BY Ending DEF Right, Fresh, Between, At, Purpose, Avoids

(* A walk begins, for the key of the walk that ended or for the next one.  *)
LEMMA WalksAgain ==
  ASSUME NEW t \in Threads, NEW r \in ThreadStates, Right(t, r), r.pc # "idle",
         NEW key \in Ids, NEW for \in {"has", "get", "insert"},
         for # "get" => r.name \in Names,
         for = "insert" => \A n \in Names : r.name = n =>
           \A p \in earlier[n] : ~(p[1] # n /\ p[2] = key)
  PROVE  Walk(r, key, for) \in ThreadStates /\ Right(t, Walk(r, key, for))
<1> DEFINE w == Walk(r, key, for)
<1>1. /\ w \in ThreadStates /\ w.pc = "start" /\ w.ops = r.ops
      /\ w.name = r.name
      /\ w.key = key /\ w.for = for
  BY Walking
<1> HIDE DEF w
<1>2. Right(t, w)
  BY <1>1 DEF Right, Fresh, Between, At, Purpose, Avoids
<1> QED
  BY <1>1, <1>2 DEF w

LEMMA BeginRight ==
  ASSUME NamesInv, NEW t \in Threads, NEW name \in Names \cup {NULL},
         NEW key \in Ids,
         NEW for \in {"has", "get"}, for # "get" => name \in Names,
         Begin(t, name, key, for)
  PROVE  \E r \in ThreadStates :
           /\ Goto(t, r) /\ Fresh(t, r) /\ r.pc = "start"
           /\ r.ops \in 1..MaxOps
           /\ r.name = name /\ r.key = key /\ r.for = for
<1> DEFINE b == [th[t] EXCEPT !.ops = @ + 1, !.name = name]
           r == Walk(b, key, for)
<1>1. th[t] \in ThreadStates /\ th[t].ops \in Nat /\ th[t].ops < MaxOps
        /\ MaxOps \in Nat
  BY RegistryAssumption DEF Begin, NamesInv, TypeOK, ThreadStates
<1>2. b \in ThreadStates /\ b.ops = th[t].ops + 1 /\ b.name = name
  <2>1. th[t].ops + 1 \in 0..MaxOps
    BY <1>1
  <2>2. b \in ThreadStates
    BY <1>1, <2>1 DEF ThreadStates
  <2>3. b.ops = th[t].ops + 1 /\ b.name = name
    BY <1>1 DEF ThreadStates
  <2> QED
    BY <2>2, <2>3
<1>3. Goto(t, r)
  BY DEF Begin
<1>4. Fresh(t, th[t])
  BY DEF NamesInv, Right
<1> HIDE DEF b
<1>5. /\ r \in ThreadStates /\ r.pc = "start" /\ r.ops = th[t].ops + 1
      /\ r.name = name
      /\ r.key = key /\ r.for = for
  BY <1>2, Walking
<1> HIDE DEF r
<1>6. Fresh(t, r)
  BY <1>1, <1>4, <1>5 DEF Fresh
<1> QED
  BY <1>1, <1>3, <1>5, <1>6

LEMMA GetByIdInv ==
  ASSUME NamesInv, NEW t \in Threads, NEW id \in Ids, GetById(t, id)
  PROVE  NamesInv'
<1>1. PICK r \in ThreadStates :
        /\ Goto(t, r) /\ Fresh(t, r) /\ r.pc = "start" /\ r.ops \in 1..MaxOps
        /\ r.name = NULL /\ r.key = id /\ r.for = "get"
  BY BeginRight DEF GetById
<1>2. Right(t, r)
  BY <1>1, NullAssumption DEF Right, Between, At, Purpose, Avoids
<1> QED
  BY <1>1, <1>2, Moves DEF GetById, NamesInv, TypeOK

(* A name that is registered for the first time is nowhere yet.            *)
LEMMA RegisterInv ==
  ASSUME NamesInv, NEW t \in Threads, NEW n \in Names, Register(t, n)
  PROVE  NamesInv'
<1>1. PICK r \in ThreadStates :
        /\ Goto(t, r) /\ Fresh(t, r) /\ r.pc = "start" /\ r.ops \in 1..MaxOps
        /\ r.name = n /\ r.key = Hash[n] /\ r.for = "has"
  <2>1. Hash[n] \in Ids
    BY RegistryAssumption DEF Ids
  <2> QED
    BY <2>1, BeginRight DEF Register
<1>2. /\ entry' = entry /\ next' = next /\ returned' = returned
      /\ crashed' = crashed
      /\ Linked' = Linked
      /\ earlier' = [earlier EXCEPT ![n] = IF @ = NULL THEN returned ELSE @]
  BY DEF Register, map, Linked
<1>3. returned \subseteq Pairs /\ returned # NULL
  BY NullAssumption DEF NamesInv, TypeOK
<1>4. /\ \A i \in Names \ {n} : earlier'[i] = earlier[i]
      /\ earlier[n] # NULL => earlier'[n] = earlier[n]
      /\ earlier[n] = NULL => earlier'[n] = returned
      /\ earlier' \in [Names -> {NULL} \cup SUBSET Pairs]
  BY <1>2, <1>3 DEF NamesInv, TypeOK
<1>5. \A u \in Threads : th'[u] = IF u = t THEN r ELSE th[u]
  BY <1>1 DEF Goto, NamesInv, TypeOK
<1>6. TypeOK'
  BY <1>1, <1>2, <1>4 DEF NamesInv, TypeOK, Goto
<1>7. Lists' /\ Returned'
  BY <1>2
     DEF NamesInv, Lists, Sorted, Reached, OnceEach, HasPrevious, Returned,
         Places, Bucket, Precedes
<1>8. ASSUME NEW u \in Threads
      PROVE  Right(u, th[u])'
  <2>1. Right(u, th[u]) /\ Fresh(u, th'[u])
    BY <1>1, <1>5 DEF NamesInv, Right
  <2>2. (Fresh(u, th[u]) /\ Between(th[u]) /\ At(th[u]) /\ Purpose(th[u]))'
    BY <1>1, <1>2, <1>5, <2>1
       DEF Right, Fresh, Between, At, Purpose, Places, Bucket, Precedes
  <2>3. ASSUME NEW i \in Names
        PROVE  Avoids(th[u], i)'
    BY <1>1, <1>2, <1>3, <1>4, <1>5, <2>1 DEF Right, Avoids
  <2> QED
    BY <2>2, <2>3 DEF Right
<1>9. ASSUME NEW i \in Names
      PROVE  Apart(i)'
  <2>1. Apart(i)
    BY DEF NamesInv
  <2>2. CASE earlier'[i] = earlier[i]
    BY <1>2, <2>1, <2>2 DEF Apart, Unknown, Taken
  <2>3. CASE earlier[i] = NULL /\ earlier'[i] = returned
    BY <1>2, <1>3, <2>1, <2>3 DEF Apart, Unknown, Taken
  <2> QED
    BY <1>4, <2>2, <2>3
<1> QED
  BY <1>6, <1>7, <1>8, <1>9 DEF NamesInv

(* Find. From a place of the bucket before the key, the next is one of the *)
(* bucket, and an entry with the key is still to come.                     *)
LEMMA Following ==
  ASSUME NamesInv, NEW p \in Places, NEW key \in Ids,
         Bucket(p) = HeadOf(key), Precedes(p, key)
  PROVE  /\ next[p] \in Ops \cup {NULL}
         /\ next[p] # NULL =>
              next[p] \in Linked /\ Bucket(next[p]) = HeadOf(key)
         /\ \A q \in returned : q[2] = key =>
              next[p] # NULL /\ entry[next[p]].key <= key
<1>1. p \in Ops \cup Heads
  BY DEF Places, Linked
<1>2. ASSUME NEW q \in returned, q[2] = key
      PROVE  next[p] # NULL /\ entry[next[p]].key <= key
  <2>1. PICK d \in Linked : entry[d].key = key
    BY <1>2 DEF NamesInv, Returned
  <2>2. Bucket(d) = HeadOf(key)
    BY <2>1, Linking DEF NamesInv
  <2> QED
    BY <2>1, <2>2 DEF NamesInv, Lists, Reached
<1> QED
  BY <1>1, <1>2 DEF NamesInv, TypeOK, Lists, Sorted

LEMMA WalkStartInv ==
  ASSUME NamesInv, NEW t \in Threads, WalkStart(t)
  PROVE  NamesInv'
<1> DEFINE h == HeadOf(th[t].key)
           r == [th[t] EXCEPT !.pc = "walk", !.prev = h, !.target = next[h]]
<1>1. th[t] \in ThreadStates /\ th[t].key \in Ids /\ Right(t, th[t])
        /\ th[t].pc = "start"
  BY DEF NamesInv, TypeOK, ThreadStates, WalkStart
<1>2. h \in Heads /\ h \in Places /\ Bucket(h) = h /\ Precedes(h, th[t].key)
  BY <1>1, Heading DEF Places, Bucket, Precedes
<1>3. /\ next[h] \in Ops \cup {NULL}
      /\ next[h] # NULL => next[h] \in Linked /\ Bucket(next[h]) = h
      /\ \A q \in returned : q[2] = th[t].key =>
           next[h] # NULL /\ entry[next[h]].key <= th[t].key
  BY <1>1, <1>2, Following
<1>4. Goto(t, r) /\ UNCHANGED <<map, crashed, history>>
  BY DEF WalkStart
<1> HIDE DEF h
<1>5. r \in ThreadStates
  BY <1>1, <1>2, <1>3 DEF ThreadStates, Locations
<1>6. /\ r.pc = "walk" /\ r.prev = h /\ r.target = next[h]
  BY <1>1 DEF ThreadStates
<1>7. /\ r.ops = th[t].ops /\ r.name = th[t].name /\ r.key = th[t].key
      /\ r.for = th[t].for
  BY <1>1 DEF ThreadStates
<1> HIDE DEF r
<1>8. Fresh(t, r) /\ Purpose(r) /\ At(r)
  BY <1>1, <1>6, <1>7 DEF Right, Fresh, Purpose, At
<1>9. Between(r)
  BY <1>1, <1>2, <1>3, <1>6, <1>7 DEF Between, h
<1>10. ASSUME NEW n \in Names
       PROVE  Avoids(r, n)
  <2>1. Avoids(th[t], n)
          /\ (earlier[n] # NULL => earlier[n] \subseteq returned)
    BY <1>1 DEF Right, NamesInv, Apart
  <2> QED
    BY <1>1, <1>3, <1>6, <1>7, <2>1 DEF Avoids
<1>11. Right(t, r)
  BY <1>8, <1>9, <1>10 DEF Right
<1> QED
  BY <1>4, <1>5, <1>11, Moves DEF NamesInv, TypeOK

LEMMA WalkStepInv ==
  ASSUME NamesInv, NEW t \in Threads, WalkStep(t)
  PROVE  NamesInv'
<1> DEFINE d == th[t].target
           r == [th[t] EXCEPT !.prev = d, !.target = next[d]]
<1>1. /\ th[t] \in ThreadStates /\ th[t].key \in Ids /\ Right(t, th[t])
      /\ th[t].pc = "walk"
  BY DEF NamesInv, TypeOK, ThreadStates, WalkStep
<1>2. /\ d \in Ops /\ d \in Linked /\ d \in Places
      /\ Bucket(d) = HeadOf(th[t].key)
      /\ Precedes(d, th[t].key)
  BY <1>1 DEF WalkStep, Before, Right, Between, Linked, Places, Precedes
<1>3. /\ next[d] \in Ops \cup {NULL}
      /\ next[d] # NULL =>
           next[d] \in Linked /\ Bucket(next[d]) = HeadOf(th[t].key)
      /\ \A q \in returned : q[2] = th[t].key =>
           next[d] # NULL /\ entry[next[d]].key <= th[t].key
  BY <1>1, <1>2, Following
<1>4. Goto(t, r) /\ UNCHANGED <<map, crashed, history>>
  BY DEF WalkStep
<1> HIDE DEF d
<1>5. r \in ThreadStates
  BY <1>1, <1>2, <1>3 DEF ThreadStates
<1>6. r.pc = "walk" /\ r.prev = d /\ r.target = next[d]
  BY <1>1 DEF ThreadStates
<1>7. /\ r.ops = th[t].ops /\ r.name = th[t].name /\ r.key = th[t].key
      /\ r.for = th[t].for
  BY <1>1 DEF ThreadStates
<1> HIDE DEF r
<1>8. Fresh(t, r) /\ Purpose(r) /\ At(r)
  BY <1>1, <1>6, <1>7 DEF Right, Fresh, Purpose, At
<1>9. Between(r)
  BY <1>1, <1>2, <1>3, <1>6, <1>7 DEF Between
<1>10. ASSUME NEW n \in Names
       PROVE  Avoids(r, n)
  <2>1. Avoids(th[t], n)
          /\ (earlier[n] # NULL => earlier[n] \subseteq returned)
    BY <1>1 DEF Right, NamesInv, Apart
  <2> QED
    BY <1>1, <1>3, <1>6, <1>7, <2>1 DEF Avoids
<1>11. Right(t, r)
  BY <1>8, <1>9, <1>10 DEF Right
<1> QED
  BY <1>4, <1>5, <1>11, Moves DEF NamesInv, TypeOK

(* Whoever inserts does so under an id that no other name had before.      *)
LEMMA Inserting ==
  ASSUME NamesInv, NEW t \in Threads, th[t].pc # "idle", th[t].for = "insert"
  PROVE  \A n \in Names : th[t].name = n =>
           \A p \in earlier[n] : ~(p[1] # n /\ p[2] = th[t].key)
BY DEF NamesInv, Right, Avoids

LEMMA WalkEndInv ==
  ASSUME NamesInv, NEW t \in Threads, WalkEnd(t)
  PROVE  NamesInv'
<1> DEFINE r == th[t]
<1>1. /\ r \in ThreadStates /\ r.key \in Ids /\ Right(t, r) /\ r.pc = "walk"
      /\ ~Before(r) /\ UNCHANGED <<map, crashed, history>>
      /\ r.for \in {"has", "get", "insert"}
  BY DEF NamesInv, TypeOK, ThreadStates, WalkEnd
<1>2. SUFFICES \E q \in ThreadStates : Goto(t, q) /\ Right(t, q)
  BY <1>1, Moves DEF NamesInv, TypeOK
<1>3. Found(r) => r.target \in Linked /\ entry[r.target].key = r.key
  BY <1>1 DEF Found, Right, Between
<1>4. ASSUME NEW loc \in {"load", "link"}, Goto(t, [r EXCEPT !.pc = loc]),
             loc = "load" => Found(r),
             loc = "link" => ~Found(r) /\ r.for = "insert"
      PROVE  \E q \in ThreadStates : Goto(t, q) /\ Right(t, q)
  <2> DEFINE q == [r EXCEPT !.pc = loc]
  <2>1. q \in ThreadStates
    BY <1>1 DEF ThreadStates, Locations
  <2>2. /\ q.pc = loc /\ q.ops = r.ops /\ q.name = r.name /\ q.key = r.key
        /\ q.for = r.for /\ q.prev = r.prev /\ q.target = r.target
    BY <1>1 DEF ThreadStates
  <2>3. r.target # NULL /\ loc = "link" => r.key < entry[r.target].key
    <3> HAVE r.target # NULL /\ loc = "link"
    <3>1. r.target \in Linked
      BY <1>1 DEF Right, Between
    <3>2. entry[r.target].key \in Nat /\ r.key \in Nat
      BY <1>1, <3>1, Linking, IdsNat DEF NamesInv
    <3> QED
      BY <1>1, <1>4, <3>2 DEF Before, Found
  <2> HIDE DEF q
  <2>4. Fresh(t, q) /\ Purpose(q) /\ At(q)
    BY <1>1, <1>3, <1>4, <2>2 DEF Right, Fresh, Purpose, At
  <2>5. Between(q)
    BY <1>1, <2>2, <2>3 DEF Right, Between
  <2>6. \A n \in Names : Avoids(q, n)
    BY <1>1, <2>2 DEF Right, Avoids
  <2>7. Right(t, q)
    BY <2>4, <2>5, <2>6 DEF Right
  <2> QED
    BY <1>4, <2>1, <2>7 DEF q
<1>5. CASE r.for = "has" /\ Found(r)
  <2>1. Goto(t, Walk(r, r.key, "get"))
    BY <1>5 DEF WalkEnd
  <2> QED
    BY <1>1, <2>1, WalksAgain
<1>6. CASE r.for = "has" /\ ~Found(r)
  <2>1. Goto(t, Walk(r, r.key, "insert"))
    BY <1>6 DEF WalkEnd
  <2>2. r.name \in Names
    BY <1>1, <1>6 DEF Right, Purpose
  <2>3. ASSUME NEW n \in Names, r.name = n, NEW p \in earlier[n], p[1] # n,
               p[2] = r.key
        PROVE  FALSE
    <3>1. r.target # NULL /\ entry[r.target].key <= r.key
      BY <1>1, <2>3 DEF Right, Avoids
    <3>2. entry[r.target].key \in Nat /\ r.key \in Nat
      BY <1>1, <3>1, Linking, IdsNat DEF NamesInv, Right, Between
    <3> QED
      BY <1>1, <1>6, <3>1, <3>2 DEF Before, Found
  <2> QED
    BY <1>1, <2>1, <2>2, <2>3, WalksAgain
<1>7. CASE r.for = "get" /\ Found(r)
  BY <1>4, <1>7 DEF WalkEnd
<1>8. CASE r.for = "get" /\ ~Found(r)
  <2>1. Goto(t, Done(r))
    BY <1>8 DEF WalkEnd
  <2> QED
    BY <1>1, <2>1, Ending, Ended DEF Right
<1>9. CASE r.for = "insert"
  <2>1. Goto(t, [r EXCEPT !.pc = IF Found(r) THEN "load" ELSE "link"])
    BY <1>9 DEF WalkEnd
  <2> QED
    BY <1>4, <1>9, <2>1
<1> QED
  BY <1>1, <1>5, <1>6, <1>7, <1>8, <1>9

LEMMA LoadValueInv ==
  ASSUME NamesInv, NEW t \in Threads, LoadValue(t)
  PROVE  NamesInv'
<1> DEFINE v == entry[th[t].target].value
           loc == IF th[t].for = "insert" THEN "swap" ELSE "read"
           r == [th[t] EXCEPT !.old = v, !.pc = loc]
<1>1. th[t] \in ThreadStates /\ Right(t, th[t]) /\ th[t].pc = "load"
  BY DEF NamesInv, TypeOK, ThreadStates, LoadValue
<1>2. v \in Values /\ v # NULL
  BY <1>1, Linking DEF NamesInv, Right, At
<1>3. Goto(t, r) /\ UNCHANGED <<map, crashed, history>>
  BY DEF LoadValue
<1>4. loc \in Locations /\ loc \in {"swap", "read"}
  BY DEF Locations
<1>5. r.for = th[t].for /\ r.pc = loc
  BY <1>1 DEF ThreadStates
<1> HIDE DEF v, loc
<1>6. r \in ThreadStates
  BY <1>1, <1>2, <1>4 DEF ThreadStates
<1>7. r.old = v /\ r.ops = th[t].ops /\ r.name = th[t].name
        /\ r.key = th[t].key
      /\ r.target = th[t].target
  BY <1>1 DEF ThreadStates
<1> HIDE DEF r
<1>8. Fresh(t, r) /\ At(r)
  BY <1>1, <1>4, <1>5, <1>7 DEF Right, Fresh, At
<1>9. Purpose(r)
  BY <1>1, <1>2, <1>4, <1>5, <1>7 DEF Right, Purpose, loc
<1>10. Between(r)
  BY <1>4, <1>5 DEF Between
<1>11. \A n \in Names : Avoids(r, n)
  BY <1>1, <1>4, <1>5, <1>7 DEF Right, Avoids
<1>12. Right(t, r)
  BY <1>8, <1>9, <1>10, <1>11 DEF Right
<1> QED
  BY <1>3, <1>6, <1>12, Moves DEF NamesInv, TypeOK

(* A string that is read and was not deleted is the one of its entry, and  *)
(* so never the name of a thread that must keep off the id of the entry.   *)
LEMMA ReadNameInv ==
  ASSUME NamesInv, NEW t \in Threads, ReadName(t)
  PROVE  NamesInv'
<1> DEFINE r == th[t]
<1>1. /\ r \in ThreadStates /\ r.key \in Ids /\ Right(t, r) /\ r.pc = "read"
      /\ UNCHANGED <<map, history>> /\ r.name \in Names \cup {NULL}
      /\ r.target \in Linked /\ entry[r.target].key = r.key
  BY DEF NamesInv, TypeOK, ThreadStates, ReadName, Right, At
<1>2. crashed' \in BOOLEAN
  BY DEF ReadName, Deleted
<1>3. SUFFICES \E q \in ThreadStates : Goto(t, q) /\ Right(t, q)
  BY <1>1, <1>2, Moves
<1>4. CASE r.name = NULL \/ Deleted(r)
  <2>1. Goto(t, Done(r))
    BY <1>4 DEF ReadName
  <2> QED
    BY <1>1, <2>1, Ending, Ended DEF Right
<1>5. CASE r.name # NULL /\ ~Deleted(r) /\ r.name = r.old.name
  <2>1. Goto(t, Walk(r, r.key, "insert"))
    BY <1>5 DEF ReadName, Read
  <2>2. ASSUME NEW n \in Names, r.name = n, NEW p \in earlier[n], p[1] # n,
               p[2] = r.key
        PROVE  FALSE
    <3>1. earlier[n] # NULL
      BY <1>1, <2>2 DEF Right, Avoids
    <3>2. entry[r.target].value.name # n
      BY <1>1, <2>2, <3>1 DEF NamesInv, Apart, Taken
    <3> QED
      BY <1>5, <2>2, <3>2 DEF Deleted
  <2> QED
    BY <1>1, <1>5, <2>1, <2>2, WalksAgain
<1>6. CASE r.name # NULL /\ ~Deleted(r) /\ r.name # r.old.name
  <2>1. Goto(t, Walk(r, r.key + 1, "has")) /\ r.key < MaxId
    BY <1>6 DEF ReadName, Read
  <2>2. r.key + 1 \in Ids
    BY <1>1, <2>1, RegistryAssumption DEF Ids
  <2> QED
    BY <1>1, <1>6, <2>1, <2>2, WalksAgain
<1> QED
  BY <1>4, <1>5, <1>6

-----------------------------------------------------------------------------
(* The exchanges. What is true of a thread stays so while entries are      *)
(* added, other than its own, and strings replaced.                        *)
Keeps ==
  /\ Linked \subseteq Linked'
  /\ \A e \in Linked : entry'[e].key = entry[e].key
  /\ earlier' = earlier

LEMMA StillRight ==
  ASSUME TypeOK, Keeps, NEW t, NEW r, Right(t, r),
         \A k \in 1..MaxOps : <<t, k>> \in Linked' => <<t, k>> \in Linked
  PROVE  Right(t, r)'
<1>1. \A e \in Linked : e \in Linked' /\ e \in Places
        /\ entry'[e].key = entry[e].key
  BY DEF Keeps, Places
<1>2. ASSUME NEW p \in Places
      PROVE  /\ p \in Places' /\ Bucket(p)' = Bucket(p)
             /\ Precedes(p, r.key) => Precedes(p, r.key)'
  <2>1. p \in Heads \/ (p \in Linked /\ p \notin Heads)
    BY DEF Places
  <2> QED
    BY <1>1, <2>1 DEF Places, Bucket, Precedes
<1>3. Fresh(t, r)' /\ At(r)' /\ Purpose(r)'
  BY <1>1 DEF Right, Fresh, At, Purpose
<1>4. Between(r)'
  <2> SUFFICES ASSUME r.pc \in {"walk", "link"}
               PROVE  Between(r)'
    BY DEF Between
  <2>1. /\ r.prev \in Places' /\ Bucket(r.prev)' = HeadOf(r.key)
        /\ Precedes(r.prev, r.key)'
    BY <1>2 DEF Right, Between
  <2>2. ASSUME r.target # NULL
        PROVE  /\ r.target \in Linked' /\ Bucket(r.target)' = HeadOf(r.key)
               /\ r.pc = "link" => r.key < entry'[r.target].key
    BY <1>1, <1>2, <2>2 DEF Right, Between
  <2> QED
    BY <2>1, <2>2 DEF Between
<1>5. ASSUME NEW n \in Names
      PROVE  Avoids(r, n)'
  BY <1>1 DEF Right, Between, Avoids, Keeps
<1> QED
  BY <1>3, <1>4, <1>5 DEF Right

LEMMA RetryInv ==
  ASSUME NamesInv, NEW t \in Threads, th[t].pc \in {"swap", "link"},
         Goto(t, FindAgain(th[t])), UNCHANGED <<map, history, crashed>>
  PROVE  NamesInv'
<1>1. /\ th[t] \in ThreadStates /\ Right(t, th[t]) /\ th[t].key \in Ids
      /\ th[t].for = "insert" /\ th[t].name \in Names
  BY DEF NamesInv, TypeOK, Right, Purpose, ThreadStates
<1>2. Walk(th[t], th[t].key, "insert") \in ThreadStates
      /\ Right(t, Walk(th[t], th[t].key, "insert"))
  BY <1>1, Inserting, WalksAgain
<1> QED
  BY <1>2, Moves DEF FindAgain, NamesInv, TypeOK

LEMMA ApartKept ==
  ASSUME NamesInv, NEW t \in Threads, th[t].pc # "idle", th[t].for = "insert",
         Keeps, returned' = returned \cup {<<th[t].name, th[t].key>>},
         NEW x \in Linked', entry'[x].key = th[t].key,
         entry'[x].value.name = th[t].name,
         \A e \in Linked' : e # x => e \in Linked /\ entry'[e] = entry[e],
         NEW n \in Names
  PROVE  Apart(n)'
<1>1. Avoids(th[t], n) /\ Apart(n) /\ earlier'[n] = earlier[n]
  BY DEF NamesInv, Right, Keeps
<1>2. CASE earlier[n] = NULL
  <2>1. th[t].name # n
    BY <1>1, <1>2 DEF Avoids
  <2>2. Unknown(n)'
    BY <1>1, <1>2, <2>1 DEF Apart, Unknown
  <2> QED
    BY <1>1, <1>2, <2>2 DEF Apart
<1>3. CASE earlier[n] # NULL
  <2>1. ASSUME NEW p \in earlier[n], p[1] # n, p[2] = th[t].key
        PROVE  th[t].name # n
    BY <2>1, Inserting
  <2>2. ASSUME NEW p \in earlier[n]
        PROVE  Taken(n, p)'
    BY <1>1, <1>3, <2>1, <2>2 DEF Apart, Taken
  <2>3. earlier[n] \subseteq returned'
    BY <1>1, <1>3 DEF Apart
  <2> QED
    BY <1>1, <1>3, <2>2, <2>3 DEF Apart
<1> QED
  BY <1>2, <1>3

LEMMA ReturnInv ==
  ASSUME NamesInv, NEW t \in Threads, th[t].pc \in {"swap", "link"},
         Keeps, Return(t), crashed' = crashed,
         entry' \in [Ops -> Entries \cup {NULL}],
         next' \in [Ops \cup Heads -> Ops \cup {NULL}], Lists',
         NEW x \in Linked', entry'[x].key = th[t].key,
         entry'[x].value.name = th[t].name,
         \A e \in Linked' : e # x => e \in Linked /\ entry'[e] = entry[e],
         x \in Linked \/ x = Op(t)
  PROVE  NamesInv'
<1>1. /\ th[t] \in ThreadStates /\ Right(t, th[t]) /\ th[t].key \in Ids
      /\ th[t].for = "insert" /\ th[t].name \in Names /\ th[t].pc # "idle"
  BY DEF NamesInv, TypeOK, Right, Purpose, ThreadStates
<1>2. /\ Goto(t, Done(th[t])) /\ Done(th[t]) \in ThreadStates
      /\ returned' = returned \cup {<<th[t].name, th[t].key>>}
  BY <1>1, Ending DEF Return
<1>3. TypeOK'
  BY <1>1, <1>2 DEF NamesInv, TypeOK, Goto, Pairs, Keeps
<1>4. Returned'
  BY <1>2 DEF NamesInv, Returned, Keeps
<1>5. \A n \in Names : Apart(n)'
  BY <1>1, <1>2, ApartKept
<1>6. \A u \in Threads : th'[u] = IF u = t THEN Done(th[t]) ELSE th[u]
  BY <1>2 DEF Goto, NamesInv, TypeOK
<1>7. ASSUME NEW u \in Threads
      PROVE  Right(u, th[u])'
  <2>1. CASE u # t
    <3> DEFINE r == th[u]
    <3>1. Right(u, r) /\ TypeOK
      BY DEF NamesInv
    <3>2. \A k \in 1..MaxOps : <<u, k>> \in Linked' => <<u, k>> \in Linked
      BY <2>1 DEF Op
    <3> HIDE DEF r
    <3>3. \A q : q = r => Right(u, q)'
      <4> SUFFICES ASSUME NEW q, q = r PROVE Right(u, q)'
        OBVIOUS
      <4> QED
        BY <3>1, <3>2, StillRight
    <3>4. th'[u] = r
      BY <1>6, <2>1 DEF r
    <3> QED
      BY <3>3, <3>4
  <2>2. CASE u = t
    <3> DEFINE d == Done(th[t])
    <3>1. d.pc = "idle" /\ d.ops = th[t].ops /\ th'[t] = d
      BY <1>1, <1>6, Ending
    <3>2. Fresh(t, th[t])
      BY <1>1 DEF Right
    <3> HIDE DEF d
    <3>3. Fresh(t, th[t])'
      BY <3>1, <3>2, <1>1 DEF Fresh, Op, ThreadStates
    <3>4. (Between(th[t]) /\ At(th[t]) /\ Purpose(th[t]))'
      BY <3>1 DEF Between, At, Purpose
    <3>5. \A n \in Names : Avoids(th[t], n)'
      BY <3>1 DEF Avoids
    <3> QED
      BY <2>2, <3>3, <3>4, <3>5 DEF Right
  <2> QED
    BY <2>1, <2>2
<1> QED
  BY <1>3, <1>4, <1>5, <1>7 DEF NamesInv

LEMMA SwapInv ==
  ASSUME NamesInv, NEW t \in Threads, Swap(t)
  PROVE  NamesInv'
<1> DEFINE x == th[t].target
<1>1. /\ th[t].pc = "swap" /\ Right(t, th[t]) /\ th[t].name \in Names
      /\ x \in Linked /\ x \in Ops /\ entry[x].key = th[t].key
      /\ entry[x] \in Entries /\ entry \in [Ops -> Entries \cup {NULL}]
  BY Linking DEF Swap, NamesInv, TypeOK, Right, Purpose, At
<1>2. CASE entry[x].value = th[t].old
  <2>1. /\ entry' = [entry EXCEPT ![x].value = Value(t)] /\ Return(t)
        /\ next' = next /\ crashed' = crashed /\ earlier' = earlier
    BY <1>2 DEF Swap
  <2>2. Value(t) \in Values /\ Value(t).name = th[t].name
    <3>1. Op(t) \in Ops
      BY <1>1 DEF Op, Ops, Right, Purpose
    <3> QED
      BY <1>1, <3>1 DEF Value, Values
  <2> DEFINE v == Value(t)
  <2>3. entry'[x] = [entry[x] EXCEPT !.value = v]
    BY <1>1, <2>1
  <2> HIDE DEF v
  <2>4. /\ entry'[x] \in Entries /\ entry'[x].key = entry[x].key
        /\ entry'[x].value = v
    BY <1>1, <2>2, <2>3 DEF Entries, v
  <2>5. /\ \A e \in Ops \ {x} : entry'[e] = entry[e]
        /\ entry' \in [Ops -> Entries \cup {NULL}]
    <3>1. entry' = [entry EXCEPT ![x] = [entry[x] EXCEPT !.value = v]]
      BY <2>1 DEF v
    <3> QED
      BY <1>1, <2>3, <2>4, <3>1
  <2>6. Linked' = Linked
    BY <1>1, <2>4, <2>5, NullAssumption DEF Linked
  <2>7. \A e \in Linked : entry'[e].key = entry[e].key
    BY <2>4, <2>5 DEF Linked
  <2>8. Keeps
    BY <2>1, <2>6, <2>7 DEF Keeps
  <2>9. Lists'
    <3>1. Places' = Places /\ \A p \in Places : Bucket(p)' = Bucket(p)
      BY <2>6, <2>7 DEF Places, Bucket
    <3>2. \A p \in Places, d \in Linked :
            Precedes(p, entry[d].key)' <=> Precedes(p, entry[d].key)
      BY <2>7 DEF Places, Precedes
    <3>3. Linked \subseteq Places
      BY DEF Places
    <3>4. Sorted' /\ HasPrevious'
      BY <2>1, <2>6, <2>7, <3>1, <3>2, <3>3
         DEF NamesInv, Lists, Sorted, HasPrevious
    <3>5. Reached'
      BY <2>1, <2>6, <2>7, <3>1, <3>2, <3>3
         DEF NamesInv, Lists, Sorted, Reached
    <3>6. OnceEach'
      BY <2>6, <2>7 DEF NamesInv, Lists, OnceEach
    <3> QED
      BY <3>4, <3>5, <3>6 DEF Lists
  <2>10. \A e \in Linked' : e # x => e \in Linked /\ entry'[e] = entry[e]
    BY <2>5, <2>6 DEF Linked
  <2>11. next' \in [Ops \cup Heads -> Ops \cup {NULL}]
    BY <2>1 DEF NamesInv, TypeOK
  <2> QED
    BY <1>1, <2>1, <2>2, <2>4, <2>5, <2>6, <2>8, <2>9, <2>10, <2>11, ReturnInv
       DEF v
<1>3. CASE entry[x].value # th[t].old
  BY <1>1, <1>3, RetryInv DEF Swap, map, history
<1> QED
  BY <1>2, <1>3

(* A new entry x between prev and target: nothing is cut off, and from no  *)
(* other place of the bucket is it skipped.                                *)
LEMMA LinkLists ==
  ASSUME TypeOK, Lists, NEW x \in Ops, x \notin Linked, NEW key \in Ids,
         NEW prev \in Places, NEW target, next[prev] = target,
         Bucket(prev) = HeadOf(key), Precedes(prev, key),
         target # NULL => key < entry[target].key,
         x \in Linked', Linked' = Linked \cup {x}, entry'[x].key = key,
         \A e \in Linked : entry'[e] = entry[e],
         next'[x] = target, next'[prev] = x,
         \A p \in Places : p # prev => next'[p] = next[p]
  PROVE  Lists'
<1>1. /\ x \notin Places /\ x \notin Heads /\ x # prev /\ x # NULL
      /\ Places' = Places \cup {x} /\ prev \in Places'
  BY NoHead, NullAssumption DEF Places
<1>2. \A e \in Linked : /\ entry[e].key \in Nat /\ e \notin Heads /\ e # x
                        /\ Bucket(e) = HeadOf(entry[e].key) /\ e \in Places
                        /\ entry'[e].key = entry[e].key
  BY Linking, IdsNat
<1>3. key \in Nat
  BY IdsNat
<1>4. Bucket(x)' = HeadOf(key) /\ \A p \in Places : Bucket(p)' = Bucket(p)
  BY <1>1, <1>2 DEF Bucket, Places
<1>5. ASSUME NEW p \in Places, NEW k
      PROVE  Precedes(p, k)' <=> Precedes(p, k)
  BY <1>2 DEF Precedes, Places
<1>6. target # NULL => target \in Linked /\ Bucket(target) = HeadOf(key)
  BY DEF Lists, Sorted
<1>7. \A p \in Places : p \in Heads \/ p \in Linked
  BY DEF Places
<1>8. ASSUME NEW d \in Linked, Bucket(d) = HeadOf(key),
             Precedes(prev, entry[d].key)
      PROVE  target # NULL /\ entry[target].key <= entry[d].key
  BY <1>8 DEF Lists, Reached
<1>9. Sorted'
  <2>1. ASSUME NEW p \in Places', NEW q, next'[p] = q, q # NULL
        PROVE  q \in Linked' /\ Bucket(q)' = Bucket(p)'
                 /\ Precedes(p, entry[q].key)'
    <3>1. CASE p = x
      BY <1>1, <1>2, <1>4, <1>6, <2>1, <3>1 DEF Precedes
    <3>2. CASE p = prev
      BY <1>1, <1>4, <1>5, <2>1, <3>2 DEF Precedes
    <3>3. CASE p \in Places /\ p # prev
      <4>1. q \in Linked /\ Bucket(q) = Bucket(p) /\ Precedes(p, entry[q].key)
        BY <2>1, <3>3 DEF Lists, Sorted
      <4> QED
        BY <1>2, <1>4, <1>7, <3>3, <4>1 DEF Precedes
    <3> QED
      BY <1>1, <2>1, <3>1, <3>2, <3>3
  <2> QED
    BY <2>1 DEF Sorted, Bucket, Precedes
<1>10. OnceEach'
  <2>1. ASSUME NEW d \in Linked
        PROVE  entry[d].key # key
    <3> SUFFICES ASSUME entry[d].key = key PROVE FALSE
      OBVIOUS
    <3>1. target # NULL /\ entry[target].key <= key
      BY <1>2, <1>8
    <3> QED
      BY <1>2, <1>3, <1>6, <3>1
  <2> QED
    BY <1>2, <2>1 DEF Lists, OnceEach
<1>11. HasPrevious'
  <2>1. ASSUME NEW e \in Linked
        PROVE  \E p \in Places' : next'[p] = e
    <3>1. PICK p \in Places : next[p] = e
      BY DEF Lists, HasPrevious
    <3> QED
      BY <1>1, <3>1
  <2> QED
    BY <1>1, <2>1 DEF HasPrevious
<1>12. Reached'
  <2>1. ASSUME NEW d \in Linked, Bucket(d) = HeadOf(key), key < entry[d].key
        PROVE  next'[x] # NULL /\ entry'[next'[x]].key <= entry'[d].key
    <3>1. Precedes(prev, entry[d].key)
      BY <1>2, <1>3, <1>7, <2>1 DEF Precedes
    <3> QED
      BY <1>2, <1>6, <1>8, <2>1, <3>1
  <2>2. ASSUME NEW d \in Linked, Bucket(d) = HeadOf(key),
               Precedes(prev, entry[d].key)
        PROVE  key <= entry[d].key
    BY <1>2, <1>3, <1>6, <1>8, <2>2
  <2>3. ASSUME NEW p \in Places, p # prev, Bucket(p) = HeadOf(key),
               Precedes(p, key)
        PROVE  next[p] # NULL /\ next[p] \in Linked
                 /\ entry[next[p]].key <= key
    <3>1. p \in Linked => ~Precedes(prev, entry[p].key)
      BY <1>2, <1>3, <1>6, <1>8, <2>3 DEF Precedes
    <3>2. prev \in Linked
      <4>1. prev \in Heads => p \in Linked
        BY <1>7, <2>3 DEF Bucket
      <4> QED
        BY <1>7, <3>1, <4>1 DEF Precedes
    <3>3. Precedes(p, entry[prev].key)
      <4>1. p \in Linked => entry[p].key # entry[prev].key
        BY <2>3, <3>2 DEF Lists, OnceEach
      <4> QED
        BY <1>2, <1>7, <3>1, <3>2, <4>1 DEF Precedes
    <3>4. next[p] # NULL /\ entry[next[p]].key <= entry[prev].key
      BY <2>3, <3>2, <3>3 DEF Lists, Reached
    <3>5. next[p] \in Linked /\ entry[prev].key < key
      BY <1>2, <2>3, <3>2, <3>4 DEF Lists, Sorted, Precedes
    <3> QED
      BY <1>2, <1>3, <3>2, <3>4, <3>5
  <2>4. ASSUME NEW p \in Places', NEW d \in Linked', Bucket(d)' = Bucket(p)',
               Precedes(p, entry[d].key)'
        PROVE  next'[p] # NULL /\ entry'[next'[p]].key <= entry'[d].key
    <3>1. CASE p = x /\ d = x
      BY <1>1, <1>3, <2>4, <3>1 DEF Precedes
    <3>2. CASE p = x /\ d \in Linked
      <4>1. Bucket(d) = HeadOf(key) /\ key < entry[d].key
        BY <1>1, <1>2, <1>4, <2>4, <3>2 DEF Precedes
      <4> QED
        BY <2>1, <3>2, <4>1
    <3>3. CASE p = prev /\ d = x
      BY <1>1, <1>3, <3>3
    <3>4. CASE p = prev /\ d \in Linked
      <4>1. Bucket(d) = HeadOf(key) /\ Precedes(prev, entry[d].key)
        BY <1>2, <1>4, <1>5, <2>4, <3>4
      <4> QED
        BY <1>1, <1>2, <2>2, <3>4, <4>1
    <3>5. CASE p \in Places /\ p # prev /\ d = x
      <4>1. Bucket(p) = HeadOf(key) /\ Precedes(p, key)
        BY <1>4, <1>5, <2>4, <3>5
      <4> QED
        BY <1>2, <2>3, <3>5, <4>1
    <3>6. CASE p \in Places /\ p # prev /\ d \in Linked
      <4>1. Bucket(d) = Bucket(p) /\ Precedes(p, entry[d].key)
        BY <1>2, <1>4, <1>5, <2>4, <3>6
      <4>2. next[p] # NULL /\ next[p] \in Linked
              /\ entry[next[p]].key <= entry[d].key
        BY <3>6, <4>1 DEF Lists, Reached, Sorted
      <4> QED
        BY <1>2, <3>6, <4>2
    <3> QED
      BY <1>1, <3>1, <3>2, <3>3, <3>4, <3>5, <3>6
  <2> QED
    BY <2>4 DEF Reached
<1> QED
  BY <1>9, <1>10, <1>11, <1>12 DEF Lists

LEMMA LinkInv ==
  ASSUME NamesInv, NEW t \in Threads, Link(t)
  PROVE  NamesInv'
<1> DEFINE r == th[t]
           x == Op(t)
           v == [key |-> r.key, value |-> Value(t)]
<1>1. /\ r.pc = "link" /\ r \in ThreadStates /\ Right(t, r) /\ r.name \in Names
      /\ r.key \in Ids /\ TypeOK /\ Lists
      /\ r.prev \in Places /\ Bucket(r.prev) = HeadOf(r.key)
      /\ Precedes(r.prev, r.key)
      /\ r.target # NULL => r.key < entry[r.target].key
  BY DEF Link, NamesInv, TypeOK, Right, Purpose, Between, ThreadStates
<1>2. x \in Ops /\ x \notin Linked
  <2>1. r.ops \in 1..MaxOps /\ Fresh(t, r)
    BY <1>1 DEF Right, Purpose
  <2> QED
    BY <1>1, <2>1 DEF Op, Ops, Fresh
<1>3. CASE CanLink(r)
  <2>1. /\ entry' = [entry EXCEPT ![x] = v]
        /\ next' = [next EXCEPT ![x] = r.target, ![r.prev] = x]
        /\ Return(t) /\ crashed' = crashed /\ earlier' = earlier
    BY <1>3 DEF Link
  <2>2. v \in Entries /\ v.key = r.key /\ v.value.name = r.name /\ v # NULL
    <3>1. Value(t) \in Values /\ Value(t).name = r.name
      BY <1>1, <1>2 DEF Value, Values
    <3>2. v \in Entries
      BY <1>1, <3>1 DEF Entries
    <3> QED
      BY <3>1, <3>2, NullAssumption
  <2>3. r.prev \in Ops \cup Heads /\ r.prev # x /\ r.target \in Ops \cup {NULL}
        /\ \A p \in Places : p \in Ops \cup Heads /\ p # x
    BY <1>1, <1>2, NoHead DEF Places, Linked, ThreadStates
  <2> HIDE DEF x, v
  <2>4. /\ entry'[x] = v /\ \A e \in Ops \ {x} : entry'[e] = entry[e]
        /\ entry' \in [Ops -> Entries \cup {NULL}]
    BY <1>1, <1>2, <2>1, <2>2 DEF TypeOK
  <2>5. Linked' = Linked \cup {x} /\ x \in Linked'
        /\ \A e \in Linked : entry'[e] = entry[e]
    BY <1>2, <2>2, <2>4 DEF Linked
  <2> HIDE DEF r
  <2>6. /\ next' \in [Ops \cup Heads -> Ops \cup {NULL}]
        /\ next'[x] = r.target /\ next'[r.prev] = x
        /\ \A p \in Places : p # r.prev => next'[p] = next[p]
    BY <1>1, <1>2, <2>1, <2>3 DEF TypeOK
  <2>7. next[r.prev] = r.target
    BY <1>3 DEF CanLink
  <2>8. Lists'
    BY <1>1, <1>2, <2>2, <2>4, <2>5, <2>6, <2>7, LinkLists
  <2>9. Keeps
    BY <2>1, <2>5 DEF Keeps
  <2>10. \A e \in Linked' : e # x => e \in Linked /\ entry'[e] = entry[e]
    BY <2>5
  <2>11. entry'[x].key = th[t].key /\ entry'[x].value.name = th[t].name
    BY <2>2, <2>4 DEF r
  <2> QED
    BY <1>1, <2>1, <2>4, <2>5, <2>6, <2>8, <2>9, <2>10, <2>11, ReturnInv
       DEF r, x
<1>4. CASE ~CanLink(r)
  BY <1>1, <1>4, RetryInv DEF Link, map, history
<1> QED
  BY <1>3, <1>4

LEMMA NextNames ==
  ASSUME NamesInv, [Next]_vars
  PROVE  NamesInv'
<1>1. CASE UNCHANGED vars
  <2>1. /\ entry' = entry /\ next' = next /\ th' = th /\ crashed' = crashed
        /\ returned' = returned /\ earlier' = earlier /\ Linked' = Linked
    BY <1>1 DEF vars, Linked
  <2>2. TypeOK' /\ Lists' /\ Returned'
    BY <2>1
       DEF NamesInv, TypeOK, Lists, Sorted, Reached, OnceEach, HasPrevious,
           Returned, Places, Bucket, Precedes
  <2>3. ASSUME NEW t \in Threads
        PROVE  Right(t, th[t])'
    BY <2>1
       DEF NamesInv, Right, Fresh, Between, At, Purpose, Avoids, Places,
           Bucket, Precedes
  <2>4. ASSUME NEW n \in Names
        PROVE  Apart(n)'
    BY <2>1 DEF NamesInv, Apart, Unknown, Taken
  <2> QED
    BY <2>2, <2>3, <2>4 DEF NamesInv
<1>2. ASSUME NEW t \in Threads, NEW n \in Names, Register(t, n)
      PROVE  NamesInv'
  BY <1>2, RegisterInv
<1>3. ASSUME NEW t \in Threads, NEW id \in Ids, GetById(t, id)
      PROVE  NamesInv'
  BY <1>3, GetByIdInv
<1>4. ASSUME NEW t \in Threads, Steps(t)
      PROVE  NamesInv'
  BY <1>4, WalkStartInv, WalkStepInv, WalkEndInv, LoadValueInv, ReadNameInv,
     SwapInv, LinkInv DEF Steps
<1> QED
  BY <1>1, <1>2, <1>3, <1>4 DEF Next

(* Whatever the threads do at once, every variable has its type, each      *)
(* bucket stays one sorted list with every entry ever linked, once, and    *)
(* every id that was returned (atmoic_hash_map.h:160).                     *)
THEOREM ListsHold == Spec => []ListsWhole
<1>1. Spec => []NamesInv
  BY InitNames, NextNames, PTL DEF Spec
<1> QED
  BY <1>1, WholeLists, PTL

(* A name first registered after another one has its id never gets that    *)
(* id, however many threads register at once (global_data.cpp:154).        *)
THEOREM NamesDiffer == Spec => []LaterNamesDiffer
<1>1. Spec => []NamesInv
  BY InitNames, NextNames, PTL DEF Spec
<1> QED
  BY <1>1, LaterDiffer, PTL

-----------------------------------------------------------------------------
(* The pool. The counter of the head is what the proof turns on: a thread  *)
(* whose loaded head has the count of free_head_ has loaded free_head_     *)
(* itself (Counted), and the next it has read then is that of a node which *)
(* is still free (Gets).                                                   *)
Counted ==
  \A t \in Threads :
    /\ old_head[t].count <= free_head_.count
    /\ old_head[t].count = free_head_.count => old_head[t] = free_head_

Gets ==
  \A t \in Threads :
    /\ pool_pc[t] \in {"get_next", "get_cas"} =>
         old_head[t].node # Pool!nullptr
    /\ pool_pc[t] = "get_cas" /\ old_head[t].count = free_head_.count =>
         new_node[t] = pool_next[old_head[t].node]

Puts ==
  \A t \in Threads :
    /\ pool_pc[t] \in {"put_next", "put_cas"} <=> object[t] # Pool!nullptr
    /\ pool_pc[t] = "put_cas" => pool_next[object[t]] = old_head[t].node
    /\ \A k \in 1..Len(free) : free[k] # object[t]
    /\ \A u \in Threads : object[t] # Pool!nullptr /\ object[t] = object[u] =>
         t = u

PoolInv == /\ Pool!TypeOK /\ Counted /\ Gets /\ Puts
       /\ Pool!ListWhole /\ Pool!OneOwner /\ Pool!NothingLost

-----------------------------------------------------------------------------
LEMMA TailOf ==
  ASSUME NEW S, NEW s \in Seq(S), s # <<>>
  PROVE  /\ Tail(s) \in Seq(S) /\ Len(s) \in Nat \ {0}
         /\ Len(Tail(s)) = Len(s) - 1
         /\ \A k \in 1..Len(Tail(s)) : Tail(s)[k] = s[k + 1]
OBVIOUS

LEMMA InFront ==
  ASSUME NEW S, NEW s \in Seq(S), NEW x \in S
  PROVE  /\ <<x>> \o s \in Seq(S) /\ Len(s) \in Nat
         /\ Len(<<x>> \o s) = Len(s) + 1
         /\ (<<x>> \o s)[1] = x
         /\ \A k \in 2..Len(<<x>> \o s) : (<<x>> \o s)[k] = s[k - 1]
         /\ \A k \in 1..Len(s) : (<<x>> \o s)[k + 1] = s[k]
OBVIOUS

LEMMA PoolInit ==
  ASSUME Pool!Init
  PROVE  PoolInv
<1> USE PoolAssumption
<1>1. free \in Seq(Pool!Node) /\ Len(free) = capacity /\ free # <<>>
  <2>1. free = [i \in 1..capacity |-> i]
    BY DEF Pool!Init, Pool!Node
  <2> QED
    BY <2>1 DEF Pool!Node
<1>2. Pool!TypeOK
  BY <1>1 DEF Pool!Init, Pool!TypeOK, Pool!HeadType, Pool!Node, Pool!nullptr
<1>3. Pool!ListWhole
  <2>1. \A k \in 1..capacity : free[k] = k
    BY DEF Pool!Init, Pool!Node
  <2>2. \A k \in 1..capacity : pool_next[k] = IF k = capacity THEN Pool!nullptr
          ELSE k + 1
    BY DEF Pool!Init, Pool!Node
  <2>3. free_head_.node = 1 /\ 1 \in 1..capacity
    BY DEF Pool!Init
  <2>4. \A k \in 1..capacity : k # capacity => k + 1 \in 1..capacity
    OBVIOUS
  <2> QED
    BY <1>1, <2>1, <2>2, <2>3, <2>4 DEF Pool!ListWhole
<1>4. Counted /\ Gets
  BY DEF Pool!Init, Counted, Gets
<1>5. Puts
  <2>1. \A k \in 1..capacity : free[k] = k /\ k # Pool!nullptr
    BY DEF Pool!Init, Pool!Node, Pool!nullptr
  <2> QED
    BY <1>1, <2>1 DEF Pool!Init, Puts
<1>6. Pool!OneOwner /\ Pool!NothingLost
  BY <1>1 DEF Pool!Init, Pool!OneOwner, Pool!NothingLost, Pool!Node
<1> QED
  BY <1>2, <1>3, <1>4, <1>5, <1>6 DEF PoolInv

(* Whoever loads the head has it; nothing else changes.                    *)
LEMMA Loading ==
  ASSUME PoolInv, NEW t \in Threads,
         old_head' = [old_head EXCEPT ![t] = free_head_],
         UNCHANGED <<free_head_, pool_next, new_node, free>>
  PROVE  /\ Counted'
         /\ \A u \in Threads : u # t => old_head'[u] = old_head[u]
         /\ old_head'[t] = free_head_
         /\ old_head' \in [Threads -> Pool!HeadType]
BY PoolAssumption DEF PoolInv, Pool!TypeOK, Counted, Pool!HeadType

LEMMA PoolNext ==
  ASSUME PoolInv, [Pool!Next]_(Pool!vars)
  PROVE  PoolInv'
<1> USE PoolAssumption DEF PoolInv
<1>1. ASSUME NEW t \in Threads, Pool!GetObject(t) \/ Pool!TakeHeadFails(t)
      PROVE  PoolInv'
  <2>1. Pool!LoadOld(t) /\ pool_pc[t] \in {"idle", "get_cas"}
        /\ UNCHANGED <<free_head_, pool_next, new_node, object, held, free>>
    BY <1>1 DEF Pool!GetObject, Pool!TakeHeadFails
  <2>2. Pool!TypeOK' /\ Counted'
    BY <2>1, Loading DEF Pool!LoadOld, Pool!Goto, Pool!TypeOK
  <2>3. Gets'
    BY <2>1, Loading DEF Pool!LoadOld, Pool!Goto, Gets, Pool!TypeOK, Counted
  <2>4. Puts'
    BY <2>1, Loading DEF Pool!LoadOld, Pool!Goto, Puts, Pool!TypeOK
  <2>5. Pool!ListWhole' /\ Pool!OneOwner' /\ Pool!NothingLost'
    BY <2>1 DEF Pool!ListWhole, Pool!OneOwner, Pool!NothingLost
  <2> QED
    BY <2>2, <2>3, <2>4, <2>5
<1>2. ASSUME NEW t \in Threads, Pool!ReadNext(t)
      PROVE  PoolInv'
  <2>1. Pool!TypeOK' /\ Counted' /\ Gets'
    BY <1>2
       DEF Pool!ReadNext, Pool!Goto, Pool!TypeOK, Pool!HeadType, Counted, Gets
  <2>2. Puts'
    BY <1>2 DEF Pool!ReadNext, Pool!Goto, Pool!TypeOK, Puts
  <2>3. Pool!ListWhole' /\ Pool!OneOwner' /\ Pool!NothingLost'
    BY <1>2 DEF Pool!ReadNext, Pool!ListWhole, Pool!OneOwner, Pool!NothingLost
  <2> QED
    BY <2>1, <2>2, <2>3
<1>3. ASSUME NEW t \in Threads, Pool!TakeHead(t)
      PROVE  PoolInv'
  <2> DEFINE n == free_head_.node
  <2>1. /\ old_head[t] = free_head_ /\ n # Pool!nullptr /\ n \in Pool!Node
        /\ new_node[t] = pool_next[n]
    BY <1>3 DEF Pool!TakeHead, Gets, Pool!TypeOK, Pool!HeadType
  <2>2. free # <<>> /\ n = free[1]
    BY <2>1 DEF Pool!ListWhole
  <2>3. /\ free' \in Seq(Pool!Node) /\ Len(free) \in Nat \ {0}
        /\ Len(free') = Len(free) - 1
        /\ \A k \in 1..Len(free') : free'[k] = free[k + 1]
    BY <1>3, <2>2, TailOf DEF Pool!TakeHead, Pool!TypeOK
  <2>4. /\ free_head_'
             = [count |-> free_head_.count + 1, node |-> pool_next[n]]
        /\ held' = [held EXCEPT ![n] = @ + 1]
        /\ pool_pc' = [pool_pc EXCEPT ![t] = "idle"] /\ pool_pc[t] = "get_cas"
        /\ UNCHANGED <<pool_next, old_head, new_node, object>>
    BY <1>3, <2>1 DEF Pool!TakeHead, Pool!Goto
  <2> HIDE DEF n
  <2>5. Pool!TypeOK'
    BY <2>1, <2>3, <2>4 DEF Pool!TypeOK, Pool!HeadType
  <2>6. Counted' /\ Gets'
    BY <2>4 DEF Counted, Gets, Pool!TypeOK, Pool!HeadType
  <2>7. Puts'
    BY <2>3, <2>4, SMTT(30) DEF Puts, Pool!TypeOK
  <2>8. Pool!ListWhole'
    <3>1. free_head_'.node = IF free' = <<>> THEN Pool!nullptr ELSE free'[1]
      BY <2>2, <2>3, <2>4 DEF Pool!ListWhole
    <3>2. \A k \in 1..Len(free') :
            pool_next'[free'[k]] = IF k = Len(free') THEN Pool!nullptr
              ELSE free'[k + 1]
      BY <2>3, <2>4 DEF Pool!ListWhole
    <3>3. \A j, k \in 1..Len(free') : free'[j] = free'[k] => j = k
      BY <2>3 DEF Pool!ListWhole
    <3> QED
      BY <3>1, <3>2, <3>3 DEF Pool!ListWhole
  <2>9. \A k \in 1..Len(free') : free'[k] # n
    BY <2>2, <2>3 DEF Pool!ListWhole
  <2>10. held[n] = 0 /\ \A u \in Threads : object[u] # n
    BY <2>1, <2>2, <2>3 DEF Pool!OneOwner, Puts, Pool!TypeOK
  <2>11. Pool!OneOwner'
    BY <2>1, <2>3, <2>4, <2>9, <2>10 DEF Pool!OneOwner, Pool!TypeOK
  <2>12. Pool!NothingLost'
    <3> SUFFICES ASSUME NEW i \in Pool!Node
                 PROVE  \/ \E k \in 1..Len(free') : free'[k] = i
                        \/ held'[i] > 0
                        \/ \E u \in Threads : object'[u] = i
      BY DEF Pool!NothingLost
    <3>1. CASE i = n
      BY <2>1, <2>4, <2>10, <3>1 DEF Pool!TypeOK
    <3>2. CASE i # n /\ \E k \in 1..Len(free) : free[k] = i
      <4> PICK k \in 1..Len(free) : free[k] = i
        BY <3>2
      <4>1. k # 1 /\ k - 1 \in 1..Len(free') /\ (k - 1) + 1 = k
        BY <2>2, <2>3, <3>2
      <4> QED
        BY <2>3, <4>1
    <3>3. CASE i # n /\ held[i] > 0
      BY <2>4, <3>3 DEF Pool!TypeOK
    <3> QED
      BY <2>4, <3>1, <3>2, <3>3 DEF Pool!NothingLost
  <2> QED
    BY <2>5, <2>6, <2>7, <2>8, <2>11, <2>12
<1>4. ASSUME NEW t \in Threads, NEW i \in Pool!Node, Pool!ReleaseObject(t, i)
      PROVE  PoolInv'
  <2>1. /\ held[i] = 1 /\ \A k \in 1..Len(free) : free[k] # i
        /\ \A u \in Threads : object[u] # i
    BY <1>4 DEF Pool!ReleaseObject, Pool!OneOwner
  <2>2. /\ object' = [object EXCEPT ![t] = i]
        /\ held' = [held EXCEPT ![i] = @ - 1]
        /\ pool_pc' = [pool_pc EXCEPT ![t] = "put_next"] /\ pool_pc[t] = "idle"
        /\ old_head' = [old_head EXCEPT ![t] = free_head_]
        /\ UNCHANGED <<free_head_, pool_next, new_node, free>>
    BY <1>4 DEF Pool!ReleaseObject, Pool!Goto
  <2>3. object[t] = Pool!nullptr /\ i # Pool!nullptr
    BY <2>2 DEF Puts, Pool!Node, Pool!nullptr
  <2>4. Pool!TypeOK' /\ Counted'
    <3>1. Counted' /\ old_head' \in [Threads -> Pool!HeadType]
      BY <2>2, Loading
    <3>2. held' \in [Pool!Node -> Nat]
      BY <2>1, <2>2 DEF Pool!TypeOK
    <3>3. object' \in [Threads -> Pool!Node \cup {Pool!nullptr}]
      BY <2>2 DEF Pool!TypeOK
    <3> QED
      BY <2>2, <3>1, <3>2, <3>3 DEF Pool!TypeOK
  <2>5. Gets'
    BY <2>2, Loading DEF Gets, Pool!TypeOK
  <2>6. Puts'
    BY <2>1, <2>2, <2>3, Loading DEF Puts, Pool!TypeOK
  <2>7. Pool!ListWhole'
    BY <2>2 DEF Pool!ListWhole
  <2>8. Pool!OneOwner'
    BY <2>1, <2>2 DEF Pool!OneOwner, Pool!TypeOK
  <2>9. Pool!NothingLost'
    <3> SUFFICES ASSUME NEW j \in Pool!Node
                 PROVE  \/ \E k \in 1..Len(free) : free[k] = j
                        \/ held'[j] > 0
                        \/ \E u \in Threads : object'[u] = j
      BY <2>2 DEF Pool!NothingLost
    <3>1. CASE j = i
      BY <2>2, <3>1 DEF Pool!TypeOK
    <3>2. CASE j # i /\ \E u \in Threads : object[u] = j
      BY <2>2, <2>3, <3>2 DEF Pool!TypeOK, Pool!Node, Pool!nullptr
    <3>3. CASE j # i /\ held[j] > 0
      BY <2>2, <3>3 DEF Pool!TypeOK
    <3> QED
      BY <3>1, <3>2, <3>3 DEF Pool!NothingLost
  <2> QED
    BY <2>4, <2>5, <2>6, <2>7, <2>8, <2>9
<1>5. ASSUME NEW t \in Threads, Pool!WriteNext(t)
      PROVE  PoolInv'
  <2>1. /\ pool_next' = [pool_next EXCEPT ![object[t]] = old_head[t].node]
        /\ pool_pc' = [pool_pc EXCEPT ![t] = "put_cas"]
        /\ pool_pc[t] = "put_next"
        /\ UNCHANGED <<free_head_, old_head, new_node, object, held, free>>
    BY <1>5 DEF Pool!WriteNext, Pool!Goto
  <2>2. object[t] \in Pool!Node /\ object[t] # Pool!nullptr
    BY <2>1 DEF Puts, Pool!TypeOK
  <2>3. \A k \in 1..Len(free) : pool_next'[free[k]] = pool_next[free[k]]
    BY <2>1, <2>2 DEF Puts, Pool!TypeOK
  <2>4. Pool!TypeOK'
    BY <2>1, <2>2 DEF Pool!TypeOK, Pool!HeadType
  <2>5. Counted'
    BY <2>1 DEF Counted
  <2>6. Gets'
    <3> SUFFICES ASSUME NEW u \in Threads,
                        pool_pc'[u] = "get_cas",
                          old_head[u].count = free_head_.count
                 PROVE  new_node[u] = pool_next'[old_head[u].node]
      BY <2>1 DEF Gets, Pool!TypeOK
    <3>1. pool_pc[u] = "get_cas" /\ old_head[u] = free_head_
      BY <2>1 DEF Pool!TypeOK, Counted
    <3>2. /\ new_node[u] = pool_next[free_head_.node]
          /\ free_head_.node # Pool!nullptr
      BY <3>1 DEF Gets
    <3>3. free # <<>> /\ free_head_.node = free[1] /\ 1 \in 1..Len(free)
      BY <3>2 DEF Pool!ListWhole, Pool!TypeOK
    <3> QED
      BY <2>3, <3>1, <3>2, <3>3
  <2>7. Puts'
    BY <2>1, <2>2 DEF Puts, Pool!TypeOK
  <2>8. Pool!ListWhole'
    BY <2>1, <2>3 DEF Pool!ListWhole
  <2>9. Pool!OneOwner' /\ Pool!NothingLost'
    BY <2>1 DEF Pool!OneOwner, Pool!NothingLost
  <2> QED
    BY <2>4, <2>5, <2>6, <2>7, <2>8, <2>9
<1>6. ASSUME NEW t \in Threads, Pool!PutHead(t)
      PROVE  PoolInv'
  <2> DEFINE n == object[t]
  <2>1. /\ n \in Pool!Node /\ n # Pool!nullptr
        /\ pool_next[n] = free_head_.node
        /\ \A k \in 1..Len(free) : free[k] # n
    BY <1>6 DEF Pool!PutHead, Puts, Pool!TypeOK
  <2>2. /\ free' \in Seq(Pool!Node) /\ Len(free) \in Nat
        /\ Len(free') = Len(free) + 1 /\ free'[1] = n
        /\ \A k \in 2..Len(free') : free'[k] = free[k - 1]
        /\ \A k \in 1..Len(free) : free'[k + 1] = free[k]
    BY <1>6, <2>1, InFront DEF Pool!PutHead, Pool!TypeOK
  <2>3. /\ free_head_' = [count |-> free_head_.count + 1, node |-> n]
        /\ object' = [object EXCEPT ![t] = Pool!nullptr]
        /\ pool_pc' = [pool_pc EXCEPT ![t] = "idle"] /\ pool_pc[t] = "put_cas"
        /\ UNCHANGED <<pool_next, old_head, new_node, held>>
    BY <1>6 DEF Pool!PutHead, Pool!Goto
  <2>4. \A u \in Threads : u # t => object[u] # n
    BY <2>1 DEF Puts
  <2>5. held[n] = 0
    BY <2>1 DEF Pool!OneOwner, Pool!TypeOK
  <2> HIDE DEF n
  <2>6. Pool!TypeOK'
    BY <2>1, <2>2, <2>3 DEF Pool!TypeOK, Pool!HeadType
  <2>7. Counted' /\ Gets'
    BY <2>3 DEF Counted, Gets, Pool!TypeOK, Pool!HeadType
  <2>8. Puts'
    <3>1. ASSUME NEW u \in Threads, NEW k \in 1..Len(free')
          PROVE  free'[k] # object'[u]
      <4>1. CASE k = 1
        BY <2>1, <2>2, <2>3, <2>4, <4>1 DEF Pool!TypeOK
      <4>2. CASE k # 1
        <5>1. k \in 2..Len(free') /\ k - 1 \in 1..Len(free)
          BY <2>2, <4>2
        <5>2. free'[k] = free[k - 1] /\ free[k - 1] \in Pool!Node
          BY <2>2, <5>1 DEF Pool!TypeOK
        <5>3. free[k - 1] # Pool!nullptr
          BY <5>2 DEF Pool!Node, Pool!nullptr
        <5>4. object'[u] \in {Pool!nullptr, object[u]}
          BY <2>3 DEF Pool!TypeOK
        <5>5. free[k - 1] # object[u]
          BY <5>1 DEF Puts
        <5> QED
          BY <5>2, <5>3, <5>4, <5>5
      <4> QED
        BY <4>1, <4>2
    <3> QED
      BY <2>3, <3>1 DEF Puts, Pool!TypeOK
  <2>9. Pool!ListWhole'
    <3>1. free_head_'.node = free'[1] /\ free' # <<>>
      BY <2>2, <2>3
    <3>2. ASSUME NEW k \in 1..Len(free')
          PROVE  pool_next[free'[k]] = IF k = Len(free') THEN Pool!nullptr
                   ELSE free'[k + 1]
      <4>1. CASE k = 1
        BY <2>1, <2>2, <4>1 DEF Pool!ListWhole, Pool!TypeOK
      <4>2. CASE k # 1
        <5>1. k \in 2..Len(free') /\ k - 1 \in 1..Len(free)
          BY <2>2, <4>2
        <5>2. k = Len(free') <=> k - 1 = Len(free)
          BY <2>2
        <5>3. k # Len(free') => free'[k + 1] = free[k]
          <6>1. k # Len(free') => k \in 1..Len(free)
            BY <2>2
          <6> QED
            BY <2>2, <6>1
        <5> QED
          BY <5>1, <5>2, <5>3, <2>2 DEF Pool!ListWhole
      <4> QED
        BY <4>1, <4>2
    <3>3. ASSUME NEW j \in 1..Len(free'), NEW k \in 1..Len(free'),
                 free'[j] = free'[k]
          PROVE  j = k
      <4>1. j # 1 => j - 1 \in 1..Len(free) /\ free'[j] = free[j - 1]
        BY <2>2
      <4>2. k # 1 => k - 1 \in 1..Len(free) /\ free'[k] = free[k - 1]
        BY <2>2
      <4>3. j # 1 /\ k # 1 => j - 1 = k - 1
        BY <3>3, <4>1, <4>2 DEF Pool!ListWhole
      <4> QED
        BY <2>1, <2>2, <3>3, <4>1, <4>2, <4>3
    <3> QED
      BY <2>3, <3>1, <3>2, <3>3 DEF Pool!ListWhole
  <2>10. Pool!OneOwner'
    <3> SUFFICES ASSUME NEW i \in Pool!Node, held[i] > 0
                 PROVE  /\ held[i] = 1
                        /\ \A k \in 1..Len(free') : free'[k] # i
                        /\ \A u \in Threads : object'[u] # i
      BY <2>3 DEF Pool!OneOwner
    <3>1. i # n
      BY <2>5
    <3>2. ASSUME NEW k \in 1..Len(free') PROVE free'[k] # i
      <4>1. k # 1 => k \in 2..Len(free') /\ k - 1 \in 1..Len(free)
        BY <2>2
      <4>2. k # 1 => free'[k] = free[k - 1]
        BY <2>2, <4>1
      <4>3. k # 1 => free[k - 1] # i
        BY <4>1 DEF Pool!OneOwner
      <4> QED
        BY <2>2, <3>1, <4>2, <4>3
    <3>3. i # Pool!nullptr
      BY DEF Pool!Node, Pool!nullptr
    <3>4. ASSUME NEW u \in Threads PROVE object'[u] # i
      <4>1. object'[u] \in {Pool!nullptr, object[u]}
        BY <2>3 DEF Pool!TypeOK
      <4>2. object[u] # i
        BY DEF Pool!OneOwner
      <4> QED
        BY <3>3, <4>1, <4>2
    <3>5. held[i] = 1
      BY DEF Pool!OneOwner
    <3> QED
      BY <3>2, <3>4, <3>5
  <2>11. Pool!NothingLost'
    <3> SUFFICES ASSUME NEW i \in Pool!Node
                 PROVE  \/ \E k \in 1..Len(free') : free'[k] = i
                        \/ held[i] > 0
                        \/ \E u \in Threads : object'[u] = i
      BY <2>3 DEF Pool!NothingLost
    <3>1. CASE i = n
      BY <2>2, <3>1
    <3>2. CASE \E k \in 1..Len(free) : free[k] = i
      <4> PICK k \in 1..Len(free) : free[k] = i
        BY <3>2
      <4>1. k + 1 \in 1..Len(free') /\ free'[k + 1] = free[k]
        BY <2>2
      <4> QED
        BY <4>1
    <3>3. CASE i # n /\ \E u \in Threads : object[u] = i
      BY <2>3, <3>3 DEF Pool!TypeOK, n
    <3> QED
      BY <3>1, <3>2, <3>3 DEF Pool!NothingLost
  <2> QED
    BY <2>6, <2>7, <2>8, <2>9, <2>10, <2>11
<1>7. ASSUME NEW t \in Threads, Pool!PutHeadFails(t)
      PROVE  PoolInv'
  <2>1. /\ old_head' = [old_head EXCEPT ![t] = free_head_]
        /\ pool_pc' = [pool_pc EXCEPT ![t] = "put_next"]
        /\ pool_pc[t] = "put_cas"
        /\ UNCHANGED <<free_head_, pool_next, new_node, object, held, free>>
    BY <1>7 DEF Pool!PutHeadFails, Pool!Goto
  <2>2. Pool!TypeOK' /\ Counted'
    BY <2>1, Loading DEF Pool!TypeOK
  <2>3. Gets' /\ Puts'
    BY <2>1, Loading DEF Gets, Puts, Pool!TypeOK
  <2>4. Pool!ListWhole' /\ Pool!OneOwner' /\ Pool!NothingLost'
    BY <2>1 DEF Pool!ListWhole, Pool!OneOwner, Pool!NothingLost
  <2> QED
    BY <2>2, <2>3, <2>4
<1>8. CASE UNCHANGED Pool!vars
  BY <1>8
     DEF Pool!vars, Pool!TypeOK, Counted, Gets, Puts, Pool!ListWhole,
         Pool!OneOwner, Pool!NothingLost
<1> QED
  BY <1>1, <1>2, <1>3, <1>4, <1>5, <1>6, <1>7, <1>8 DEF Pool!Next, Pool!Step

LEMMA PoolHolds == Pool!Spec => []PoolInv
BY PoolInit, PoolNext, PTL DEF Pool!Spec

-----------------------------------------------------------------------------
(* An object has at most one owner, and is not in the list meanwhile.      *)
THEOREM ObjectsHaveOneOwner == Pool!Spec => []OneOwner
BY PoolHolds, PTL DEF PoolInv, OneOwner

(* The free list stays whole, and no object ever gets lost, whatever the   *)
(* threads that take and release objects do in between.                    *)
THEOREM FreeListStaysWhole ==
  Pool!Spec => [](Pool!TypeOK /\ ListWhole /\ Pool!NothingLost)
BY PoolHolds, PTL DEF PoolInv, ListWhole

-----------------------------------------------------------------------------
(* The nodes. A name of its own is stored and removed by the thread of its *)
(* node alone (Own); what other processes know of it is the order in which *)
(* its join and its leave are on the way (Agreed). Two nodes of one name   *)
(* are compared because a name that was heard of and not removed is stored *)
(* (Stored), and because no join is disposed twice (HeardOnce).            *)
Sole(n) == Manager!Namesakes(n) \subseteq {n}

(* A join that thread t disposes, and one that is still to be written.     *)
Disposing(t, n) ==
  /\ node_pc[t] \in {"add", "search", "compare"}
  /\ job[t] # NULL /\ job[t].op = "join" /\ job[t].node = n
Unwritten(n) ==
  \/ node_pc[n] = "new" \/ Disposing(n, n)
  \/ node_pc[n] = "write" /\ job[n] # NULL /\ job[n].op = "join"
Expelling(p, n) ==
  node_pc[p] = "remove" /\ job[p] # NULL /\ job[p].node = n
Is(q, p, i, op, n) == net[q][p][i].op = op /\ net[q][p][i].node = n
Comes(q, p, op, n) == \E i \in 1..Len(net[q][p]) : Is(q, p, i, op, n)

(* What a thread has in hand.                                              *)
Busy(t) ==
  /\ node_pc[t] \in {"add", "search", "compare"} =>
       job[t] # NULL /\ job[t].op = "join"
  /\ node_pc[t] = "remove" => job[t] # NULL /\ job[t].op = "leave"
  /\ node_pc[t] = "write" => job[t] # NULL
  /\ node_pc[t] \in {"idle", "new", "joined", "gone", "expel"} => job[t] = NULL
  /\ node_pc[t] = "compare" /\ existing[t] # NULL =>
       NameOf[existing[t].node] = NameOf[job[t].node]
  /\ IF t \in Proc
     THEN /\ node_pc[t] \notin {"new", "joined", "gone"}
          /\ job[t] # NULL => ProcOf[job[t].node] # t
          /\ node_pc[t] = "expel" =>
               existing[t] # NULL /\ ProcOf[existing[t].node] # t /\ faults # 0
     ELSE /\ node_pc[t] \notin {"idle", "expel"}
          /\ job[t] # NULL => job[t].node = t
          /\ node_pc[t] # "new" /\ state[ProcOf[t]] = "on" => stamp[t] # 0

(* Whatever is stored or under way is of a node that was made, and carries *)
(* the time of its join.                                                   *)
IsOf(r) == node_pc[r.node] # "new" /\ r.stamp = stamp[r.node]
Known ==
  /\ \A t \in Manager!Thread : (job[t] # NULL => IsOf(job[t]))
                       /\ (existing[t] # NULL => IsOf(existing[t]))
  /\ \A p \in Proc : \A k \in Manager!Name : Manager!HasNode(p, k) =>
       IsOf(nodes[p][k])
  /\ \A q, p \in Proc : \A i \in 1..Len(net[q][p]) :
       IsOf(net[q][p][i]) /\ ProcOf[net[q][p][i].node] = q

Faultless == faults = 0 => \A p \in Proc : state[p] = "on"

(* A node of a name of its own is stored in its process by its own thread. *)
Own(n) ==
  LET has == Manager!HasNode(ProcOf[n], NameOf[n])
      on == state[ProcOf[n]] = "on"
  IN Sole(n) =>
       /\ node_pc[n] \in {"new", "add"} => ~has
       /\ node_pc[n] \notin {"search", "compare"}
       /\ node_pc[n] = "write" => (has <=> job[n].op = "join")
       /\ node_pc[n] = "joined" /\ on => has
       /\ node_pc[n] = "gone" /\ on => ~has

(* A process disposes each join once: it has not heard of what is still to *)
(* come.                                                                   *)
HeardOnce(n, p) ==
  IF p = ProcOf[n]
  THEN node_pc[n] = "new" \/ Disposing(n, n) => n \notin heard[p]
  ELSE LET q == ProcOf[n] IN
       /\ Unwritten(n) \/ Comes(q, p, "join", n) =>
            n \notin heard[p] /\ ~Disposing(p, n)
       /\ Unwritten(n) => ~Comes(q, p, "join", n)
       /\ Disposing(p, n) => n \notin heard[p]
       /\ \A i, j \in 1..Len(net[q][p]) :
            Is(q, p, i, "join", n) /\ Is(q, p, j, "join", n) => i = j

(* What is stored was heard of; a name that was heard of and not removed   *)
(* is stored, so that who finds it taken compares with another node.       *)
Stored(p, k) ==
  /\ Manager!HasNode(p, k) => nodes[p][k].node \in heard[p]
  /\ k \notin removed[p] =>
       /\ \A n \in heard[p] : NameOf[n] = k => Manager!HasNode(p, k)
       /\ \A t \in Manager!Thread :
            /\ Manager!Home(t) = p /\ node_pc[t] \in {"search", "compare"}
            /\ NameOf[job[t].node] = k
            => /\ Manager!HasNode(p, k)
               /\ node_pc[t] = "compare" =>
                    existing[t] # NULL /\ existing[t].node \in heard[p]
Noticed(a, b) ==
  (/\ Manager!Namesakes(a) = {a, b} /\ a # b /\ stamp[a] < stamp[b]
   /\ {a, b} \subseteq heard[ProcOf[b]]
   /\ NameOf[a] \notin removed[ProcOf[b]])
    => NameOf[b] \in warned[ProcOf[b]]

(* What another process knows of a node of a name of its own, while        *)
(* nothing is lost: its join and then its leave are under way or disposed. *)
Agreed(n, p) ==
  LET q == ProcOf[n]
      k == NameOf[n]
  IN (faults = 0 /\ Sole(n) /\ p # q) =>
       /\ Comes(q, p, "leave", n) \/ Expelling(p, n) \/ k \in removed[p]
            => node_pc[n] = "gone"
       /\ ~Unwritten(n) =>
            Comes(q, p, "join", n) \/ Disposing(p, n) \/ n \in heard[p]
       /\ node_pc[n] = "gone" =>
            Comes(q, p, "leave", n) \/ Expelling(p, n) \/ k \in removed[p]
       /\ k \in removed[p] =>
            ~Manager!HasNode(p, k) /\ ~Comes(q, p, "join", n)
              /\ ~Disposing(p, n)
       /\ Expelling(p, n) => ~Comes(q, p, "join", n)
       /\ \A i, j \in 1..Len(net[q][p]) :
            Is(q, p, i, "join", n) /\ Is(q, p, j, "leave", n) => i < j

NodesInv ==
  /\ Manager!TypeOK /\ Known /\ Faultless
  /\ \A t \in Manager!Thread : Busy(t)
  /\ \A n \in Nodes : Own(n) /\ \A p \in Proc : HeardOnce(n, p) /\ Agreed(n, p)
  /\ \A p \in Proc : \A k \in Manager!Name : Stored(p, k)
  /\ \A a, b \in Nodes : Noticed(a, b)

-----------------------------------------------------------------------------
LEMMA Homes ==
  /\ \A p \in Proc : Manager!Home(p) = p /\ p \in Manager!Thread
       /\ p \notin Nodes
  /\ \A n \in Nodes : Manager!Home(n) = ProcOf[n] /\ ProcOf[n] \in Proc
       /\ n \notin Proc
                     /\ n \in Manager!Thread /\ NameOf[n] \in Manager!Name
  /\ \A t \in Manager!Thread : Manager!Home(t) \in Proc
       /\ (t \in Nodes \/ t \in Proc)
BY NodeConstants
   DEF Manager!NodeAssumption, Manager!Home, Manager!Thread, Manager!Name

LEMMA NotNone ==
  /\ \A r \in Manager!Roles : r # NULL /\ r.node \in Nodes
       /\ r.stamp \in 1..MaxStamp
  /\ \A c \in Manager!Changes : /\ c # NULL /\ c.node \in Nodes
                                /\ c.stamp \in 1..MaxStamp
                        /\ c.op \in {"join", "leave"}
                        /\ Manager!RoleOf(c) \in Manager!Roles
                        /\ Manager!RoleOf(c).node = c.node
                        /\ Manager!RoleOf(c).stamp = c.stamp
BY NodeConstants
   DEF Manager!NodeAssumption, Manager!Roles, Manager!Changes, Manager!RoleOf

(* A node of a name of its own is the only one that changes and roles of   *)
(* its name can be of.                                                     *)
LEMMA Only ==
  ASSUME NEW n \in Nodes, Sole(n), NEW m \in Nodes, NameOf[m] = NameOf[n],
         node_pc[m] # "new"
  PROVE  m = n
BY DEF Sole, Manager!Namesakes

LEMMA StoredIs ==
  ASSUME NodesInv, NEW n \in Nodes, Sole(n), NEW p \in Proc,
         Manager!HasNode(p, NameOf[n])
  PROVE  nodes[p][NameOf[n]].node = n
<1>1. nodes[p][NameOf[n]] \in Manager!Roles
        /\ NameOf[nodes[p][NameOf[n]].node] = NameOf[n]
  BY Homes DEF NodesInv, Manager!TypeOK, Manager!HasNode
<1> QED
  BY <1>1, Homes, NotNone, Only DEF NodesInv, Known, IsOf

LEMMA HoldsIs ==
  ASSUME NodesInv, NEW n \in Nodes, Sole(n), NEW p \in Proc
  PROVE  Manager!Holds(p, n) <=> Manager!HasNode(p, NameOf[n])
<1>1. ASSUME Manager!Holds(p, n) PROVE Manager!HasNode(p, NameOf[n])
  <2>1. PICK k \in Manager!Name : Manager!HasNode(p, k) /\ nodes[p][k].node = n
    BY <1>1 DEF Manager!Holds, Manager!GetNodes
  <2>2. k = NameOf[n]
    BY <2>1 DEF NodesInv, Manager!TypeOK
  <2> QED
    BY <2>1, <2>2
<1>2. ASSUME Manager!HasNode(p, NameOf[n]) PROVE Manager!Holds(p, n)
  BY <1>2, StoredIs, Homes DEF Manager!Holds, Manager!GetNodes
<1> QED
  BY <1>1, <1>2

LEMMA OwnNodesHold ==
  ASSUME NodesInv
  PROVE  Manager!OwnNodes
<1> SUFFICES ASSUME NEW n \in Nodes, Sole(n)
             PROVE  /\ node_pc[n] = "joined" /\ state[ProcOf[n]] = "on" =>
                         Manager!Holds(ProcOf[n], n)
                    /\ node_pc[n] \in {"new", "add"} =>
                         ~Manager!Holds(ProcOf[n], n)
                    /\ node_pc[n] = "gone" /\ state[ProcOf[n]] = "on" =>
                         ~Manager!Holds(ProcOf[n], n)
  BY DEF Manager!OwnNodes, Sole
<1> QED
  BY HoldsIs, Homes DEF NodesInv, Own

LEMMA AllAgreeHolds ==
  ASSUME NodesInv
  PROVE  Manager!AllAgree
<1> SUFFICES ASSUME NEW p \in Proc, NEW n \in Nodes, Manager!Settled(p),
                    faults = 0, Sole(n)
             PROVE  /\ node_pc[n] = "joined" => Manager!Holds(p, n)
                    /\ node_pc[n] \in {"new", "gone"} => ~Manager!Holds(p, n)
  BY DEF Manager!AllAgree, Sole
<1> DEFINE q == ProcOf[n]
           k == NameOf[n]
<1>1. Manager!Holds(p, n) <=> Manager!HasNode(p, k)
  BY HoldsIs
<1>2. CASE p = q
  BY <1>1, <1>2, Homes DEF NodesInv, Own, Faultless
<1>3. CASE p # q
  <2>1. ~Disposing(p, n) /\ ~Expelling(p, n)
    BY DEF Manager!Settled, Disposing, Expelling
  <2>2. \A op : ~Comes(q, p, op, n)
    BY Homes DEF Manager!Settled, Comes
  <2>3. Agreed(n, p) /\ HeardOnce(n, p) /\ Stored(p, k)
    BY Homes DEF NodesInv
  <2>4. node_pc[n] = "joined" => ~Unwritten(n)
    BY DEF Unwritten, Disposing
  <2>5. node_pc[n] = "joined" => Manager!HasNode(p, k)
    BY <1>3, <2>1, <2>2, <2>3, <2>4 DEF Agreed, Stored
  <2>6. node_pc[n] = "new" => ~Manager!HasNode(p, k)
    BY <1>3, <2>3, StoredIs DEF HeardOnce, Unwritten, Stored
  <2>7. node_pc[n] = "gone" => ~Manager!HasNode(p, k)
    BY <1>3, <2>1, <2>2, <2>3 DEF Agreed
  <2> QED
    BY <1>1, <2>5, <2>6, <2>7
<1> QED
  BY <1>2, <1>3

LEMMA NodesInit ==
  ASSUME Manager!Init
  PROVE  NodesInv
<1>1. /\ \A t \in Manager!Thread : job[t] = NULL /\ existing[t] = NULL
      /\ \A p \in Proc : node_pc[p] = "idle" /\ state[p] = "on"
           /\ heard[p] = {}
                         /\ gone[p] = {} /\ warned[p] = {} /\ removed[p] = {}
      /\ \A n \in Nodes : node_pc[n] = "new" /\ stamp[n] = 0
      /\ \A p \in Proc : \A k \in Manager!Name : nodes[p][k] = NULL
      /\ \A q, p \in Proc : net[q][p] = <<>> /\ Len(net[q][p]) = 0
      /\ faults = 0
  BY Homes DEF Manager!Init
<1>2. Manager!TypeOK
  BY <1>1, Homes, NodeConstants
     DEF Manager!Init, Manager!TypeOK, Manager!Locations, Manager!HasNode,
         Manager!NodeAssumption
<1>3. Known /\ Faultless
  BY <1>1 DEF Known, Faultless, Manager!HasNode
<1>4. \A t \in Manager!Thread : Busy(t)
  BY <1>1, Homes DEF Busy
<1>5. \A n \in Nodes : Own(n)
  BY <1>1, Homes DEF Own, Manager!HasNode
<1>6. ASSUME NEW n \in Nodes, NEW p \in Proc
      PROVE  HeardOnce(n, p) /\ Agreed(n, p)
  <2>1. /\ \A op : ~Comes(ProcOf[n], p, op, n)
        /\ ~Disposing(p, n) /\ ~Expelling(p, n) /\ Unwritten(n)
        /\ node_pc[n] = "new"
    BY <1>1, Homes DEF Comes, Disposing, Expelling, Unwritten
  <2> QED
    BY <1>1, <2>1, Homes DEF HeardOnce, Agreed
<1>7. \A p \in Proc : \A k \in Manager!Name : Stored(p, k)
  BY <1>1, Homes DEF Stored, Manager!HasNode
<1>8. \A a, b \in Nodes : Noticed(a, b)
  BY <1>1, Homes DEF Noticed
<1> QED
  BY <1>2, <1>3, <1>4, <1>5, <1>6, <1>7, <1>8 DEF NodesInv

-----------------------------------------------------------------------------
(* What no step takes back.                                                *)
Grows ==
  /\ \A n \in Nodes : node_pc[n] # "new" =>
       node_pc'[n] # "new" /\ stamp'[n] = stamp[n]
  /\ \A p \in Proc : /\ heard[p] \subseteq heard'[p]
                     /\ removed[p] \subseteq removed'[p]
                     /\ state'[p] = "on" => state[p] = "on"
  /\ faults' = 0 => faults = 0

LEMMA SoleBefore ==
  ASSUME Grows, NEW n \in Nodes, Sole(n)'
  PROVE  Sole(n)
BY DEF Grows, Sole, Manager!Namesakes

LEMMA KnownKept ==
  ASSUME NodesInv, Grows,
         \A u \in Manager!Thread :
           /\ job'[u] = job[u] \/ job'[u] = NULL \/ IsOf(job[u])'
           /\ existing'[u] = existing[u] \/ existing'[u] = NULL
                \/ IsOf(existing[u])',
         \A p \in Proc : \A k \in Manager!Name :
           nodes'[p][k] = nodes[p][k] \/ nodes'[p][k] = NULL
             \/ IsOf(nodes[p][k])',
         \A q, p \in Proc : \A i \in 1..Len(net'[q][p]) :
           \/ \E j \in 1..Len(net[q][p]) : net'[q][p][i] = net[q][p][j]
           \/ IsOf(net[q][p][i])' /\ ProcOf[net'[q][p][i].node] = q
  PROVE  Known'
<1>1. ASSUME NEW u \in Manager!Thread
      PROVE  (job[u] # NULL => IsOf(job[u]))'
               /\ (existing[u] # NULL => IsOf(existing[u]))'
  <2>1. /\ job[u] # NULL => job[u].node \in Nodes /\ IsOf(job[u])
        /\ existing[u] # NULL => existing[u].node \in Nodes /\ IsOf(existing[u])
    BY NotNone DEF NodesInv, Manager!TypeOK, Known
  <2> QED
    BY <2>1 DEF IsOf, Grows
<1>2. ASSUME NEW p \in Proc, NEW k \in Manager!Name
      PROVE  (Manager!HasNode(p, k) => IsOf(nodes[p][k]))'
  <2>1. nodes[p][k] # NULL => nodes[p][k].node \in Nodes /\ IsOf(nodes[p][k])
    BY NotNone DEF NodesInv, Manager!TypeOK, Known, Manager!HasNode
  <2> QED
    BY <2>1 DEF IsOf, Grows, Manager!HasNode
<1>3. ASSUME NEW q \in Proc, NEW p \in Proc, NEW i \in 1..Len(net'[q][p])
      PROVE  IsOf(net[q][p][i])' /\ ProcOf[net'[q][p][i].node] = q
  <2>1. ASSUME NEW j \in 1..Len(net[q][p])
        PROVE  /\ net[q][p][j].node \in Nodes /\ IsOf(net[q][p][j])
               /\ ProcOf[net[q][p][j].node] = q
    <3>1. net[q][p] \in Seq(Manager!Changes)
      BY DEF NodesInv, Manager!TypeOK
    <3>2. net[q][p][j] \in Manager!Changes
      BY <3>1
    <3> QED
      BY <3>2, NotNone DEF NodesInv, Known
  <2>2. CASE \E j \in 1..Len(net[q][p]) : net'[q][p][i] = net[q][p][j]
    <3>1. PICK j \in 1..Len(net[q][p]) : net'[q][p][i] = net[q][p][j]
      BY <2>2
    <3>2. /\ node_pc'[net[q][p][j].node] # "new"
          /\ net[q][p][j].stamp = stamp'[net[q][p][j].node]
      BY <2>1 DEF IsOf, Grows
    <3> QED
      BY <2>1, <3>1, <3>2 DEF IsOf
  <2>3. CASE IsOf(net[q][p][i])' /\ ProcOf[net'[q][p][i].node] = q
    BY <2>3
  <2> QED
    BY <2>2, <2>3
<1> QED
  BY <1>1, <1>2, <1>3 DEF Known

(* For process p nothing has changed of what it knows and will know of n.  *)
SamePath(n, p) ==
  /\ Disposing(p, n)' <=> Disposing(p, n)
  /\ (node_pc[n] = "new" \/ Disposing(n, n))' <=>
       node_pc[n] = "new" \/ Disposing(n, n)
  /\ Unwritten(n)' <=> Unwritten(n)
  /\ Expelling(p, n)' <=> Expelling(p, n)
  /\ node_pc'[n] = "gone" <=> node_pc[n] = "gone"
  /\ net' = net
  /\ n \in heard'[p] <=> n \in heard[p]

LEMMA HeardKept ==
  ASSUME NEW n \in Nodes, NEW p \in Proc, HeardOnce(n, p), SamePath(n, p)
  PROVE  HeardOnce(n, p)'
BY DEF HeardOnce, SamePath, Comes, Is

LEMMA AgreedKept ==
  ASSUME Grows, NEW n \in Nodes, NEW p \in Proc, Agreed(n, p), SamePath(n, p),
         NameOf[n] \in removed'[p] <=> NameOf[n] \in removed[p],
         NameOf[n] \in removed[p] /\ Manager!HasNode(p, NameOf[n])' =>
           Manager!HasNode(p, NameOf[n])
  PROVE  Agreed(n, p)'
<1>1. Sole(n)' => Sole(n)
  BY SoleBefore
<1> QED
  BY <1>1 DEF Grows, Agreed, SamePath, Comes, Is

(* Processes are shut down and exit.                                       *)
LEMMA StateChanges ==
  ASSUME NodesInv, NEW p \in Proc, Manager!Shutdown(p)
           \/ Manager!StopDiscovery(p) \/ Manager!Exit(p)
  PROVE  NodesInv'
<1>1. /\ node_pc' = node_pc /\ job' = job /\ existing' = existing
      /\ nodes' = nodes
      /\ net' = net /\ heard' = heard /\ removed' = removed /\ stamp' = stamp
      /\ warned' = warned /\ gone' = gone
      /\ faults \in Nat /\ faults' \in {faults, faults + 1}
      /\ state' \in [Proc -> {"on", "shutdown", "stopped", "exited"}]
      /\ \A q \in Proc : state'[q] = "on" => state[q] = "on"
      /\ state[p] = "on" => faults' = faults + 1
  BY DEF NodesInv, Manager!TypeOK, Manager!Shutdown, Manager!StopDiscovery,
     Manager!Exit, Manager!history
<1>2. faults' # 0
  <2>1. state[p] # "on" => faults # 0
    BY DEF NodesInv, Faultless
  <2> QED
    BY <1>1, <2>1
<1>3. Grows
  BY <1>1, <1>2 DEF Grows
<1>4. Manager!TypeOK'
  BY <1>1 DEF NodesInv, Manager!TypeOK, Manager!HasNode
<1>5. Known' /\ Faultless'
  BY <1>1, <1>2 DEF NodesInv, Known, Faultless, IsOf, Manager!HasNode
<1>6. \A t \in Manager!Thread : Busy(t)'
  BY <1>1, <1>2, Homes DEF NodesInv, Busy
<1>7. ASSUME NEW n \in Nodes
      PROVE  Own(n)'
  BY <1>1, Homes DEF NodesInv, Own, Sole, Manager!Namesakes, Manager!HasNode
<1>8. ASSUME NEW n \in Nodes, NEW q \in Proc
      PROVE  HeardOnce(n, q)' /\ Agreed(n, q)'
  <2>1. SamePath(n, q)
    BY <1>1 DEF SamePath, Disposing, Unwritten, Expelling
  <2>2. HeardOnce(n, q)'
    BY <2>1, HeardKept DEF NodesInv
  <2> QED
    BY <1>2, <2>2 DEF Agreed
<1>9. \A q \in Proc : \A k \in Manager!Name : Stored(q, k)'
  BY <1>1 DEF NodesInv, Stored, Manager!HasNode
<1>10. \A a, b \in Nodes : Noticed(a, b)'
  BY <1>1 DEF NodesInv, Noticed, Manager!Namesakes
<1> QED
  BY <1>4, <1>5, <1>6, <1>7, <1>8, <1>9, <1>10 DEF NodesInv

(* A name that is taken, and the other node looked up.                     *)
LEMMA NameTaken ==
  ASSUME NodesInv, NEW t \in Manager!Thread, Manager!AddNode(t),
         Manager!HasNode(Manager!Home(t), Manager!Key(job[t]))
  PROVE  NodesInv'
<1>1. /\ node_pc[t] = "add" /\ \A u \in Manager!Thread : node_pc'[u] = IF u = t
           THEN "search" ELSE node_pc[u]
      /\ node_pc' \in [Manager!Thread -> Manager!Locations]
      /\ job' = job /\ existing' = existing /\ nodes' = nodes
      /\ net' = net /\ heard' = heard /\ removed' = removed /\ stamp' = stamp
      /\ warned' = warned /\ gone' = gone /\ state' = state /\ faults' = faults
  BY DEF NodesInv, Manager!TypeOK, Manager!AddNode, Manager!Goto,
     Manager!procVars, Manager!Locations
<1>2. Grows
  BY <1>1, Homes DEF Grows
<1>3. Manager!TypeOK'
  BY <1>1 DEF NodesInv, Manager!TypeOK, Manager!HasNode
<1>4. Known' /\ Faultless'
  BY <1>1, <1>2, KnownKept DEF NodesInv, Faultless
<1>5. \A u \in Manager!Thread : Busy(u)'
  BY <1>1, Homes DEF NodesInv, Busy
<1>6. ASSUME NEW n \in Nodes
      PROVE  Own(n)'
  <2>1. Sole(n)' => Sole(n)
    BY <1>2, SoleBefore
  <2>2. n = t =>
          job[t].node = n
            /\ (Sole(n) => ~Manager!HasNode(ProcOf[n], NameOf[n]))
    BY <1>1, Homes DEF NodesInv, Busy, Own
  <2> QED
    BY <1>1, <2>1, <2>2, Homes DEF NodesInv, Own, Manager!HasNode, Manager!Key
<1>7. ASSUME NEW n \in Nodes, NEW p \in Proc
      PROVE  HeardOnce(n, p)' /\ Agreed(n, p)'
  <2>1. SamePath(n, p)
    BY <1>1, Homes DEF SamePath, Disposing, Unwritten, Expelling
  <2> QED
    BY <1>1, <1>2, <2>1, HeardKept, AgreedKept DEF NodesInv, Manager!HasNode
<1>8. \A p \in Proc : \A k \in Manager!Name : Stored(p, k)'
  BY <1>1, Homes DEF NodesInv, Stored, Manager!HasNode, Manager!Key
<1>9. \A a, b \in Nodes : Noticed(a, b)'
  <2>1. \A n \in Nodes : Manager!Namesakes(n)' = Manager!Namesakes(n)
    BY <1>1, Homes DEF Manager!Namesakes
  <2> QED
    BY <1>1, <2>1 DEF NodesInv, Noticed
<1> QED
  BY <1>3, <1>4, <1>5, <1>6, <1>7, <1>8, <1>9 DEF NodesInv

LEMMA SearchNodeInv ==
  ASSUME NodesInv, NEW t \in Manager!Thread, Manager!SearchNode(t)
  PROVE  NodesInv'
<1> DEFINE r == nodes[Manager!Home(t)][Manager!Key(job[t])]
<1>1. /\ node_pc[t] = "search"
           /\ \A u \in Manager!Thread : node_pc'[u] = IF u = t THEN "compare"
                ELSE node_pc[u]
      /\ node_pc' \in [Manager!Thread -> Manager!Locations]
      /\ job' = job /\ nodes' = nodes
      /\ net' = net /\ heard' = heard /\ removed' = removed /\ stamp' = stamp
      /\ warned' = warned /\ gone' = gone /\ state' = state /\ faults' = faults
      /\ existing' = [existing EXCEPT ![t] = r]
  BY DEF NodesInv, Manager!TypeOK, Manager!SearchNode, Manager!Goto,
     Manager!procVars, Manager!history, Manager!Locations
<1>2. /\ Manager!Home(t) \in Proc /\ job[t] # NULL
      /\ job[t] \in Manager!Changes /\ Manager!Key(job[t]) \in Manager!Name
      /\ r \in Manager!Roles \cup {NULL}
      /\ r # NULL => NameOf[r.node] = Manager!Key(job[t]) /\ IsOf(r)
  BY <1>1, Homes, NotNone
     DEF NodesInv, Manager!TypeOK, Busy, Known, Manager!HasNode, Manager!Key
<1>3. /\ \A u \in Manager!Thread : existing'[u] = IF u = t THEN r
           ELSE existing[u]
      /\ existing' \in [Manager!Thread -> Manager!Roles \cup {NULL}]
  BY <1>1, <1>2 DEF NodesInv, Manager!TypeOK
<1>4. Grows
  BY <1>1, Homes DEF Grows
<1>5. Manager!TypeOK'
  BY <1>1, <1>3 DEF NodesInv, Manager!TypeOK, Manager!HasNode
<1>6. r # NULL => r.node \in heard[Manager!Home(t)]
  BY <1>2 DEF NodesInv, Stored, Manager!HasNode
<1>7. Manager!Key(job[t]) \notin removed[Manager!Home(t)] => r # NULL
  BY <1>1, <1>2 DEF NodesInv, Stored, Manager!HasNode, Manager!Key
<1> HIDE DEF r
<1>8. Known' /\ Faultless'
  <2>1. r # NULL => node_pc'[r.node] # "new" /\ r.stamp = stamp'[r.node]
    BY <1>2, <1>4, NotNone DEF Grows, IsOf
  <2>2. existing'[t] # NULL => IsOf(existing[t])'
    BY <1>3, <2>1 DEF IsOf
  <2> QED
    BY <1>1, <1>3, <1>4, <2>2, KnownKept DEF NodesInv, Faultless
<1>9. \A u \in Manager!Thread : Busy(u)'
  BY <1>1, <1>2, <1>3, Homes DEF NodesInv, Busy, Manager!Key
<1>10. ASSUME NEW n \in Nodes
       PROVE  Own(n)'
  <2>1. Sole(n)' => Sole(n)
    BY <1>4, SoleBefore
  <2> QED
    BY <1>1, <2>1, Homes DEF NodesInv, Own, Manager!HasNode
<1>11. ASSUME NEW n \in Nodes, NEW p \in Proc
       PROVE  HeardOnce(n, p)' /\ Agreed(n, p)'
  <2>1. SamePath(n, p)
    BY <1>1, Homes DEF SamePath, Disposing, Unwritten, Expelling
  <2> QED
    BY <1>1, <1>4, <2>1, HeardKept, AgreedKept DEF NodesInv, Manager!HasNode
<1>12. \A p \in Proc : \A k \in Manager!Name : Stored(p, k)'
  BY <1>1, <1>3, <1>6, <1>7, Homes
     DEF NodesInv, Stored, Manager!HasNode, Manager!Key
<1>13. \A a, b \in Nodes : Noticed(a, b)'
  <2>1. \A n \in Nodes : Manager!Namesakes(n)' = Manager!Namesakes(n)
    BY <1>1, Homes DEF Manager!Namesakes
  <2> QED
    BY <1>1, <2>1 DEF NodesInv, Noticed
<1> QED
  BY <1>5, <1>8, <1>9, <1>10, <1>11, <1>12, <1>13 DEF NodesInv

(* A node joins or leaves.                                                 *)
LEMMA AnnounceFacts ==
  ASSUME NodesInv, NEW n \in Nodes, Manager!Join(n) \/ Manager!Leave(n)
  PROVE  /\ existing' = existing /\ nodes' = nodes /\ net' = net
         /\ heard' = heard
         /\ removed' = removed /\ warned' = warned /\ gone' = gone
         /\ state' = state
         /\ faults' = faults
         /\ node_pc[n] \in {"new", "joined"} /\ job[n] = NULL
         /\ Manager!Runs(n)
         /\ node_pc' \in [Manager!Thread -> Manager!Locations]
         /\ node_pc'[n] \notin {"new", "search", "compare", "write"}
         /\ node_pc[n] = "new" => node_pc'[n] \in {"add", "joined"}
         /\ node_pc[n] = "joined" => node_pc'[n] \in {"remove", "gone"}
         /\ node_pc'[n] \in {"add", "remove"} <=> state[ProcOf[n]] = "on"
         /\ \A u \in Manager!Thread : u # n =>
              node_pc'[u] = node_pc[u] /\ job'[u] = job[u]
         /\ \A m \in Nodes : m # n \/ node_pc[n] = "joined" =>
              stamp'[m] = stamp[m]
         /\ state[ProcOf[n]] = "on" =>
              /\ job'[n] \in Manager!Changes /\ job'[n].node = n
              /\ job'[n].stamp = stamp'[n]
              /\ job'[n].op = (IF node_pc[n] = "new" THEN "join" ELSE "leave")
         /\ state[ProcOf[n]] # "on" => job' = job /\ stamp' = stamp
         /\ job' \in [Manager!Thread -> Manager!Changes \cup {NULL}]
         /\ stamp' \in [Nodes -> 0..MaxStamp]
<1> DEFINE op == IF node_pc[n] = "new" THEN "join" ELSE "leave"
           done == IF node_pc[n] = "new" THEN "joined" ELSE "gone"
<1>1. /\ node_pc[n] \in {"new", "joined"} /\ Manager!Announce(n, op, done)
      /\ op \in {"join", "leave"} /\ (op = "join" <=> node_pc[n] = "new")
      /\ done \in {"joined", "gone"} /\ n \in Manager!Thread /\ job[n] = NULL
      /\ MaxStamp \in Nat
  BY Homes, NodeConstants
     DEF Manager!Join, Manager!Leave, NodesInv, Busy, Manager!NodeAssumption
<1>2. /\ existing' = existing /\ nodes' = nodes /\ net' = net /\ heard' = heard
      /\ removed' = removed /\ warned' = warned /\ gone' = gone
      /\ state' = state
      /\ faults' = faults /\ Manager!Runs(n)
  BY <1>1 DEF Manager!Announce, Manager!procVars
<1>3. CASE state[ProcOf[n]] = "on"
  <2>1. PICK now \in (IF op = "join" THEN 1..MaxStamp ELSE {stamp[n]}) :
          /\ Manager!Dispose(n, [op |-> op, node |-> n, stamp |-> now])
          /\ stamp' = [stamp EXCEPT ![n] = now]
    BY <1>1, <1>3 DEF Manager!Announce
  <2>2. now \in 1..MaxStamp /\ (node_pc[n] = "joined" => now = stamp[n])
    BY <1>1, <1>3, <2>1, Homes DEF NodesInv, Manager!TypeOK, Busy
  <2> DEFINE c == [op |-> op, node |-> n, stamp |-> now]
  <2>3. c \in Manager!Changes /\ c.op = op /\ c.node = n /\ c.stamp = now
    BY <1>1, <2>2 DEF Manager!Changes
  <2>4. /\ job' = [job EXCEPT ![n] = c]
        /\ node_pc'
             = [node_pc EXCEPT ![n] = IF op = "join" THEN "add" ELSE "remove"]
    BY <2>1, <2>3 DEF Manager!Dispose, Manager!Goto
  <2> HIDE DEF c
  <2>5. /\ stamp' \in [Nodes -> 0..MaxStamp] /\ stamp'[n] = now
        /\ \A m \in Nodes : m # n \/ node_pc[n] = "joined" =>
             stamp'[m] = stamp[m]
    BY <1>1, <2>1, <2>2 DEF NodesInv, Manager!TypeOK
  <2>6. job' \in [Manager!Thread -> Manager!Changes \cup {NULL}] /\ job'[n] = c
    BY <1>1, <2>3, <2>4 DEF NodesInv, Manager!TypeOK
  <2>7. /\ node_pc' \in [Manager!Thread -> Manager!Locations]
        /\ node_pc'[n] = IF op = "join" THEN "add" ELSE "remove"
    BY <1>1, <2>4 DEF NodesInv, Manager!TypeOK, Manager!Locations
  <2>8. \A u \in Manager!Thread : u # n =>
          node_pc'[u] = node_pc[u] /\ job'[u] = job[u]
    BY <2>4 DEF NodesInv, Manager!TypeOK
  <2> HIDE DEF done
  <2> QED
    BY <1>1, <1>2, <1>3, <2>3, <2>5, <2>6, <2>7, <2>8
<1>4. CASE state[ProcOf[n]] # "on"
  <2>1. node_pc' = [node_pc EXCEPT ![n] = done] /\ job' = job /\ stamp' = stamp
    BY <1>1, <1>4 DEF Manager!Announce, Manager!Goto
  <2> QED
    BY <1>1, <1>2, <1>4, <2>1 DEF NodesInv, Manager!TypeOK, Manager!Locations
<1> QED
  BY <1>3, <1>4

LEMMA AnnounceInv ==
  ASSUME NodesInv, NEW n \in Nodes, Manager!Join(n) \/ Manager!Leave(n)
  PROVE  NodesInv'
<1>1. /\ existing' = existing /\ nodes' = nodes /\ net' = net /\ heard' = heard
      /\ removed' = removed /\ warned' = warned /\ gone' = gone
      /\ state' = state
      /\ faults' = faults
      /\ node_pc' \in [Manager!Thread -> Manager!Locations]
      /\ job' \in [Manager!Thread -> Manager!Changes \cup {NULL}]
      /\ stamp' \in [Nodes -> 0..MaxStamp]
  BY AnnounceFacts
<1>2. /\ node_pc[n] \in {"new", "joined"} /\ job[n] = NULL
      /\ node_pc'[n] \notin {"new", "search", "compare", "write"}
      /\ node_pc[n] = "new" => node_pc'[n] \in {"add", "joined"}
      /\ node_pc[n] = "joined" => node_pc'[n] \in {"remove", "gone"}
      /\ node_pc'[n] \in {"add", "remove"} <=> state[ProcOf[n]] = "on"
      /\ \A u \in Manager!Thread : u # n =>
           node_pc'[u] = node_pc[u] /\ job'[u] = job[u]
      /\ \A m \in Nodes : m # n \/ node_pc[n] = "joined" => stamp'[m] = stamp[m]
  BY AnnounceFacts
<1>3. /\ state[ProcOf[n]] = "on" =>
           /\ job'[n] \in Manager!Changes /\ job'[n].node = n
           /\ job'[n].stamp = stamp'[n]
           /\ job'[n].op = (IF node_pc[n] = "new" THEN "join" ELSE "leave")
      /\ state[ProcOf[n]] # "on" => job' = job /\ stamp' = stamp
  BY AnnounceFacts
<1>4. n \in Manager!Thread /\ n \notin Proc
  BY Homes
<1>5. Grows
  BY <1>1, <1>2, Homes DEF Grows
<1>6. Manager!TypeOK'
  BY <1>1 DEF NodesInv, Manager!TypeOK, Manager!HasNode
<1>7. Known' /\ Faultless'
  <2>1. job'[n] = job[n] \/ IsOf(job[n])'
    BY <1>2, <1>3 DEF IsOf
  <2> QED
    BY <1>1, <1>2, <1>5, <2>1, KnownKept DEF NodesInv, Faultless
<1>8. \A u \in Manager!Thread : Busy(u)'
  <2>1. ASSUME NEW u \in Manager!Thread, u # n
        PROVE  Busy(u)'
    BY <1>1, <1>2, <2>1, Homes DEF NodesInv, Busy
  <2>2. Busy(n)'
    BY <1>1, <1>2, <1>3, <1>4, NotNone, Homes DEF NodesInv, Busy
  <2> QED
    BY <2>1, <2>2
<1>9. ASSUME NEW m \in Nodes
      PROVE  Own(m)'
  <2>1. Sole(m)' => Sole(m)
    BY <1>5, SoleBefore
  <2>2. CASE m = n
    BY <1>1, <1>2, <2>1, <2>2 DEF NodesInv, Own, Manager!HasNode
  <2>3. CASE m # n
    BY <1>1, <1>2, <2>1, <2>3, Homes DEF NodesInv, Own, Manager!HasNode
  <2> QED
    BY <2>2, <2>3
<1>10. ASSUME NEW m \in Nodes, NEW p \in Proc
       PROVE  HeardOnce(m, p)' /\ Agreed(m, p)'
  <2>1. Disposing(p, m)' <=> Disposing(p, m)
    BY <1>1, <1>2, <1>4, Homes DEF Disposing
  <2>2. Expelling(p, m)' <=> Expelling(p, m)
    BY <1>1, <1>2, <1>4, Homes DEF Expelling
  <2>3. CASE m # n \/ state[ProcOf[n]] = "on"
    <3>1. SamePath(m, p)
      BY <1>1, <1>2, <1>3, <1>4, <2>1, <2>2, <2>3, Homes, NotNone
         DEF SamePath, Disposing, Unwritten
    <3> QED
      BY <1>1, <1>5, <3>1, HeardKept, AgreedKept DEF NodesInv, Manager!HasNode
  <2>4. CASE m = n /\ state[ProcOf[n]] # "on"
    <3>1. faults' # 0
      BY <1>1, <2>4, Homes DEF NodesInv, Faultless
    <3>2. ~Unwritten(m)' /\ node_pc'[m] # "new" /\ ~Disposing(m, m)'
      BY <1>2, <2>4 DEF Unwritten, Disposing
    <3>3. HeardOnce(m, p)
      BY DEF NodesInv
    <3>4. HeardOnce(m, p)'
      BY <1>1, <2>1, <3>2, <3>3 DEF HeardOnce, Comes, Is
    <3> QED
      BY <3>1, <3>4 DEF Agreed
  <2> QED
    BY <2>3, <2>4
<1>11. ASSUME NEW p \in Proc, NEW k \in Manager!Name
       PROVE  Stored(p, k)'
  BY <1>1, <1>2, Homes DEF NodesInv, Stored, Manager!HasNode
<1>12. ASSUME NEW a \in Nodes, NEW b \in Nodes
       PROVE  Noticed(a, b)'
  <2>1. node_pc[n] = "new" => n \notin heard[ProcOf[b]]
    BY Homes DEF NodesInv, HeardOnce, Unwritten
  <2>2. \A m \in Nodes : m # n => (node_pc'[m] = "new" <=> node_pc[m] = "new")
    BY <1>2, Homes
  <2>3. Manager!Namesakes(a)' = IF NameOf[n] = NameOf[a]
          THEN Manager!Namesakes(a) \cup {n}
                                                 ELSE Manager!Namesakes(a)
    BY <1>2, <2>2 DEF Manager!Namesakes
  <2>4. node_pc[n] # "new" /\ NameOf[n] = NameOf[a] =>
          n \in Manager!Namesakes(a)
    BY DEF Manager!Namesakes
  <2> SUFFICES ASSUME Manager!Namesakes(a)' = {a, b}, a # b,
                      stamp'[a] < stamp'[b],
                      {a, b} \subseteq heard[ProcOf[b]],
                      NameOf[a] \notin removed[ProcOf[b]]
               PROVE  NameOf[b] \in warned[ProcOf[b]]
    BY <1>1 DEF Noticed
  <2>5. node_pc[n] # "joined" => a # n /\ b # n
    BY <1>2, <2>1
  <2>6. stamp'[a] = stamp[a] /\ stamp'[b] = stamp[b]
          /\ Manager!Namesakes(a) = {a, b}
    BY <1>2, <2>3, <2>4, <2>5
  <2> QED
    BY <2>6 DEF NodesInv, Noticed
<1> QED
  BY <1>6, <1>7, <1>8, <1>9, <1>10, <1>11, <1>12 DEF NodesInv

(* A join has been disposed by thread t: its node is stored, or another    *)
(* one stays, and the process of the newer one may have been told.         *)
Disposes(t, c, p, k) ==
  /\ job[t] = c /\ Manager!Home(t) = p /\ NameOf[c.node] = k
  /\ node_pc[t] \in {"add", "compare"}
  /\ \A u \in Manager!Thread : node_pc'[u] = IF u = t THEN "write"
       ELSE node_pc[u]
  /\ node_pc' \in [Manager!Thread -> Manager!Locations]
  /\ job' = job /\ net' = net /\ removed' = removed /\ stamp' = stamp
  /\ gone' = gone /\ state' = state /\ faults' = faults
  /\ \A u \in Manager!Thread : existing'[u] = existing[u]
       \/ (u = t /\ existing'[u] = NULL)
  /\ existing' \in [Manager!Thread -> Manager!Roles \cup {NULL}]
  /\ \A q \in Proc : heard'[q] = IF q = p THEN heard[q] \cup {c.node}
       ELSE heard[q]
  /\ heard' \in [Proc -> SUBSET Nodes]
  /\ \A q \in Proc : \A i \in Manager!Name : q # p \/ i # k =>
       nodes'[q][i] = nodes[q][i]
  /\ \/ nodes'[p][k] = Manager!RoleOf(c)
     \/ nodes'[p][k] = nodes[p][k]
          /\ (k \notin removed[p] => Manager!HasNode(p, k))
  /\ nodes' \in [Proc -> [Manager!Name -> Manager!Roles \cup {NULL}]]
  /\ node_pc[t] = "add" =>
       nodes'[p][k] = Manager!RoleOf(c) /\ ~Manager!HasNode(p, k)
  /\ \A q \in Proc : warned[q] \subseteq warned'[q]
  /\ warned' \in [Proc -> SUBSET Manager!Name]
  /\ node_pc[t] = "compare" /\ existing[t] # NULL =>
       IF c.stamp < existing[t].stamp
       THEN ProcOf[existing[t].node] = p => k \in warned'[p]
       ELSE ProcOf[c.node] = p => k \in warned'[p]

(* Only the own thread of a node and the Fast-RTPS threads of the other    *)
(* processes dispose its join.                                             *)
LEMMA WhoDisposes ==
  ASSUME NodesInv, NEW t \in Manager!Thread, job[t] # NULL
  PROVE  /\ job[t] \in Manager!Changes /\ job[t].node \in Nodes
         /\ node_pc[job[t].node] # "new"
         /\ IF Manager!Home(t) = ProcOf[job[t].node] THEN t = job[t].node
            ELSE t = Manager!Home(t) /\ t \in Proc
<1>1. job[t] \in Manager!Changes /\ IsOf(job[t]) /\ Busy(t)
        /\ job[t].node \in Nodes
  BY NotNone DEF NodesInv, Manager!TypeOK, Known
<1> QED
  BY <1>1, Homes DEF Busy, IsOf

LEMMA DisposesInv ==
  ASSUME NodesInv, NEW t \in Manager!Thread, NEW c \in Manager!Changes,
         NEW p \in Proc, NEW k \in Manager!Name,
         Disposes(t, c, p, k)
  PROVE  NodesInv'
<1>1. /\ job[t] = c /\ Manager!Home(t) = p /\ NameOf[c.node] = k
      /\ node_pc[t] \in {"add", "compare"}
      /\ \A u \in Manager!Thread : node_pc'[u] = IF u = t THEN "write"
           ELSE node_pc[u]
      /\ node_pc' \in [Manager!Thread -> Manager!Locations]
      /\ job' = job /\ net' = net /\ removed' = removed /\ stamp' = stamp
      /\ gone' = gone /\ state' = state /\ faults' = faults
  BY DEF Disposes
<1>2. /\ \A u \in Manager!Thread : existing'[u] = existing[u]
           \/ (u = t /\ existing'[u] = NULL)
      /\ existing' \in [Manager!Thread -> Manager!Roles \cup {NULL}]
  BY DEF Disposes
<1>3. /\ \A q \in Proc : heard'[q] = IF q = p THEN heard[q] \cup {c.node}
           ELSE heard[q]
      /\ heard' \in [Proc -> SUBSET Nodes]
  BY DEF Disposes
<1>4. /\ \A q \in Proc : \A i \in Manager!Name : q # p \/ i # k =>
           nodes'[q][i] = nodes[q][i]
      /\ \/ nodes'[p][k] = Manager!RoleOf(c)
         \/ nodes'[p][k] = nodes[p][k]
              /\ (k \notin removed[p] => Manager!HasNode(p, k))
      /\ nodes' \in [Proc -> [Manager!Name -> Manager!Roles \cup {NULL}]]
      /\ node_pc[t] = "add" =>
           nodes'[p][k] = Manager!RoleOf(c) /\ ~Manager!HasNode(p, k)
  BY DEF Disposes
<1>5. /\ \A q \in Proc : warned[q] \subseteq warned'[q]
      /\ warned' \in [Proc -> SUBSET Manager!Name]
  BY DEF Disposes
<1>6. /\ c # NULL /\ c.node \in Nodes /\ Manager!RoleOf(c) \in Manager!Roles
      /\ Manager!RoleOf(c) # NULL
      /\ Manager!RoleOf(c).node = c.node /\ Manager!RoleOf(c).stamp = c.stamp
  BY NotNone
<1>7. /\ c.op = "join" /\ IsOf(c) /\ node_pc[c.node] # "new"
      /\ IF p = ProcOf[c.node] THEN t = c.node ELSE t = p
      /\ c.node \notin heard[p]
  <2>1. /\ c.op = "join" /\ IsOf(c) /\ node_pc[c.node] # "new"
        /\ IF p = ProcOf[c.node] THEN t = c.node ELSE t = p
    BY <1>1, <1>6, WhoDisposes DEF NodesInv, Busy, Known
  <2>2. Disposing(t, c.node)
    BY <1>1, <1>6, <2>1 DEF Disposing
  <2> QED
    BY <1>6, <2>1, <2>2 DEF NodesInv, HeardOnce
<1>8. Grows
  BY <1>1, <1>3, Homes DEF Grows
<1>9. Manager!TypeOK'
  <2>1. \A q \in Proc : \A i \in Manager!Name : Manager!HasNode(q, i)' =>
          NameOf[nodes'[q][i].node] = i
    <3>1. \A q \in Proc : \A i \in Manager!Name :
            nodes[q][i] # NULL => NameOf[nodes[q][i].node] = i
      BY DEF NodesInv, Manager!TypeOK, Manager!HasNode
    <3>2. nodes'[p][k] # NULL => NameOf[nodes'[p][k].node] = k
      <4>1. CASE nodes'[p][k] = Manager!RoleOf(c)
        BY <1>1, <1>6, <4>1
      <4>2. CASE nodes'[p][k] = nodes[p][k]
        BY <3>1, <4>2
      <4> QED
        BY <1>4, <4>1, <4>2
    <3> QED
      BY <1>4, <3>1, <3>2 DEF Manager!HasNode
  <2> QED
    BY <1>1, <1>2, <1>3, <1>4, <1>5, <2>1
       DEF NodesInv, Manager!TypeOK, Manager!HasNode
<1>10. Known' /\ Faultless'
  <2>1. node_pc'[c.node] # "new" /\ c.stamp = stamp'[c.node]
    BY <1>6, <1>7, <1>8 DEF Grows, IsOf
  <2>2. nodes'[p][k] = nodes[p][k] \/ IsOf(nodes[p][k])'
    BY <1>4, <1>6, <2>1 DEF IsOf
  <2>3. \A q \in Proc : \A i \in Manager!Name :
          nodes'[q][i] = nodes[q][i] \/ nodes'[q][i] = NULL
            \/ IsOf(nodes[q][i])'
    BY <1>4, <2>2
  <2>4. Known'
    BY <1>1, <1>2, <1>8, <2>3, KnownKept
  <2> QED
    BY <1>1, <2>4 DEF NodesInv, Faultless
<1>11. \A u \in Manager!Thread : Busy(u)'
  BY <1>1, <1>2, <1>6, <1>7, Homes DEF NodesInv, Busy
<1>12. ASSUME NEW n \in Nodes
       PROVE  Own(n)'
  <2>1. Sole(n)' => Sole(n)
    BY <1>8, SoleBefore
  <2>2. CASE n = t
    <3>1. p = ProcOf[n] /\ c.node = n /\ k = NameOf[n]
      BY <1>1, <1>7, <2>2, Homes
    <3>2. Sole(n) => node_pc[t] = "add"
      BY <1>1, <2>2 DEF NodesInv, Own
    <3> QED
      BY <1>1, <1>4, <1>6, <1>7, <2>1, <2>2, <3>1, <3>2, Homes
         DEF Own, Manager!HasNode
  <2>3. CASE n # t
    <3>1. Sole(n) => p # ProcOf[n] \/ k # NameOf[n]
      BY <1>1, <1>6, <1>7, <2>3, Only
    <3> QED
      BY <1>1, <1>4, <2>1, <2>3, <3>1, Homes DEF NodesInv, Own, Manager!HasNode
  <2> QED
    BY <2>2, <2>3
<1>13. ASSUME NEW n \in Nodes, NEW q \in Proc
       PROVE  HeardOnce(n, q)' /\ Agreed(n, q)'
  <2>1. /\ Unwritten(n)' <=> Unwritten(n)
        /\ Expelling(q, n)' <=> Expelling(q, n)
        /\ node_pc'[n] = "new" <=> node_pc[n] = "new"
        /\ node_pc'[n] = "gone" <=> node_pc[n] = "gone"
    BY <1>1, <1>6, <1>7, Homes DEF Unwritten, Disposing, Expelling
  <2>2. \A op : Comes(ProcOf[n], q, op, n)' <=> Comes(ProcOf[n], q, op, n)
    BY <1>1 DEF Comes, Is
  <2>3. \A u \in Manager!Thread : Disposing(u, n)' <=> Disposing(u, n) /\ u # t
    BY <1>1 DEF Disposing
  <2>4. Disposing(t, c.node)
    BY <1>1, <1>6, <1>7 DEF Disposing
  <2>5. HeardOnce(n, q) /\ Agreed(n, q)
    BY DEF NodesInv
  <2>6. CASE n = c.node /\ q = p
    <3>1. CASE q = ProcOf[n]
      BY <1>7, <2>1, <2>3, <2>6, <3>1, Homes DEF HeardOnce, Agreed
    <3>2. CASE q # ProcOf[n]
      <4>1. t = q /\ Disposing(q, n) /\ ~Disposing(q, n)' /\ n \in heard'[q]
        BY <1>3, <1>7, <2>3, <2>4, <2>6, <3>2, Homes
      <4>2. HeardOnce(n, q)'
        <5>1. ~Unwritten(n) /\ ~Comes(ProcOf[n], q, "join", n)
          BY <2>5, <3>2, <4>1 DEF HeardOnce
        <5> QED
          BY <1>1, <2>1, <2>2, <2>5, <3>2, <4>1, <5>1 DEF HeardOnce, Is
      <4>3. Agreed(n, q)'
        <5>1. Sole(n)' => Sole(n)
          BY <1>8, SoleBefore
        <5> QED
          BY <1>1, <2>1, <2>2, <2>5, <3>2, <4>1, <5>1 DEF Agreed, Is
      <4> QED
        BY <4>2, <4>3
    <3> QED
      BY <3>1, <3>2
  <2>7. CASE n # c.node \/ q # p
    <3>1. n \in heard'[q] <=> n \in heard[q]
      BY <1>3, <2>7
    <3>2. Disposing(q, n)' <=> Disposing(q, n)
      BY <1>1, <1>6, <2>3, <2>7, Homes DEF Disposing
    <3>3. Disposing(n, n)' => Disposing(n, n)
      BY <2>3, Homes
    <3>4. HeardOnce(n, q)'
      BY <1>1, <2>1, <2>2, <2>5, <3>1, <3>2, <3>3 DEF HeardOnce, Is
    <3>5. Agreed(n, q)'
      <4>1. Sole(n)' => Sole(n)
        BY <1>8, SoleBefore
      <4>2. Sole(n) /\ q # ProcOf[n] => q # p \/ NameOf[n] # k
        BY <1>6, <1>7, <2>7, Only, <1>1
      <4>3. Sole(n) /\ q # ProcOf[n] =>
              (Manager!HasNode(q, NameOf[n])' <=>
                Manager!HasNode(q, NameOf[n]))
        BY <1>4, <4>2, Homes DEF Manager!HasNode
      <4> QED
        BY <1>1, <2>1, <2>2, <2>5, <3>1, <3>2, <4>1, <4>3 DEF Agreed, Is
    <3> QED
      BY <3>4, <3>5
  <2> QED
    BY <2>6, <2>7
<1>14. ASSUME NEW q \in Proc, NEW i \in Manager!Name
       PROVE  Stored(q, i)'
  <2>1. Stored(q, i)
    BY DEF NodesInv
  <2>2. CASE q = p /\ i = k
    <3>1. Manager!HasNode(p, k)' => nodes'[p][k].node \in heard'[p]
      BY <1>3, <1>4, <1>6, <2>1, <2>2 DEF Stored, Manager!HasNode
    <3>2. k \notin removed[p] => Manager!HasNode(p, k)'
      BY <1>4, <1>6 DEF Manager!HasNode
    <3>3. ASSUME NEW u \in Manager!Thread, node_pc'[u] = "compare",
                 Manager!Home(u) = p,
                 NameOf[job[u].node] = k, k \notin removed[p]
          PROVE  existing'[u] # NULL /\ existing'[u].node \in heard'[p]
      BY <1>1, <1>2, <1>3, <2>1, <2>2, <3>3 DEF Stored
    <3> QED
      BY <1>1, <2>2, <3>1, <3>2, <3>3 DEF Stored
  <2>3. CASE q # p \/ i # k
    <3>1. nodes'[q][i] = nodes[q][i] /\ heard[q] \subseteq heard'[q]
      BY <1>3, <1>4, <2>3
    <3>2. \A n \in heard'[q] : NameOf[n] = i => n \in heard[q]
      BY <1>1, <1>3, <2>3
    <3>3. ASSUME NEW u \in Manager!Thread,
                 node_pc'[u] \in {"search", "compare"}, Manager!Home(u) = q,
                 NameOf[job[u].node] = i, i \notin removed[q]
          PROVE  /\ Manager!HasNode(q, i)
                 /\ node_pc'[u] = "compare" =>
                      existing'[u] # NULL /\ existing'[u].node \in heard'[q]
      BY <1>1, <1>2, <2>1, <3>1, <3>3 DEF Stored
    <3> QED
      BY <1>1, <2>1, <3>1, <3>2, <3>3 DEF Stored, Manager!HasNode
  <2> QED
    BY <2>2, <2>3
<1>15. ASSUME NEW a \in Nodes, NEW b \in Nodes
       PROVE  Noticed(a, b)'
  <2>1. Manager!Namesakes(a)' = Manager!Namesakes(a)
    BY <1>1, <1>6, <1>7, Homes DEF Manager!Namesakes, NodesInv, Busy
  <2> SUFFICES ASSUME Manager!Namesakes(a) = {a, b}, a # b,
                      stamp[a] < stamp[b],
                      {a, b} \subseteq heard'[ProcOf[b]],
                      NameOf[a] \notin removed[ProcOf[b]]
               PROVE  NameOf[b] \in warned'[ProcOf[b]]
    BY <1>1, <2>1 DEF Noticed
  <2>2. CASE {a, b} \subseteq heard[ProcOf[b]]
    BY <1>5, <2>2, Homes DEF NodesInv, Noticed
  <2>3. CASE ~({a, b} \subseteq heard[ProcOf[b]])
    <3>1. ProcOf[b] = p /\ c.node \in {a, b}
      BY <1>3, <2>3, Homes
    <3>2. NameOf[a] = NameOf[b] /\ k = NameOf[b]
      BY <1>1, <3>1 DEF Manager!Namesakes
    <3>3. PICK x \in {a, b} : x # c.node /\ x \in heard[p]
      BY <1>3, <3>1
    <3>4. Manager!HasNode(p, k)
      BY <3>1, <3>2, <3>3 DEF NodesInv, Stored
    <3>5. node_pc[t] = "compare" /\ existing[t] # NULL
            /\ existing[t].node \in heard[p]
      BY <1>1, <1>4, <3>1, <3>2, <3>4 DEF NodesInv, Stored
    <3>6. /\ existing[t].node \in Nodes /\ NameOf[existing[t].node] = k
          /\ IsOf(existing[t])
      BY <1>1, <3>5, NotNone DEF NodesInv, Manager!TypeOK, Busy, Known
    <3>7. existing[t].node \in Manager!Namesakes(a)
      BY <3>2, <3>6 DEF Manager!Namesakes, IsOf
    <3>8. existing[t].node = x
      BY <1>7, <3>1, <3>3, <3>5, <3>7
    <3>9. c.stamp = stamp[c.node] /\ existing[t].stamp = stamp[x]
      BY <1>7, <3>6, <3>8 DEF IsOf
    <3>10. stamp[a] \in Int /\ stamp[b] \in Int
      BY NodeConstants DEF NodesInv, Manager!TypeOK, Manager!NodeAssumption
    <3>11. IF c.stamp < existing[t].stamp
           THEN ProcOf[existing[t].node] = p => k \in warned'[p]
           ELSE ProcOf[c.node] = p => k \in warned'[p]
      BY <3>5 DEF Disposes
    <3>12. CASE c.node = a
      BY <3>1, <3>2, <3>3, <3>8, <3>9, <3>11, <3>12
    <3>13. CASE c.node = b
      <4>1. x = a /\ ~(c.stamp < existing[t].stamp)
        BY <3>3, <3>9, <3>10, <3>13
      <4> QED
        BY <3>1, <3>2, <3>11, <3>13, <4>1
    <3> QED
      BY <3>1, <3>12, <3>13
  <2> QED
    BY <2>2, <2>3
<1> QED
  BY <1>9, <1>10, <1>11, <1>12, <1>13, <1>14, <1>15 DEF NodesInv

LEMMA AddNodeInv ==
  ASSUME NodesInv, NEW t \in Manager!Thread, Manager!AddNode(t)
  PROVE  NodesInv'
<1> DEFINE c == job[t]
           p == Manager!Home(t)
           k == NameOf[c.node]
<1>1. /\ c \in Manager!Changes /\ c.node \in Nodes /\ k \in Manager!Name
      /\ p \in Proc
      /\ Manager!RoleOf(c) \in Manager!Roles /\ node_pc[t] = "add"
  BY Homes, NotNone DEF NodesInv, Manager!TypeOK, Busy, Manager!AddNode
<1>2. CASE Manager!HasNode(p, k)
  BY <1>2, NameTaken DEF Manager!Key
<1>3. CASE ~Manager!HasNode(p, k)
  <2>1. /\ nodes' = [nodes EXCEPT ![p][k] = Manager!RoleOf(c)]
        /\ node_pc' = [node_pc EXCEPT ![t] = "write"]
        /\ heard' = [heard EXCEPT ![p] = @ \cup {c.node}]
        /\ job' = job /\ existing' = existing /\ net' = net
        /\ removed' = removed
        /\ stamp' = stamp /\ gone' = gone /\ state' = state /\ faults' = faults
        /\ warned' = warned
    BY <1>3
       DEF Manager!AddNode, Manager!Disposed, Manager!Store, Manager!Goto,
           Manager!Key, Manager!procVars
  <2>2. /\ nodes' \in [Proc -> [Manager!Name -> Manager!Roles \cup {NULL}]]
        /\ nodes'[p][k] = Manager!RoleOf(c)
        /\ \A q \in Proc : \A i \in Manager!Name : q # p \/ i # k =>
             nodes'[q][i] = nodes[q][i]
    BY <1>1, <2>1 DEF NodesInv, Manager!TypeOK
  <2>3. /\ heard' \in [Proc -> SUBSET Nodes]
        /\ \A q \in Proc : heard'[q] = IF q = p THEN heard[q] \cup {c.node}
             ELSE heard[q]
    BY <1>1, <2>1 DEF NodesInv, Manager!TypeOK
  <2>4. /\ node_pc' \in [Manager!Thread -> Manager!Locations]
        /\ \A u \in Manager!Thread : node_pc'[u] = IF u = t THEN "write"
             ELSE node_pc[u]
    BY <2>1 DEF NodesInv, Manager!TypeOK, Manager!Locations
  <2>5. /\ existing \in [Manager!Thread -> Manager!Roles \cup {NULL}]
        /\ warned \in [Proc -> SUBSET Manager!Name]
    BY DEF NodesInv, Manager!TypeOK
  <2>6. Disposes(t, c, p, k)
    BY <1>1, <1>3, <2>1, <2>2, <2>3, <2>4, <2>5 DEF Disposes
  <2> HIDE DEF c, p, k
  <2> QED
    BY <1>1, <2>6, DisposesInv
<1> QED
  BY <1>2, <1>3

LEMMA CompareNodesInv ==
  ASSUME NodesInv, NEW t \in Manager!Thread, Manager!CompareNodes(t)
  PROVE  NodesInv'
<1> DEFINE c == job[t]
           e == existing[t]
           p == Manager!Home(t)
           k == NameOf[c.node]
           replace == e = NULL \/ c.stamp < e.stamp
           newer == IF replace THEN e ELSE Manager!RoleOf(c)
<1>1. /\ c \in Manager!Changes /\ c.node \in Nodes /\ k \in Manager!Name
      /\ p \in Proc /\ c # NULL
      /\ Manager!RoleOf(c) \in Manager!Roles /\ Manager!RoleOf(c) # NULL
      /\ Manager!RoleOf(c).node = c.node
      /\ Manager!RoleOf(c).stamp = c.stamp /\ node_pc[t] = "compare"
  BY Homes, NotNone DEF NodesInv, Manager!TypeOK, Busy, Manager!CompareNodes
<1>2. /\ IF replace THEN nodes' = [nodes EXCEPT ![p][k] = Manager!RoleOf(c)]
           ELSE nodes' = nodes
      /\ warned' = [warned EXCEPT ![p] =
           IF newer # NULL /\ ProcOf[newer.node] = p THEN @ \cup {k} ELSE @]
  BY <1>1
     DEF Manager!CompareNodes, Manager!Store, Manager!Key,
         Manager!IsEarlierThan
<1>3. /\ existing' = [existing EXCEPT ![t] = NULL]
      /\ node_pc' = [node_pc EXCEPT ![t] = "write"]
      /\ heard' = [heard EXCEPT ![p] = @ \cup {c.node}]
      /\ job' = job /\ net' = net /\ removed' = removed
      /\ stamp' = stamp /\ gone' = gone /\ state' = state /\ faults' = faults
  BY DEF Manager!CompareNodes, Manager!Disposed, Manager!Goto, Manager!Key,
     Manager!procVars
<1>4. replace => /\ nodes' \in [Proc -> [Manager!Name -> Manager!Roles
                      \cup {NULL}]]
                 /\ nodes'[p][k] = Manager!RoleOf(c)
                 /\ \A q \in Proc : \A i \in Manager!Name :
                      q # p \/ i # k => nodes'[q][i] = nodes[q][i]
  <2>1. nodes \in [Proc -> [Manager!Name -> Manager!Roles \cup {NULL}]]
    BY DEF NodesInv, Manager!TypeOK
  <2>2. replace => nodes' = [nodes EXCEPT ![p][k] = Manager!RoleOf(c)]
    BY <1>2
  <2>3. p \in Proc /\ k \in Manager!Name /\ Manager!RoleOf(c) \in Manager!Roles
    BY <1>1
  <2> HIDE DEF c, e, p, k, replace, newer
  <2> QED
    BY <2>1, <2>2, <2>3
<1>5. ~replace => /\ nodes' = nodes
                  /\ nodes \in [Proc -> [Manager!Name -> Manager!Roles
                       \cup {NULL}]]
                  /\ k \notin removed[p] => Manager!HasNode(p, k)
  BY <1>1, <1>2 DEF NodesInv, Manager!TypeOK, Stored
<1>6. /\ heard' \in [Proc -> SUBSET Nodes]
      /\ \A q \in Proc : heard'[q] = IF q = p THEN heard[q] \cup {c.node}
           ELSE heard[q]
  BY <1>1, <1>3 DEF NodesInv, Manager!TypeOK
<1>7. /\ node_pc' \in [Manager!Thread -> Manager!Locations]
      /\ \A u \in Manager!Thread : node_pc'[u] = IF u = t THEN "write"
           ELSE node_pc[u]
  BY <1>3 DEF NodesInv, Manager!TypeOK, Manager!Locations
<1>8. /\ existing' \in [Manager!Thread -> Manager!Roles \cup {NULL}]
      /\ \A u \in Manager!Thread : existing'[u] = existing[u]
           \/ (u = t /\ existing'[u] = NULL)
  BY <1>3 DEF NodesInv, Manager!TypeOK
<1>9. /\ warned' \in [Proc -> SUBSET Manager!Name]
      /\ \A q \in Proc : warned[q] \subseteq warned'[q]
      /\ newer # NULL /\ ProcOf[newer.node] = p => k \in warned'[p]
  <2> HIDE DEF newer
  <2> QED
    BY <1>1, <1>2 DEF NodesInv, Manager!TypeOK
<1>10. e # NULL => IF c.stamp < e.stamp
                   THEN ProcOf[e.node] = p => k \in warned'[p]
                   ELSE ProcOf[c.node] = p => k \in warned'[p]
  BY <1>1, <1>9
<1>11. Disposes(t, c, p, k)
  <2> HIDE DEF replace, newer
  <2> QED
    BY <1>1, <1>3, <1>4, <1>5, <1>6, <1>7, <1>8, <1>9, <1>10 DEF Disposes
<1> HIDE DEF c, p, k
<1> QED
  BY <1>1, <1>11, DisposesInv

(* A name is removed, by the leave of its node or of the process of its    *)
(* node.                                                                   *)
Removes(t, loc, p, k) ==
  /\ Manager!Home(t) = p
  /\ \/ node_pc[t] = "remove" /\ loc = "write" /\ k = NameOf[job[t].node]
     \/ node_pc[t] = "expel" /\ loc = "idle" /\ k = NameOf[existing[t].node]
  /\ \A u \in Manager!Thread : node_pc'[u] = IF u = t THEN loc ELSE node_pc[u]
  /\ node_pc' \in [Manager!Thread -> Manager!Locations]
  /\ job' = job /\ net' = net /\ heard' = heard /\ stamp' = stamp
  /\ gone' = gone /\ state' = state /\ faults' = faults /\ warned' = warned
  /\ \A u \in Manager!Thread : existing'[u] = existing[u]
       \/ (u = t /\ existing'[u] = NULL)
  /\ existing' \in [Manager!Thread -> Manager!Roles \cup {NULL}]
  /\ \A q \in Proc : \A i \in Manager!Name :
       nodes'[q][i] = IF q = p /\ i = k THEN NULL ELSE nodes[q][i]
  /\ nodes' \in [Proc -> [Manager!Name -> Manager!Roles \cup {NULL}]]
  /\ \A q \in Proc : removed'[q] = IF q = p THEN removed[q] \cup {k}
       ELSE removed[q]
  /\ removed' \in [Proc -> SUBSET Manager!Name]

LEMMA RemovesInv ==
  ASSUME NodesInv, NEW t \in Manager!Thread, NEW loc \in Manager!Locations,
         NEW p \in Proc,
         NEW k \in Manager!Name, Removes(t, loc, p, k)
  PROVE  NodesInv'
<1>1. /\ Manager!Home(t) = p
      /\ \/ node_pc[t] = "remove" /\ loc = "write" /\ k = NameOf[job[t].node]
         \/ node_pc[t] = "expel" /\ loc = "idle"
              /\ k = NameOf[existing[t].node]
      /\ \A u \in Manager!Thread : node_pc'[u] = IF u = t THEN loc
           ELSE node_pc[u]
      /\ node_pc' \in [Manager!Thread -> Manager!Locations]
      /\ job' = job /\ net' = net /\ heard' = heard /\ stamp' = stamp
      /\ gone' = gone /\ state' = state /\ faults' = faults /\ warned' = warned
  BY DEF Removes
<1>2. /\ \A u \in Manager!Thread : existing'[u] = existing[u]
           \/ (u = t /\ existing'[u] = NULL)
      /\ existing' \in [Manager!Thread -> Manager!Roles \cup {NULL}]
  BY DEF Removes
<1>3. /\ \A q \in Proc : \A i \in Manager!Name :
           nodes'[q][i] = IF q = p /\ i = k THEN NULL ELSE nodes[q][i]
      /\ nodes' \in [Proc -> [Manager!Name -> Manager!Roles \cup {NULL}]]
      /\ \A q \in Proc : removed'[q] = IF q = p THEN removed[q] \cup {k}
           ELSE removed[q]
      /\ removed' \in [Proc -> SUBSET Manager!Name]
  BY DEF Removes
<1>4. Grows
  BY <1>1, <1>3, Homes DEF Grows
<1>5. Manager!TypeOK'
  <2>1. \A q \in Proc : \A i \in Manager!Name : Manager!HasNode(q, i)' =>
          NameOf[nodes'[q][i].node] = i
    BY <1>3 DEF NodesInv, Manager!TypeOK, Manager!HasNode
  <2> QED
    BY <1>1, <1>2, <1>3, <2>1 DEF NodesInv, Manager!TypeOK
<1>6. Known' /\ Faultless'
  <2>1. \A q \in Proc : \A i \in Manager!Name :
          nodes'[q][i] = nodes[q][i] \/ nodes'[q][i] = NULL
    BY <1>3
  <2> QED
    BY <1>1, <1>2, <1>4, <2>1, KnownKept DEF NodesInv, Faultless
<1>7. \A u \in Manager!Thread : Busy(u)'
  BY <1>1, <1>2, Homes DEF NodesInv, Busy
<1>8. node_pc[t] = "remove" => /\ job[t] # NULL /\ job[t].op = "leave"
                               /\ job[t].node \in Nodes
                          /\ node_pc[job[t].node] # "new"
                          /\ IF p = ProcOf[job[t].node] THEN t = job[t].node
                               ELSE t = p
  BY <1>1, WhoDisposes DEF NodesInv, Busy
<1>9. node_pc[t] = "expel" => /\ t = p /\ faults # 0
                              /\ existing[t].node \in Nodes
                         /\ node_pc[existing[t].node] # "new"
                         /\ ProcOf[existing[t].node] # p
  BY <1>1, Homes, NotNone DEF NodesInv, Manager!TypeOK, Busy, Known, IsOf
<1>10. ASSUME NEW n \in Nodes
       PROVE  Own(n)'
  <2>1. Sole(n)' => Sole(n)
    BY <1>4, SoleBefore
  <2>2. CASE n = t
    <3>1. node_pc[t] = "remove" /\ job[t].node = t /\ p = ProcOf[n]
      BY <1>1, <1>8, <1>9, <2>2, Homes
    <3> QED
      BY <1>1, <1>3, <1>8, <2>2, <3>1, Homes DEF Own, Manager!HasNode
  <2>3. CASE n # t
    <3>1. Sole(n) => p # ProcOf[n] \/ k # NameOf[n]
      BY <1>1, <1>8, <1>9, <2>3, Only
    <3> QED
      BY <1>1, <1>3, <2>1, <2>3, <3>1, Homes DEF NodesInv, Own, Manager!HasNode
  <2> QED
    BY <2>2, <2>3
<1>11. ASSUME NEW n \in Nodes, NEW q \in Proc
       PROVE  HeardOnce(n, q)' /\ Agreed(n, q)'
  <2>1. /\ Unwritten(n)' <=> Unwritten(n)
        /\ node_pc'[n] = "new" <=> node_pc[n] = "new"
        /\ node_pc'[n] = "gone" <=> node_pc[n] = "gone"
    BY <1>1, <1>8, <1>9, Homes DEF Unwritten, Disposing
  <2>2. \A u \in Manager!Thread : Disposing(u, n)' <=> Disposing(u, n)
    BY <1>1 DEF Disposing
  <2>3. \A op : Comes(ProcOf[n], q, op, n)' <=> Comes(ProcOf[n], q, op, n)
    BY <1>1 DEF Comes, Is
  <2>4. HeardOnce(n, q) /\ Agreed(n, q)
    BY DEF NodesInv
  <2>5. HeardOnce(n, q)'
    BY <1>1, <2>1, <2>2, <2>3, <2>4, Homes DEF HeardOnce, Is
  <2>6. Agreed(n, q)'
    <3> SUFFICES ASSUME faults = 0, Sole(n), q # ProcOf[n]
                 PROVE  Agreed(n, q)'
      <4>1. Sole(n)' => Sole(n)
        BY <1>4, SoleBefore
      <4> QED
        BY <1>1, <4>1 DEF Agreed
    <3>1. node_pc[t] = "remove"
      BY <1>1, <1>9
    <3>2. CASE t = q /\ job[t].node = n
      <4>1. /\ Expelling(q, n) /\ ~Expelling(q, n)' /\ ~Disposing(q, n)
            /\ NameOf[n] = k /\ q = p
        BY <1>1, <1>8, <3>1, <3>2, Homes DEF Expelling, Disposing
      <4>2. k \in removed'[q] /\ ~Manager!HasNode(q, k)'
        BY <1>3, <4>1 DEF Manager!HasNode
      <4> QED
        BY <1>1, <2>1, <2>2, <2>3, <2>4, <4>1, <4>2, Homes DEF Agreed, Is
    <3>3. CASE t # q \/ job[t].node # n
      <4>1. q # p \/ k # NameOf[n]
        BY <1>1, <1>8, <3>1, <3>3, Only
      <4>2. /\ Manager!HasNode(q, NameOf[n])' <=> Manager!HasNode(q, NameOf[n])
            /\ NameOf[n] \in removed'[q] <=> NameOf[n] \in removed[q]
        BY <1>3, <4>1, Homes DEF Manager!HasNode
      <4>3. Expelling(q, n)' <=> Expelling(q, n)
        BY <1>1, <3>1, <3>3, Homes DEF Expelling
      <4> QED
        BY <1>1, <2>1, <2>2, <2>3, <2>4, <4>2, <4>3, Homes DEF Agreed, Is
    <3> QED
      BY <3>2, <3>3
  <2> QED
    BY <2>5, <2>6
<1>12. ASSUME NEW q \in Proc, NEW i \in Manager!Name
       PROVE  Stored(q, i)'
  <2>1. Stored(q, i)
    BY DEF NodesInv
  <2>2. CASE q = p /\ i = k
    <3>1. nodes'[q][i] = NULL /\ i \in removed'[q]
      BY <1>3, <2>2
    <3> QED
      BY <3>1 DEF Stored, Manager!HasNode
  <2>3. CASE q # p \/ i # k
    <3>1. nodes'[q][i] = nodes[q][i]
            /\ (i \in removed'[q] <=> i \in removed[q])
      BY <1>3, <2>3
    <3>2. ASSUME NEW u \in Manager!Thread,
                 node_pc'[u] \in {"search", "compare"}
          PROVE  node_pc[u] = node_pc'[u] /\ existing'[u] = existing[u]
      BY <1>1, <1>2, <3>2
    <3> QED
      BY <1>1, <2>1, <3>1, <3>2 DEF Stored, Manager!HasNode
  <2> QED
    BY <2>2, <2>3
<1>13. ASSUME NEW a \in Nodes, NEW b \in Nodes
       PROVE  Noticed(a, b)'
  <2>1. Manager!Namesakes(a)' = Manager!Namesakes(a)
    BY <1>1, <1>8, <1>9, Homes DEF Manager!Namesakes
  <2>2. /\ Noticed(a, b) /\ ProcOf[b] \in Proc
        /\ removed[ProcOf[b]] \subseteq removed'[ProcOf[b]]
    BY <1>4, Homes DEF NodesInv, Grows
  <2> QED
    BY <1>1, <2>1, <2>2 DEF Noticed
<1> QED
  BY <1>5, <1>6, <1>7, <1>10, <1>11, <1>12, <1>13 DEF NodesInv

LEMMA DisposeLeaveInv ==
  ASSUME NodesInv, NEW t \in Manager!Thread, Manager!DisposeLeave(t)
  PROVE  NodesInv'
<1> DEFINE p == Manager!Home(t)
           k == NameOf[job[t].node]
<1>1. p \in Proc /\ k \in Manager!Name /\ node_pc[t] = "remove"
        /\ "write" \in Manager!Locations
  BY Homes, NotNone
     DEF NodesInv, Manager!TypeOK, Busy, Manager!DisposeLeave,
         Manager!Locations
<1>2. /\ nodes' = [nodes EXCEPT ![p][k] = NULL]
      /\ removed' = [removed EXCEPT ![p] = @ \cup {k}]
      /\ node_pc' = [node_pc EXCEPT ![t] = "write"]
      /\ job' = job /\ existing' = existing /\ net' = net /\ heard' = heard
      /\ stamp' = stamp /\ gone' = gone /\ state' = state /\ faults' = faults
      /\ warned' = warned
  BY DEF Manager!DisposeLeave, Manager!Remove, Manager!Store, Manager!Goto,
     Manager!Key, Manager!procVars
<1>3. /\ nodes \in [Proc -> [Manager!Name -> Manager!Roles \cup {NULL}]]
      /\ removed \in [Proc -> SUBSET Manager!Name]
      /\ node_pc \in [Manager!Thread -> Manager!Locations]
      /\ existing \in [Manager!Thread -> Manager!Roles \cup {NULL}]
  BY DEF NodesInv, Manager!TypeOK
<1>4. Removes(t, "write", p, k)
  <2>1. Manager!Home(t) = p /\ k = NameOf[job[t].node]
    OBVIOUS
  <2> HIDE DEF p, k
  <2>2. /\ \A q \in Proc : \A i \in Manager!Name :
             nodes'[q][i] = IF q = p /\ i = k THEN NULL ELSE nodes[q][i]
        /\ nodes' \in [Proc -> [Manager!Name -> Manager!Roles \cup {NULL}]]
    BY <1>1, <1>2, <1>3
  <2>3. /\ \A q \in Proc : removed'[q] = IF q = p THEN removed[q] \cup {k}
             ELSE removed[q]
        /\ removed' \in [Proc -> SUBSET Manager!Name]
    BY <1>1, <1>2, <1>3
  <2>4. /\ \A u \in Manager!Thread : node_pc'[u] = IF u = t THEN "write"
             ELSE node_pc[u]
        /\ node_pc' \in [Manager!Thread -> Manager!Locations]
    BY <1>1, <1>2, <1>3
  <2> QED
    BY <1>1, <1>2, <1>3, <2>1, <2>2, <2>3, <2>4 DEF Removes
<1> HIDE DEF p, k
<1> QED
  BY <1>1, <1>4, RemovesInv

LEMMA RemoveFoundInv ==
  ASSUME NodesInv, NEW p \in Proc, Manager!RemoveFound(p)
  PROVE  NodesInv'
<1> DEFINE k == NameOf[existing[p].node]
<1>1. /\ p \in Manager!Thread /\ Manager!Home(p) = p /\ k \in Manager!Name
      /\ node_pc[p] = "expel"
      /\ "idle" \in Manager!Locations
  BY Homes, NotNone
     DEF NodesInv, Manager!TypeOK, Busy, Manager!RemoveFound, Manager!Locations
<1>2. /\ nodes' = [nodes EXCEPT ![p][k] = NULL]
      /\ removed' = [removed EXCEPT ![p] = @ \cup {k}]
      /\ node_pc' = [node_pc EXCEPT ![p] = "idle"]
      /\ existing' = [existing EXCEPT ![p] = NULL]
      /\ job' = job /\ net' = net /\ heard' = heard
      /\ stamp' = stamp /\ gone' = gone /\ state' = state /\ faults' = faults
      /\ warned' = warned
  BY DEF Manager!RemoveFound, Manager!Remove, Manager!Store, Manager!Goto,
     Manager!procVars
<1>3. /\ nodes \in [Proc -> [Manager!Name -> Manager!Roles \cup {NULL}]]
      /\ removed \in [Proc -> SUBSET Manager!Name]
      /\ node_pc \in [Manager!Thread -> Manager!Locations]
      /\ existing \in [Manager!Thread -> Manager!Roles \cup {NULL}]
  BY DEF NodesInv, Manager!TypeOK
<1>4. Removes(p, "idle", p, k)
  <2>1. k = NameOf[existing[p].node]
    OBVIOUS
  <2> HIDE DEF k
  <2>2. /\ \A q \in Proc : \A i \in Manager!Name :
             nodes'[q][i] = IF q = p /\ i = k THEN NULL ELSE nodes[q][i]
        /\ nodes' \in [Proc -> [Manager!Name -> Manager!Roles \cup {NULL}]]
    BY <1>1, <1>2, <1>3
  <2>3. /\ \A q \in Proc : removed'[q] = IF q = p THEN removed[q] \cup {k}
             ELSE removed[q]
        /\ removed' \in [Proc -> SUBSET Manager!Name]
    BY <1>1, <1>2, <1>3
  <2>4. /\ \A u \in Manager!Thread : node_pc'[u] = IF u = p THEN "idle"
             ELSE node_pc[u]
        /\ node_pc' \in [Manager!Thread -> Manager!Locations]
    BY <1>1, <1>2, <1>3
  <2>5. /\ existing' \in [Manager!Thread -> Manager!Roles \cup {NULL}]
        /\ \A u \in Manager!Thread : existing'[u] = existing[u]
             \/ (u = p /\ existing'[u] = NULL)
    BY <1>1, <1>2, <1>3
  <2> QED
    BY <1>1, <1>2, <1>3, <2>1, <2>2, <2>3, <2>4, <2>5 DEF Removes
<1> HIDE DEF k
<1> QED
  BY <1>1, <1>4, RemovesInv

(* A process is told that another has exited, and finds one of its nodes   *)
(* or none.                                                                *)
LEMMA ParticipantLeftInv ==
  ASSUME NodesInv, NEW p \in Proc, NEW q \in Proc,
         Manager!ParticipantLeft(p, q)
  PROVE  NodesInv'
<1>1. /\ node_pc[p] = "idle" /\ state[p] = "on" /\ state[q] = "exited"
      /\ job' = job /\ nodes' = nodes /\ net' = net /\ heard' = heard
      /\ removed' = removed /\ stamp' = stamp /\ warned' = warned
      /\ state' = state
      /\ faults' = faults
  BY DEF Manager!ParticipantLeft, Manager!history
<1>2. faults # 0 /\ p # q
  BY <1>1 DEF NodesInv, Faultless
<1>3. gone' \in [Proc -> SUBSET Proc]
  BY DEF Manager!ParticipantLeft, NodesInv, Manager!TypeOK
<1>4. /\ \A u \in Manager!Thread : u # p =>
           node_pc'[u] = node_pc[u] /\ existing'[u] = existing[u]
      /\ node_pc' \in [Manager!Thread -> Manager!Locations]
      /\ existing' \in [Manager!Thread -> Manager!Roles \cup {NULL}]
      /\ \/ node_pc'[p] = "idle" /\ existing'[p] = existing[p]
         \/ node_pc'[p] = "expel" /\ existing'[p] \in Manager!Roles
              /\ existing'[p] # NULL
            /\ ProcOf[existing'[p].node] = q /\ IsOf(existing'[p])
  <2>1. node_pc \in [Manager!Thread -> Manager!Locations]
          /\ existing \in [Manager!Thread -> Manager!Roles \cup {NULL}]
    BY DEF NodesInv, Manager!TypeOK
  <2>2. CASE node_pc' = node_pc /\ existing' = existing
    BY <1>1, <2>1, <2>2
  <2>3. CASE \E k \in Manager!Name :
               /\ Manager!HasNode(p, k) /\ ProcOf[nodes[p][k].node] = q
               /\ existing' = [existing EXCEPT ![p] = nodes[p][k]]
               /\ node_pc' = [node_pc EXCEPT ![p] = "expel"]
    <3>1. PICK k \in Manager!Name :
               /\ Manager!HasNode(p, k) /\ ProcOf[nodes[p][k].node] = q
               /\ existing' = [existing EXCEPT ![p] = nodes[p][k]]
               /\ node_pc' = [node_pc EXCEPT ![p] = "expel"]
      BY <2>3
    <3>2. nodes[p][k] \in Manager!Roles /\ IsOf(nodes[p][k])
            /\ nodes[p][k] # NULL
      BY <3>1 DEF NodesInv, Manager!TypeOK, Known, Manager!HasNode
    <3> QED
      BY <2>1, <3>1, <3>2, Homes DEF Manager!Locations
  <2> QED
    BY <2>2, <2>3 DEF Manager!ParticipantLeft, Manager!Goto
<1>5. p \in Manager!Thread /\ p \notin Nodes
  BY Homes
<1>6. Grows
  BY <1>1, <1>4, Homes DEF Grows
<1>7. Manager!TypeOK'
  BY <1>1, <1>3, <1>4 DEF NodesInv, Manager!TypeOK, Manager!HasNode
<1>8. Known' /\ Faultless'
  <2>1. existing'[p] = existing[p] \/ IsOf(existing[p])'
    <3>1. existing'[p] \in Manager!Roles => existing'[p].node \in Nodes
      BY NotNone
    <3> QED
      BY <1>4, <1>6, <3>1 DEF IsOf, Grows
  <2> QED
    BY <1>1, <1>4, <1>6, <2>1, KnownKept DEF NodesInv, Faultless
<1>9. \A u \in Manager!Thread : Busy(u)'
  <2>1. ASSUME NEW u \in Manager!Thread, u # p
        PROVE  Busy(u)'
    BY <1>1, <1>4, <2>1 DEF NodesInv, Busy
  <2>2. Busy(p)'
    BY <1>1, <1>2, <1>4, <1>5 DEF NodesInv, Busy
  <2> QED
    BY <2>1, <2>2
<1>10. ASSUME NEW n \in Nodes
       PROVE  Own(n)'
  <2>1. node_pc'[n] = node_pc[n] /\ (Sole(n)' => Sole(n))
    BY <1>4, <1>6, SoleBefore, Homes
  <2> QED
    BY <1>1, <2>1 DEF NodesInv, Own, Manager!HasNode
<1>11. ASSUME NEW n \in Nodes, NEW r \in Proc
       PROVE  HeardOnce(n, r)' /\ Agreed(n, r)'
  <2>1. \A u \in Manager!Thread : (Disposing(u, n)' <=> Disposing(u, n))
                          /\ (Expelling(u, n)' <=> Expelling(u, n))
    BY <1>1, <1>4 DEF Disposing, Expelling
  <2>2. SamePath(n, r)
    BY <1>1, <1>4, <2>1, Homes DEF SamePath, Unwritten
  <2> QED
    BY <1>1, <1>6, <2>2, HeardKept, AgreedKept DEF NodesInv, Manager!HasNode
<1>12. ASSUME NEW r \in Proc, NEW k \in Manager!Name
       PROVE  Stored(r, k)'
  <2>1. \A u \in Manager!Thread : node_pc'[u] \in {"search", "compare"} =>
          node_pc'[u] = node_pc[u] /\ existing'[u] = existing[u]
    BY <1>4
  <2> QED
    BY <1>1, <2>1 DEF NodesInv, Stored, Manager!HasNode
<1>13. ASSUME NEW a \in Nodes, NEW b \in Nodes
       PROVE  Noticed(a, b)'
  <2>1. Manager!Namesakes(a)' = Manager!Namesakes(a)
    BY <1>4, Homes DEF Manager!Namesakes
  <2> QED
    BY <1>1, <2>1 DEF NodesInv, Noticed
<1> QED
  BY <1>7, <1>8, <1>9, <1>10, <1>11, <1>12, <1>13 DEF NodesInv

LEMMA HandlerReturnsInv ==
  ASSUME NodesInv, NEW p \in Proc, Manager!HandlerReturns(p)
  PROVE  NodesInv'
<1>1. /\ node_pc[p] = "write" /\ job[p] # NULL
      /\ existing' = existing /\ nodes' = nodes /\ net' = net /\ heard' = heard
      /\ removed' = removed /\ stamp' = stamp /\ warned' = warned
      /\ state' = state
      /\ faults' = faults /\ gone' = gone
      /\ \A u \in Manager!Thread : /\ node_pc'[u] = IF u = p THEN "idle"
                                        ELSE node_pc[u]
                           /\ job'[u] = IF u = p THEN NULL ELSE job[u]
      /\ node_pc' \in [Manager!Thread -> Manager!Locations]
      /\ job' \in [Manager!Thread -> Manager!Changes \cup {NULL}]
  BY Homes
     DEF Manager!HandlerReturns, Manager!Goto, NodesInv, Manager!TypeOK, Busy,
         Manager!procVars, Manager!history, Manager!Locations
<1>2. p \in Manager!Thread /\ p \notin Nodes
  BY Homes
<1>3. Grows
  BY <1>1, Homes DEF Grows
<1>4. Manager!TypeOK'
  BY <1>1 DEF NodesInv, Manager!TypeOK, Manager!HasNode
<1>5. Known' /\ Faultless'
  BY <1>1, <1>3, KnownKept DEF NodesInv, Faultless
<1>6. \A u \in Manager!Thread : Busy(u)'
  BY <1>1, <1>2 DEF NodesInv, Busy
<1>7. ASSUME NEW n \in Nodes
      PROVE  Own(n)'
  BY <1>1, <1>3, SoleBefore, Homes DEF NodesInv, Own, Manager!HasNode
<1>8. ASSUME NEW n \in Nodes, NEW r \in Proc
      PROVE  HeardOnce(n, r)' /\ Agreed(n, r)'
  <2>1. \A u \in Manager!Thread : (Disposing(u, n)' <=> Disposing(u, n))
                          /\ (Expelling(u, n)' <=> Expelling(u, n))
    BY <1>1 DEF Disposing, Expelling
  <2>2. SamePath(n, r)
    BY <1>1, <2>1, Homes DEF SamePath, Unwritten
  <2> QED
    BY <1>1, <1>3, <2>2, HeardKept, AgreedKept DEF NodesInv, Manager!HasNode
<1>9. ASSUME NEW r \in Proc, NEW k \in Manager!Name
      PROVE  Stored(r, k)'
  BY <1>1 DEF NodesInv, Stored, Manager!HasNode
<1>10. ASSUME NEW a \in Nodes, NEW b \in Nodes
       PROVE  Noticed(a, b)'
  <2>1. Manager!Namesakes(a)' = Manager!Namesakes(a)
    BY <1>1, Homes DEF Manager!Namesakes
  <2> QED
    BY <1>1, <2>1 DEF NodesInv, Noticed
<1> QED
  BY <1>4, <1>5, <1>6, <1>7, <1>8, <1>9, <1>10 DEF NodesInv

-----------------------------------------------------------------------------
(* A change is appended to what process p is to take from process q.       *)
LEMMA Appended ==
  ASSUME NodesInv, NEW q \in Proc, NEW p \in Proc, NEW c \in Manager!Changes,
         net'[q][p] = Append(net[q][p], c)
  PROVE  /\ net'[q][p] \in Seq(Manager!Changes) /\ Len(net[q][p]) \in Nat
         /\ Len(net'[q][p]) = Len(net[q][p]) + 1
         /\ \A i \in 1..Len(net[q][p]) : net'[q][p][i] = net[q][p][i]
         /\ net'[q][p][Len(net[q][p]) + 1] = c
BY DEF NodesInv, Manager!TypeOK

LEMMA WriteFacts ==
  ASSUME NodesInv, NEW n \in Nodes, Manager!Write(n)
  PROVE  /\ node_pc[n] = "write" /\ job[n] \in Manager!Changes
         /\ job[n].node = n
         /\ job[n].op \in {"join", "leave"} /\ IsOf(job[n])
         /\ existing' = existing /\ nodes' = nodes /\ heard' = heard
         /\ removed' = removed /\ stamp' = stamp /\ warned' = warned
         /\ state' = state /\ faults' = faults /\ gone' = gone
         /\ \A u \in Manager!Thread : u # n =>
              node_pc'[u] = node_pc[u] /\ job'[u] = job[u]
         /\ node_pc'[n] = (IF job[n].op = "join" THEN "joined" ELSE "gone")
         /\ job'[n] = NULL
         /\ node_pc' \in [Manager!Thread -> Manager!Locations]
         /\ job' \in [Manager!Thread -> Manager!Changes \cup {NULL}]
         /\ net' \in [Proc -> [Proc -> Seq(Manager!Changes)]]
         /\ \A q, p \in Proc :
              \/ net'[q][p] = net[q][p] /\ (q # ProcOf[n] \/ faults # 0)
              \/ q = ProcOf[n] /\ net'[q][p] = Append(net[q][p], job[n])
<1>1. /\ node_pc[n] = "write" /\ job[n] \in Manager!Changes /\ job[n].node = n
      /\ job[n].op \in {"join", "leave"} /\ IsOf(job[n])
  <2>1. node_pc[n] = "write" /\ job[n] # NULL /\ job[n].node = n
          /\ n \in Manager!Thread
    BY Homes DEF Manager!Write, NodesInv, Busy
  <2>2. job[n] \in Manager!Changes /\ IsOf(job[n])
    BY <2>1 DEF NodesInv, Manager!TypeOK, Known
  <2> QED
    BY <2>1, <2>2, NotNone
<1>2. /\ existing' = existing /\ nodes' = nodes /\ heard' = heard
      /\ removed' = removed /\ stamp' = stamp /\ warned' = warned
      /\ state' = state /\ faults' = faults /\ gone' = gone
      /\ node_pc'
           = [node_pc EXCEPT ![n] = IF job[n].op = "join" THEN "joined"
             ELSE "gone"]
      /\ job' = [job EXCEPT ![n] = NULL]
  BY DEF Manager!Write, Manager!Goto, Manager!procVars, Manager!history
<1>3. /\ \A u \in Manager!Thread : u # n =>
           node_pc'[u] = node_pc[u] /\ job'[u] = job[u]
      /\ node_pc'[n] = (IF job[n].op = "join" THEN "joined" ELSE "gone")
      /\ job'[n] = NULL
      /\ node_pc' \in [Manager!Thread -> Manager!Locations]
      /\ job' \in [Manager!Thread -> Manager!Changes \cup {NULL}]
  BY <1>2, Homes DEF NodesInv, Manager!TypeOK, Manager!Locations
<1>4. net \in [Proc -> [Proc -> Seq(Manager!Changes)]] /\ ProcOf[n] \in Proc
  BY Homes DEF NodesInv, Manager!TypeOK
<1>5. faults = 0 => \A p \in Proc : state[p] = "on"
  BY DEF NodesInv, Faultless
<1>6. CASE Manager!Writes(ProcOf[n], job[n])
  <2>1. net' = [net EXCEPT ![ProcOf[n]] =
           [q \in Proc |-> IF Manager!Listening(q) THEN Append(@[q], job[n])
             ELSE @[q]]]
    BY <1>6 DEF Manager!Write
  <2>2. \A q, p \in Proc :
          net'[q][p] = IF q = ProcOf[n] /\ Manager!Listening(p)
                       THEN Append(net[q][p], job[n]) ELSE net[q][p]
    BY <1>4, <2>1
  <2>3. \A q, p \in Proc : Append(net[q][p], job[n]) \in Seq(Manager!Changes)
    BY <1>1, <1>4
  <2>4. net' \in [Proc -> [Proc -> Seq(Manager!Changes)]]
    BY <1>4, <2>1, <2>3
  <2>5. \A p \in Proc : faults = 0 => Manager!Listening(p)
    BY <1>5 DEF Manager!Listening
  <2> QED
    BY <1>1, <1>2, <1>3, <2>2, <2>4, <2>5
<1>7. CASE ~Manager!Writes(ProcOf[n], job[n])
  <2>1. net' = net /\ state[ProcOf[n]] # "on"
    BY <1>7 DEF Manager!Write, Manager!Writes
  <2>2. faults # 0
    BY <1>4, <1>5, <2>1
  <2> QED
    BY <1>1, <1>2, <1>3, <1>4, <2>1, <2>2
<1> QED
  BY <1>6, <1>7

LEMMA WriteInv ==
  ASSUME NodesInv, NEW n \in Nodes, Manager!Write(n)
  PROVE  NodesInv'
<1> DEFINE c == job[n]
<1>1. /\ node_pc[n] = "write" /\ c \in Manager!Changes /\ c.node = n
      /\ c.op \in {"join", "leave"} /\ IsOf(c) /\ c = job[n]
  BY WriteFacts
<1>2. /\ existing' = existing /\ nodes' = nodes /\ heard' = heard
      /\ removed' = removed /\ stamp' = stamp /\ warned' = warned
      /\ state' = state /\ faults' = faults /\ gone' = gone
  BY WriteFacts
<1>3. /\ \A u \in Manager!Thread : u # n =>
           node_pc'[u] = node_pc[u] /\ job'[u] = job[u]
      /\ node_pc'[n] = (IF c.op = "join" THEN "joined" ELSE "gone")
      /\ job'[n] = NULL
      /\ node_pc' \in [Manager!Thread -> Manager!Locations]
      /\ job' \in [Manager!Thread -> Manager!Changes \cup {NULL}]
  BY WriteFacts
<1>4. /\ net' \in [Proc -> [Proc -> Seq(Manager!Changes)]]
      /\ \A q, p \in Proc :
           \/ net'[q][p] = net[q][p] /\ (q # ProcOf[n] \/ faults # 0)
           \/ q = ProcOf[n] /\ net'[q][p] = Append(net[q][p], c)
  BY WriteFacts
<1> HIDE DEF c
<1>5. n \in Manager!Thread /\ n \notin Proc /\ ProcOf[n] \in Proc
  BY Homes
<1>6. Grows
  BY <1>2, <1>3, Homes DEF Grows
<1>7. Manager!TypeOK'
  BY <1>2, <1>3, <1>4 DEF NodesInv, Manager!TypeOK, Manager!HasNode
<1>8. Known' /\ Faultless'
  <2>1. ASSUME NEW q \in Proc, NEW p \in Proc, NEW i \in 1..Len(net'[q][p])
        PROVE  \/ \E j \in 1..Len(net[q][p]) : net'[q][p][i] = net[q][p][j]
               \/ IsOf(net[q][p][i])' /\ ProcOf[net'[q][p][i].node] = q
    <3>1. CASE net'[q][p] = net[q][p]
      BY <3>1
    <3>2. CASE q = ProcOf[n] /\ net'[q][p] = Append(net[q][p], c)
      <4>1. CASE i \in 1..Len(net[q][p])
        BY <1>1, <3>2, <4>1, Appended
      <4>2. CASE i \notin 1..Len(net[q][p])
        <5>1. net'[q][p][i] = c
          <6>1. i = Len(net[q][p]) + 1
            BY <1>1, <3>2, <4>2, Appended
          <6> QED
            BY <1>1, <3>2, <6>1, Appended
        <5>2. node_pc'[c.node] # "new" /\ c.stamp = stamp'[c.node]
          BY <1>1, <1>6 DEF IsOf, Grows
        <5> QED
          BY <1>1, <3>2, <5>1, <5>2 DEF IsOf
      <4> QED
        BY <4>1, <4>2
    <3> QED
      BY <1>4, <3>1, <3>2
  <2>2. Known'
    BY <1>2, <1>3, <1>6, <2>1, KnownKept
  <2> QED
    BY <1>2, <2>2 DEF NodesInv, Faultless
<1>9. \A u \in Manager!Thread : Busy(u)'
  <2>1. ASSUME NEW u \in Manager!Thread, u # n
        PROVE  Busy(u)'
    BY <1>2, <1>3, <2>1 DEF NodesInv, Busy
  <2>2. Busy(n)'
    BY <1>1, <1>2, <1>3, <1>5 DEF NodesInv, Busy
  <2> QED
    BY <2>1, <2>2
<1>10. ASSUME NEW m \in Nodes
       PROVE  Own(m)'
  <2>1. Sole(m)' => Sole(m)
    BY <1>6, SoleBefore
  <2>2. CASE m = n
    BY <1>1, <1>2, <1>3, <2>1, <2>2 DEF NodesInv, Own, Manager!HasNode
  <2>3. CASE m # n
    BY <1>2, <1>3, <2>1, <2>3, Homes DEF NodesInv, Own, Manager!HasNode
  <2> QED
    BY <2>2, <2>3
<1>11. ASSUME NEW m \in Nodes, NEW p \in Proc
       PROVE  HeardOnce(m, p)' /\ Agreed(m, p)'
  <2> DEFINE q == ProcOf[m]
             l == Len(net[q][p])
  <2>1. q \in Proc /\ HeardOnce(m, p) /\ Agreed(m, p) /\ Busy(n)
    BY <1>5, Homes DEF NodesInv
  <2>2. /\ Disposing(p, m)' <=> Disposing(p, m)
        /\ Expelling(p, m)' <=> Expelling(p, m)
        /\ (node_pc[m] = "new" \/ Disposing(m, m))' =>
             node_pc[m] = "new" \/ Disposing(m, m)
    BY <1>1, <1>3, <1>5, Homes DEF Disposing, Expelling
  <2>3. CASE m # n
    <3>1. /\ Unwritten(m)' <=> Unwritten(m)
          /\ node_pc'[m] = node_pc[m]
      BY <1>3, <2>3, Homes DEF Unwritten, Disposing
    <3>2. \A op, i : /\ i \in 1..Len(net'[q][p]) /\ Is(q, p, i, op, m)'
                     <=> i \in 1..l /\ Is(q, p, i, op, m)
      <4>1. CASE net'[q][p] = net[q][p]
        BY <4>1 DEF Is
      <4>2. CASE net'[q][p] = Append(net[q][p], c)
        BY <1>1, <2>1, <2>3, <4>2, Appended DEF Is
      <4> QED
        BY <1>4, <2>1, <4>1, <4>2
    <3>3. \A op : Comes(q, p, op, m)' <=> Comes(q, p, op, m)
      BY <3>2 DEF Comes
    <3>4. HeardOnce(m, p)'
      BY <1>2, <2>1, <2>2, <3>1, <3>2, <3>3 DEF HeardOnce
    <3>5. Agreed(m, p)'
      <4>1. Sole(m)' => Sole(m)
        BY <1>6, SoleBefore
      <4> QED
        BY <1>2, <2>1, <2>2, <3>1, <3>2, <3>3, <4>1 DEF Agreed, Manager!HasNode
    <3> QED
      BY <3>4, <3>5
  <2>4. CASE m = n /\ p = q
    BY <1>2, <2>1, <2>2, <2>4 DEF HeardOnce, Agreed
  <2>5. CASE m = n /\ p # q
    <3>1. /\ ~Unwritten(m)' /\ (Unwritten(m) <=> c.op = "join")
               /\ node_pc'[m] # "new"
          /\ node_pc[m] # "gone" /\ (node_pc'[m] = "gone" <=> c.op = "leave")
      BY <1>1, <1>3, <2>5, NotNone DEF Unwritten, Disposing
    <3>2. CASE net'[q][p] = net[q][p] /\ faults # 0
      <4>1. \A op : Comes(q, p, op, m)' <=> Comes(q, p, op, m)
        BY <3>2 DEF Comes, Is
      <4>2. HeardOnce(m, p)'
        BY <1>2, <2>1, <2>2, <2>5, <3>1, <3>2, <4>1 DEF HeardOnce, Is
      <4> QED
        BY <1>2, <3>2, <4>2 DEF Agreed
    <3>3. CASE net'[q][p] = Append(net[q][p], c)
      <4>1. /\ l \in Nat /\ Len(net'[q][p]) = l + 1
            /\ \A i \in 1..(l + 1) : \A op :
                 Is(q, p, i, op, m)' <=> IF i = l + 1 THEN c.op = op
                                         ELSE i \in 1..l /\ Is(q, p, i, op, m)
        <5>1. \A i \in 1..(l + 1) : i = l + 1 \/ i \in 1..l
          BY <1>1, <2>1, <3>3, Appended
        <5> QED
          BY <1>1, <2>1, <2>5, <3>3, <5>1, Appended DEF Is
      <4>2. \A op : Comes(q, p, op, m)' <=> Comes(q, p, op, m) \/ c.op = op
        BY <4>1 DEF Comes
      <4>3. c.op = "join" => \A i \in 1..l : ~Is(q, p, i, "join", m)
        BY <2>1, <2>5, <3>1 DEF HeardOnce, Comes
      <4>4. Agreed(m, p) =>
              (faults = 0 /\ Sole(m) =>
                \A i \in 1..l : ~Is(q, p, i, "leave", m))
        BY <2>5, <3>1 DEF Agreed, Comes
      <4>5. HeardOnce(m, p)'
        <5>1. \A i, j \in 1..Len(net'[q][p]) :
                Is(q, p, i, "join", m)' /\ Is(q, p, j, "join", m)' => i = j
          <6>1. CASE c.op = "join"
            BY <4>1, <4>3, <6>1
          <6>2. CASE c.op # "join"
            BY <2>1, <2>5, <4>1, <6>2 DEF HeardOnce
          <6> QED
            BY <6>1, <6>2
        <5> QED
          BY <1>2, <2>1, <2>2, <2>5, <3>1, <4>2, <5>1 DEF HeardOnce
      <4>6. Agreed(m, p)'
        <5>1. Sole(m)' => Sole(m)
          BY <1>6, SoleBefore
        <5> SUFFICES ASSUME faults = 0, Sole(m)
                     PROVE  Agreed(m, p)'
          BY <1>2, <5>1 DEF Agreed
        <5>2. \A i, j \in 1..Len(net'[q][p]) :
                Is(q, p, i, "join", m)' /\ Is(q, p, j, "leave", m)' => i < j
          BY <1>1, <2>1, <4>1, <4>4
        <5>3. NameOf[m] \notin removed[p] /\ ~Expelling(p, m)
          BY <2>1, <2>5, <3>1 DEF Agreed
        <5> QED
          BY <1>1, <1>2, <2>1, <2>2, <2>5, <3>1, <4>2, <5>2, <5>3 DEF Agreed
      <4> QED
        BY <4>5, <4>6
    <3> QED
      BY <1>4, <2>1, <2>5, <3>2, <3>3
  <2> QED
    BY <2>3, <2>4, <2>5
<1>12. ASSUME NEW p \in Proc, NEW k \in Manager!Name
       PROVE  Stored(p, k)'
  <2>1. \A u \in Manager!Thread : node_pc'[u] \in {"search", "compare"} =>
          node_pc'[u] = node_pc[u] /\ job'[u] = job[u]
    BY <1>1, <1>3
  <2> QED
    BY <1>2, <2>1 DEF NodesInv, Stored, Manager!HasNode
<1>13. ASSUME NEW a \in Nodes, NEW b \in Nodes
       PROVE  Noticed(a, b)'
  <2>1. Manager!Namesakes(a)' = Manager!Namesakes(a)
    BY <1>1, <1>3, Homes DEF Manager!Namesakes
  <2> QED
    BY <1>2, <2>1 DEF NodesInv, Noticed
<1> QED
  BY <1>7, <1>8, <1>9, <1>10, <1>11, <1>12, <1>13 DEF NodesInv

-----------------------------------------------------------------------------
(* Process p takes the first change that process q has written.            *)
TakesFirst(q, p) ==
  net[q][p] # <<>> /\ net' = [net EXCEPT ![q][p] = Tail(@)]

LEMMA FirstTaken ==
  ASSUME NodesInv, NEW q \in Proc, NEW p \in Proc, TakesFirst(q, p)
  PROVE  /\ net' \in [Proc -> [Proc -> Seq(Manager!Changes)]]
         /\ \A r, s \in Proc : r # q \/ s # p => net'[r][s] = net[r][s]
         /\ Head(net[q][p]) \in Manager!Changes /\ IsOf(Head(net[q][p]))
         /\ ProcOf[Head(net[q][p]).node] = q
         /\ Len(net[q][p]) \in Nat \ {0}
         /\ Len(net'[q][p]) = Len(net[q][p]) - 1
         /\ net[q][p][1] = Head(net[q][p])
         /\ \A i \in 1..Len(net'[q][p]) :
              i + 1 \in 1..Len(net[q][p]) /\ net'[q][p][i] = net[q][p][i + 1]
<1>1. /\ net \in [Proc -> [Proc -> Seq(Manager!Changes)]]
      /\ net[q][p] \in Seq(Manager!Changes) /\ net[q][p] # <<>>
      /\ net' = [net EXCEPT ![q][p] = Tail(net[q][p])]
  BY DEF NodesInv, Manager!TypeOK, TakesFirst
<1>2. Tail(net[q][p]) \in Seq(Manager!Changes)
  BY <1>1
<1>3. /\ net' \in [Proc -> [Proc -> Seq(Manager!Changes)]]
      /\ \A r, s \in Proc : r # q \/ s # p => net'[r][s] = net[r][s]
      /\ net'[q][p] = Tail(net[q][p])
  BY <1>1, <1>2
<1>4. /\ Len(net[q][p]) \in Nat \ {0} /\ net[q][p][1] = Head(net[q][p])
      /\ Head(net[q][p]) \in Manager!Changes
  BY <1>1
<1>5. IsOf(Head(net[q][p])) /\ ProcOf[Head(net[q][p]).node] = q
  <2>1. 1 \in 1..Len(net[q][p])
    BY <1>4
  <2> QED
    BY <1>4, <2>1 DEF NodesInv, Known
<1>6. /\ Len(net'[q][p]) = Len(net[q][p]) - 1
      /\ \A i \in 1..Len(net'[q][p]) :
           i + 1 \in 1..Len(net[q][p]) /\ net'[q][p][i] = net[q][p][i + 1]
  BY <1>1, <1>3
<1> QED
  BY <1>3, <1>4, <1>5, <1>6

LEMMA StillComes ==
  ASSUME NodesInv, NEW q \in Proc, NEW p \in Proc, TakesFirst(q, p),
         NEW m \in Nodes
  PROVE  /\ \A op : Comes(q, p, op, m) <=>
                      \/ Comes(q, p, op, m)'
                      \/ Head(net[q][p]).op = op /\ Head(net[q][p]).node = m
         /\ \A i \in 1..Len(net'[q][p]) : \A op :
              /\ i + 1 \in 1..Len(net[q][p])
              /\ Is(q, p, i, op, m)' <=> Is(q, p, i + 1, op, m)
         /\ \A op : Head(net[q][p]).op = op /\ Head(net[q][p]).node = m
              => 1 \in 1..Len(net[q][p]) /\ Is(q, p, 1, op, m)
<1> DEFINE l == Len(net[q][p])
<1>1. /\ l \in Nat \ {0} /\ Len(net'[q][p]) = l - 1
      /\ net[q][p][1] = Head(net[q][p])
      /\ \A i \in 1..(l - 1) : i + 1 \in 1..l
           /\ net'[q][p][i] = net[q][p][i + 1]
  BY FirstTaken, SMTT(40)
<1>2. /\ \A i \in 1..(l - 1) : \A op :
              /\ i + 1 \in 1..l
              /\ Is(q, p, i, op, m)' <=> Is(q, p, i + 1, op, m)
      /\ \A op : Is(q, p, 1, op, m)
                   <=> Head(net[q][p]).op = op /\ Head(net[q][p]).node = m
  BY <1>1 DEF Is
<1>3. \A i \in 1..l : i = 1 \/ i - 1 \in 1..(l - 1)
  BY <1>1
<1>4. \A op : Comes(q, p, op, m) <=>
        (\/ Comes(q, p, op, m)' \/ Is(q, p, 1, op, m))
  <2>1. ASSUME NEW op, Comes(q, p, op, m)
        PROVE  Comes(q, p, op, m)' \/ Is(q, p, 1, op, m)
    <3>1. PICK i \in 1..l : Is(q, p, i, op, m)
      BY <2>1 DEF Comes
    <3>2. CASE i - 1 \in 1..(l - 1)
      <4>1. Is(q, p, i - 1, op, m)' <=> Is(q, p, (i - 1) + 1, op, m)
        BY <1>2, <3>2
      <4>2. (i - 1) + 1 = i
        BY <3>2
      <4>3. net'[q][p][i - 1].op = op /\ net'[q][p][i - 1].node = m
        BY <3>1, <4>1, <4>2 DEF Is
      <4> QED
        BY <1>1, <3>2, <4>3 DEF Comes, Is
    <3> QED
      BY <1>3, <3>1, <3>2
  <2>2. ASSUME NEW op, Comes(q, p, op, m)' \/ Is(q, p, 1, op, m)
        PROVE  Comes(q, p, op, m)
    BY <1>1, <1>2, <2>2 DEF Comes
  <2> QED
    BY <2>1, <2>2
<1>5. /\ \A i \in 1..Len(net'[q][p]) : \A op :
              /\ i + 1 \in 1..Len(net[q][p])
              /\ Is(q, p, i, op, m)' <=> Is(q, p, i + 1, op, m)
      /\ 1 \in 1..Len(net[q][p])
  <2>1. Len(net'[q][p]) = l - 1 /\ 1 \in 1..l
    BY <1>1
  <2> HIDE DEF l
  <2>2. \A i \in 1..Len(net'[q][p]) : \A op :
          i + 1 \in 1..l /\ (Is(q, p, i, op, m)' <=> Is(q, p, i + 1, op, m))
    BY <1>2, <2>1
  <2> USE DEF l
  <2> QED
    BY <2>1, <2>2
<1> HIDE DEF l
<1> QED
  BY <1>2, <1>4, <1>5

(* A change that is lost, or that its receiver does nothing with.          *)
LEMMA Unheard ==
  ASSUME NodesInv, NEW q \in Proc, NEW p \in Proc, TakesFirst(q, p),
         node_pc' = node_pc, job' = job, existing' = existing, nodes' = nodes,
         state' = state, gone' = gone, warned' = warned, heard' = heard,
         removed' = removed, stamp' = stamp,
         faults' \in Nat, faults' = 0 => faults = 0 /\ q = p
  PROVE  NodesInv'
<1>1. Grows
  BY DEF Grows
<1>2. Manager!TypeOK'
  <2>1. net' \in [Proc -> [Proc -> Seq(Manager!Changes)]]
    BY FirstTaken
  <2>2. Manager!TypeOK
    BY DEF NodesInv
  <2>3. \A s \in Proc, k \in Manager!Name :
          Manager!HasNode(s, k)' <=> Manager!HasNode(s, k)
    BY DEF Manager!HasNode
  <2> QED
    BY <2>1, <2>2, <2>3 DEF Manager!TypeOK
<1>3. Known' /\ Faultless'
  <2>1. ASSUME NEW r \in Proc, NEW s \in Proc, NEW i \in 1..Len(net'[r][s])
        PROVE  \E j \in 1..Len(net[r][s]) : net'[r][s][i] = net[r][s][j]
    <3>1. CASE r = q /\ s = p
      <4>1. i \in 1..Len(net'[q][p])
        BY <3>1
      <4>2. i + 1 \in 1..Len(net[q][p]) /\ net'[q][p][i] = net[q][p][i + 1]
        BY <4>1, FirstTaken
      <4> QED
        BY <3>1, <4>2
    <3>2. CASE r # q \/ s # p
      <4>1. net'[r][s] = net[r][s]
        BY <3>2, FirstTaken
      <4> QED
        BY <4>1
    <3> QED
      BY <3>1, <3>2
  <2> QED
    BY <1>1, <2>1, KnownKept DEF NodesInv, Faultless
<1>4. \A u \in Manager!Thread : Busy(u)'
  BY DEF NodesInv, Busy
<1>5. \A n \in Nodes : Own(n)'
  BY DEF NodesInv, Own, Sole, Manager!Namesakes, Manager!HasNode
<1>6. ASSUME NEW n \in Nodes, NEW s \in Proc
      PROVE  HeardOnce(n, s)' /\ Agreed(n, s)'
  <2>1. /\ Disposing(s, n)' <=> Disposing(s, n)
        /\ Disposing(n, n)' <=> Disposing(n, n)
        /\ Unwritten(n)' <=> Unwritten(n)
        /\ Expelling(s, n)' <=> Expelling(s, n)
        /\ Sole(n)' <=> Sole(n)
        /\ Manager!HasNode(s, NameOf[n])' <=> Manager!HasNode(s, NameOf[n])
    BY DEF Disposing, Unwritten, Expelling, Sole, Manager!Namesakes,
       Manager!HasNode
  <2>2. HeardOnce(n, s) /\ Agreed(n, s) /\ ProcOf[n] \in Proc
    BY Homes DEF NodesInv
  <2>3. CASE s = ProcOf[n]
    BY <2>1, <2>2, <2>3 DEF HeardOnce, Agreed
  <2>4. CASE s # ProcOf[n] /\ (ProcOf[n] # q \/ s # p)
    <3>1. net'[ProcOf[n]][s] = net[ProcOf[n]][s]
      BY <2>2, <2>4, FirstTaken, SMTT(40)
    <3>2. \A op : Comes(ProcOf[n], s, op, n)' <=> Comes(ProcOf[n], s, op, n)
      BY <3>1 DEF Comes, Is
    <3> QED
      BY <2>1, <2>2, <2>4, <3>1, <3>2 DEF HeardOnce, Agreed, Is
  <2>5. CASE s # ProcOf[n] /\ ProcOf[n] = q /\ s = p
    <3>1. faults' # 0
      BY <2>5
    <3>2. /\ \A op : Comes(q, p, op, n)' => Comes(q, p, op, n)
          /\ \A i \in 1..Len(net'[q][p]) : \A op :
               /\ i + 1 \in 1..Len(net[q][p])
               /\ Is(q, p, i, op, n)' <=> Is(q, p, i + 1, op, n)
      BY StillComes
    <3>3. \A i, j \in 1..Len(net'[q][p]) :
            Is(q, p, i, "join", n)' /\ Is(q, p, j, "join", n)' => i = j
      <4>1. \A i, j \in 1..Len(net'[q][p]) :
              Is(q, p, i, "join", n)' /\ Is(q, p, j, "join", n)' =>
                i + 1 = j + 1
        BY <2>2, <2>5, <3>2 DEF HeardOnce
      <4> QED
        BY <4>1
    <3> QED
      BY <2>1, <2>2, <2>5, <3>1, <3>2, <3>3 DEF HeardOnce, Agreed
  <2> QED
    BY <2>3, <2>4, <2>5
<1>7. \A s \in Proc : \A k \in Manager!Name : Stored(s, k)'
  BY DEF NodesInv, Stored, Manager!HasNode
<1>8. \A a, b \in Nodes : Noticed(a, b)'
  BY DEF NodesInv, Noticed, Manager!Namesakes
<1> QED
  BY <1>2, <1>3, <1>4, <1>5, <1>6, <1>7, <1>8 DEF NodesInv

LEMMA LoseInv ==
  ASSUME NodesInv, NEW q \in Proc, NEW p \in Proc, Manager!Lose(q, p)
  PROVE  NodesInv'
<1>1. faults \in Nat /\ faults' = faults + 1
  BY DEF NodesInv, Manager!TypeOK, Manager!Lose
<1>2. faults' \in Nat /\ faults' # 0
  BY <1>1
<1> QED
  BY <1>2, Unheard DEF Manager!Lose, TakesFirst, Manager!history

(* A change of another process is disposed: what was under way is now in   *)
(* hand.                                                                   *)
LEMMA DeliveredInv ==
  ASSUME NodesInv, NEW q \in Proc, NEW p \in Proc, TakesFirst(q, p),
         NEW c \in Manager!Changes, c = Head(net[q][p]), p # q,
           node_pc[p] = "idle",
         Manager!Dispose(p, c),
           UNCHANGED <<existing, nodes, Manager!procVars, warned,
             Manager!history>>
  PROVE  NodesInv'
<1>1. /\ existing' = existing /\ nodes' = nodes /\ heard' = heard
      /\ removed' = removed /\ stamp' = stamp /\ warned' = warned
      /\ state' = state /\ faults' = faults /\ gone' = gone
  BY DEF Manager!procVars, Manager!history
<1>2. /\ c.node \in Nodes /\ c # NULL /\ c.op \in {"join", "leave"} /\ IsOf(c)
      /\ ProcOf[c.node] = q /\ node_pc[p] = "idle"
  BY NotNone, FirstTaken
<1>3. p \in Manager!Thread /\ p \notin Nodes
  BY Homes
<1>4. /\ \A u \in Manager!Thread : u # p =>
           node_pc'[u] = node_pc[u] /\ job'[u] = job[u]
      /\ node_pc'[p] = (IF c.op = "join" THEN "add" ELSE "remove")
      /\ job'[p] = c
      /\ node_pc' \in [Manager!Thread -> Manager!Locations]
      /\ job' \in [Manager!Thread -> Manager!Changes \cup {NULL}]
  BY <1>2, <1>3
     DEF Manager!Dispose, Manager!Goto, NodesInv, Manager!TypeOK,
         Manager!Locations
<1>5. Grows
  BY <1>1, <1>4, Homes DEF Grows
<1>6. Manager!TypeOK'
  <2>1. net' \in [Proc -> [Proc -> Seq(Manager!Changes)]]
    BY FirstTaken
  <2> QED
    BY <1>1, <1>4, <2>1 DEF NodesInv, Manager!TypeOK, Manager!HasNode
<1>7. Known' /\ Faultless'
  <2>1. ASSUME NEW r \in Proc, NEW s \in Proc, NEW i \in 1..Len(net'[r][s])
        PROVE  \E j \in 1..Len(net[r][s]) : net'[r][s][i] = net[r][s][j]
    <3>1. CASE r = q /\ s = p
      <4>1. i \in 1..Len(net'[q][p])
        BY <3>1
      <4>2. i + 1 \in 1..Len(net[q][p]) /\ net'[q][p][i] = net[q][p][i + 1]
        BY <4>1, FirstTaken
      <4> QED
        BY <3>1, <4>2
    <3>2. CASE r # q \/ s # p
      <4>1. net'[r][s] = net[r][s]
        BY <3>2, FirstTaken
      <4> QED
        BY <4>1
    <3> QED
      BY <3>1, <3>2
  <2>2. \A u \in Manager!Thread : job'[u] = job[u] \/ IsOf(job[u])'
    <3>1. node_pc'[c.node] # "new" /\ c.stamp = stamp'[c.node]
      BY <1>2, <1>5 DEF IsOf, Grows
    <3>2. IsOf(job[p])'
      BY <1>4, <3>1 DEF IsOf
    <3> QED
      BY <1>4, <3>2
  <2> QED
    BY <1>1, <1>5, <2>1, <2>2, KnownKept DEF NodesInv, Faultless
<1>8. \A u \in Manager!Thread : Busy(u)'
  <2>1. ASSUME NEW u \in Manager!Thread, u # p
        PROVE  Busy(u)'
    BY <1>1, <1>4, <2>1 DEF NodesInv, Busy
  <2>2. Busy(p)'
    BY <1>1, <1>2, <1>3, <1>4 DEF NodesInv, Busy
  <2> QED
    BY <2>1, <2>2
<1>9. ASSUME NEW n \in Nodes
      PROVE  Own(n)'
  <2>1. node_pc'[n] = node_pc[n] /\ job'[n] = job[n] /\ (Sole(n)' => Sole(n))
    BY <1>3, <1>4, <1>5, SoleBefore, Homes
  <2> QED
    BY <1>1, <2>1 DEF NodesInv, Own, Manager!HasNode
<1>10. ASSUME NEW n \in Nodes, NEW s \in Proc
       PROVE  HeardOnce(n, s)' /\ Agreed(n, s)'
  <2>1. /\ Disposing(n, n)' <=> Disposing(n, n)
        /\ Unwritten(n)' <=> Unwritten(n)
        /\ node_pc'[n] = node_pc[n]
    BY <1>3, <1>4, Homes DEF Disposing, Unwritten
  <2>2. /\ HeardOnce(n, s) /\ Agreed(n, s) /\ ProcOf[n] \in Proc
        /\ Sole(n)' => Sole(n)
        /\ Manager!HasNode(s, NameOf[n])' <=> Manager!HasNode(s, NameOf[n])
    BY <1>1, <1>5, SoleBefore, Homes DEF NodesInv, Manager!HasNode
  <2>3. CASE s = ProcOf[n]
    BY <1>1, <2>1, <2>2, <2>3 DEF HeardOnce, Agreed
  <2>4. CASE s # ProcOf[n] /\ (ProcOf[n] # q \/ s # p)
    <3>1. net'[ProcOf[n]][s] = net[ProcOf[n]][s]
      BY <2>2, <2>4, FirstTaken, SMTT(40)
    <3>2. \A op : Comes(ProcOf[n], s, op, n)' <=> Comes(ProcOf[n], s, op, n)
      BY <3>1 DEF Comes, Is
    <3>3. /\ Disposing(s, n)' <=> Disposing(s, n)
          /\ Expelling(s, n)' <=> Expelling(s, n)
      BY <1>2, <1>4, <2>4, Homes DEF Disposing, Expelling
    <3> QED
      BY <1>1, <2>1, <2>2, <2>4, <3>1, <3>2, <3>3 DEF HeardOnce, Agreed, Is
  <2>5. CASE s # ProcOf[n] /\ ProcOf[n] = q /\ s = p
    <3>1. /\ ~Disposing(p, n) /\ ~Expelling(p, n)
          /\ Disposing(p, n)' <=> c.op = "join" /\ c.node = n
          /\ Expelling(p, n)' <=> c.op = "leave" /\ c.node = n
      BY <1>2, <1>4 DEF Disposing, Expelling
    <3>2. /\ \A op : Comes(q, p, op, n) <=>
                       Comes(q, p, op, n)' \/ (c.op = op /\ c.node = n)
          /\ \A i \in 1..Len(net'[q][p]) : \A op :
               /\ i + 1 \in 1..Len(net[q][p])
               /\ Is(q, p, i, op, n)' <=> Is(q, p, i + 1, op, n)
          /\ \A op : c.op = op /\ c.node = n =>
                       1 \in 1..Len(net[q][p]) /\ Is(q, p, 1, op, n)
      BY StillComes
    <3>3. \A i, j \in 1..Len(net'[q][p]) :
            Is(q, p, i, "join", n)' /\ Is(q, p, j, "join", n)' => i = j
      <4>1. \A i, j \in 1..Len(net'[q][p]) :
              Is(q, p, i, "join", n)' /\ Is(q, p, j, "join", n)' =>
                i + 1 = j + 1
        BY <2>2, <2>5, <3>2 DEF HeardOnce
      <4> QED
        BY <4>1
    <3>4. c.op = "join" /\ c.node = n => ~Comes(q, p, "join", n)'
      <4>1. ASSUME c.op = "join", c.node = n, NEW i \in 1..Len(net'[q][p]),
                   Is(q, p, i, "join", n)'
            PROVE  FALSE
        <5>1. i + 1 = 1
          BY <2>2, <2>5, <3>2, <4>1 DEF HeardOnce
        <5> QED
          BY <5>1
      <4> QED
        BY <4>1 DEF Comes, Is
    <3>5. HeardOnce(n, s)'
      BY <1>1, <2>1, <2>2, <2>5, <3>1, <3>2, <3>3, <3>4 DEF HeardOnce
    <3>6. ASSUME faults = 0, Sole(n)
          PROVE  Agreed(n, s)'
      <4>1. \A i, j \in 1..Len(net'[q][p]) :
              Is(q, p, i, "join", n)' /\ Is(q, p, j, "leave", n)' => i < j
        <5>1. \A i, j \in 1..Len(net'[q][p]) :
                Is(q, p, i, "join", n)' /\ Is(q, p, j, "leave", n)' =>
                  i + 1 < j + 1
          BY <2>2, <2>5, <3>2, <3>6 DEF Agreed
        <5> QED
          BY <5>1
      <4>2. c.op = "leave" /\ c.node = n => ~Comes(q, p, "join", n)
        <5>1. ASSUME c.op = "leave", c.node = n, NEW i \in 1..Len(net[q][p]),
                     Is(q, p, i, "join", n)
              PROVE  FALSE
          <6>1. i < 1
            BY <2>2, <2>5, <3>2, <3>6, <5>1 DEF Agreed
          <6> QED
            BY <6>1
        <5> QED
          BY <5>1 DEF Comes
      <4> QED
        BY <1>1, <1>2, <2>1, <2>2, <2>5, <3>1, <3>2, <3>4, <3>6, <4>1, <4>2
           DEF Agreed
    <3>7. Agreed(n, s)'
      BY <1>1, <2>2, <3>6 DEF Agreed
    <3> QED
      BY <3>5, <3>7
  <2> QED
    BY <2>3, <2>4, <2>5
<1>11. ASSUME NEW s \in Proc, NEW k \in Manager!Name
       PROVE  Stored(s, k)'
  <2>1. \A u \in Manager!Thread : node_pc'[u] \in {"search", "compare"} =>
          node_pc'[u] = node_pc[u] /\ job'[u] = job[u]
    BY <1>4
  <2> QED
    BY <1>1, <2>1 DEF NodesInv, Stored, Manager!HasNode
<1>12. ASSUME NEW a \in Nodes, NEW b \in Nodes
       PROVE  Noticed(a, b)'
  <2>1. Manager!Namesakes(a)' = Manager!Namesakes(a)
    BY <1>3, <1>4, Homes DEF Manager!Namesakes
  <2> QED
    BY <1>1, <2>1 DEF NodesInv, Noticed
<1> QED
  BY <1>6, <1>7, <1>8, <1>9, <1>10, <1>11, <1>12 DEF NodesInv

LEMMA OnRemoteChangeInv ==
  ASSUME NodesInv, NEW p \in Proc, NEW q \in Proc, Manager!OnRemoteChange(p, q)
  PROVE  NodesInv'
<1> DEFINE c == Head(net[q][p])
<1>1. /\ TakesFirst(q, p) /\ node_pc[p] = "idle" /\ Manager!Listening(p)
      /\ UNCHANGED <<existing, nodes, Manager!procVars, warned,
           Manager!history>>
  BY DEF Manager!OnRemoteChange, TakesFirst
<1>2. c \in Manager!Changes /\ ProcOf[c.node] = q
  BY <1>1, FirstTaken
<1>3. CASE state[p] = "shutdown" \/ Manager!IsFromSameProcess(p, c)
  <2>1. node_pc' = node_pc /\ job' = job
    BY <1>3 DEF Manager!OnRemoteChange
  <2>2. faults \in Nat /\ (faults = 0 => state[p] = "on")
    BY DEF NodesInv, Manager!TypeOK, Faultless
  <2>3. faults' = faults /\ (faults = 0 => q = p)
    BY <1>1, <1>2, <1>3, <2>2 DEF Manager!IsFromSameProcess, Manager!procVars
  <2> HIDE DEF c
  <2> QED
    BY <1>1, <2>1, <2>2, <2>3, Unheard DEF Manager!procVars, Manager!history
<1>4. CASE ~(state[p] = "shutdown" \/ Manager!IsFromSameProcess(p, c))
  <2>1. Manager!Dispose(p, c) /\ p # q
    BY <1>2, <1>4 DEF Manager!OnRemoteChange, Manager!IsFromSameProcess
  <2> QED
    BY <1>1, <1>2, <2>1, DeliveredInv
<1> QED
  BY <1>3, <1>4

-----------------------------------------------------------------------------
LEMMA DisposeStepInv ==
  ASSUME NodesInv, NEW t \in Manager!Thread, Manager!DisposeStep(t)
  PROVE  NodesInv'
BY AddNodeInv, SearchNodeInv, CompareNodesInv, DisposeLeaveInv
   DEF Manager!DisposeStep

LEMMA NodesStutter ==
  ASSUME NodesInv, UNCHANGED Manager!vars
  PROVE  NodesInv'
<1>1. /\ node_pc' = node_pc /\ job' = job /\ existing' = existing
      /\ nodes' = nodes
      /\ net' = net /\ heard' = heard /\ removed' = removed /\ stamp' = stamp
      /\ warned' = warned /\ gone' = gone /\ state' = state /\ faults' = faults
  BY DEF Manager!vars, Manager!procVars, Manager!history
<1>2. Grows
  BY <1>1 DEF Grows
<1>3. Manager!TypeOK' /\ Known' /\ Faultless'
  BY <1>1, <1>2, KnownKept
     DEF NodesInv, Manager!TypeOK, Manager!HasNode, Faultless
<1>4. \A t \in Manager!Thread : Busy(t)'
  BY <1>1 DEF NodesInv, Busy
<1>5. ASSUME NEW n \in Nodes, NEW p \in Proc
      PROVE  HeardOnce(n, p)' /\ Agreed(n, p)'
  <2>1. SamePath(n, p)
    BY <1>1 DEF SamePath, Disposing, Unwritten, Expelling
  <2> QED
    BY <1>1, <1>2, <2>1, HeardKept, AgreedKept DEF NodesInv, Manager!HasNode
<1>6. \A n \in Nodes : Own(n)'
  BY <1>1 DEF NodesInv, Own, Sole, Manager!Namesakes, Manager!HasNode
<1>7. \A p \in Proc : \A k \in Manager!Name : Stored(p, k)'
  BY <1>1 DEF NodesInv, Stored, Manager!HasNode
<1>8. \A a, b \in Nodes : Noticed(a, b)'
  BY <1>1 DEF NodesInv, Noticed, Manager!Namesakes
<1> QED
  BY <1>3, <1>4, <1>5, <1>6, <1>7, <1>8 DEF NodesInv

LEMMA NodesNext ==
  ASSUME NodesInv, [Manager!Next]_(Manager!vars)
  PROVE  NodesInv'
<1>1. CASE Manager!Environment
  BY <1>1, StateChanges, LoseInv DEF Manager!Environment
<1>2. ASSUME NEW n \in Nodes, Manager!NodeStep(n)
      PROVE  NodesInv'
  BY <1>2, Homes, AnnounceInv, WriteInv, DisposeStepInv DEF Manager!NodeStep
<1>3. ASSUME NEW p \in Proc, Manager!HandlerStep(p)
      PROVE  NodesInv'
  BY <1>3, Homes, DisposeStepInv, HandlerReturnsInv, RemoveFoundInv,
     OnRemoteChangeInv, ParticipantLeftInv DEF Manager!HandlerStep
<1>4. CASE UNCHANGED Manager!vars
  BY <1>4, NodesStutter
<1> QED
  BY <1>1, <1>2, <1>3, <1>4 DEF Manager!Next

LEMMA NodesHold == Manager!Spec => []NodesInv
BY NodesInit, NodesNext, PTL DEF Manager!Spec

-----------------------------------------------------------------------------
(* A node whose name no other has had is in the map of its own process     *)
(* from its join to its leave and not before or after, whatever other      *)
(* processes write, lose or exit meanwhile (Manager::OnRemoteChange).      *)
THEOREM OwnNodesStay == Manager!Spec => []OwnNodes
<1>1. NodesInv => OwnNodes
  BY OwnNodesHold DEF NodesInv, OwnNodes
<1> QED
  BY <1>1, NodesHold, PTL

(* The process of the newer of two nodes of one name is told so as soon as *)
(* it has disposed both joins, in whatever order these came or were        *)
(* disposed, for any clocks that tell them apart (node_manager.cpp:72).    *)
THEOREM DuplicatesAreNoticed == Manager!Spec => []DuplicateIsNoticed
<1>1. NodesInv => DuplicateIsNoticed
  BY DEF NodesInv, Noticed, DuplicateIsNoticed, Manager!DuplicateIsNoticed
<1> QED
  BY <1>1, NodesHold, PTL

(* While nothing was lost and no process shut down, every process that has *)
(* disposed all changes knows exactly the nodes that have joined and not   *)
(* left, as far as their names are their own (Manager::Write, Dispose).    *)
THEOREM ProcessesAgree == Manager!Spec => []AllAgree
<1>1. NodesInv => AllAgree
  BY AllAgreeHolds DEF AllAgree
<1> QED
  BY <1>1, NodesHold, PTL

-----------------------------------------------------------------------------
(* The classes. The lock of the count of a loader is held by one at a time *)
(* (Locking); so a loader that is not raced counts all its objects but     *)
(* those that somebody is still counting (ObjsCounted), and one with an    *)
(* object is among the owners of the factory and unloaded by nobody        *)
(* (Used); nobody closes the last handle of a library that has a factory   *)
(* (Opening). Of calls one after another it is proved how far the one that *)
(* is going on has come (InStepAt).                                        *)

InRelease == {"release", "released"}

(* A loader that somebody is in a call of exists. Who unloads goes on to   *)
(* delete the loader if the manager made it.                               *)
Working(t) ==
  LET r == loader_th[t] IN
  /\ r.pc = "idle" => r.loader = NULL
  /\ r.pc # "idle" => r.loader \in alive
  /\ r.pc \notin {"load", "unload"} \cup Loader!InLoad \cup Loader!InUnload =>
       r.then = "idle"
  /\ r.pc = "load" => r.then \in {"idle", "find"}
  /\ r.pc \in Loader!InLoad => r.then \in {"idle", "find", "construct"}
  /\ r.pc \in {"unload"} \cup Loader!InUnload =>
       /\ r.then \in {"idle", "delete", "manager"}
       /\ r.then = "manager" => r.loader \in Managed
       /\ r.then = "idle" => r.loader \notin Managed

(* The locks are held exactly where the code holds them.                   *)
Locking(t) ==
  /\ \A l \in Loaders :
       objLock[l] = t <=>
         /\ loader_th[t].loader = l
         /\ loader_th[t].pc \in Loader!InUnload \cup InRelease
  /\ openLock = t <=> loader_th[t].pc = "close"
  /\ loader_th[t].pc = "close" => open

(* There is a handle for open_libraries and one for each thread between    *)
(* dlopen and emplace; without a handle there is no factory.               *)
Opening ==
  /\ Cardinality({t \in Threads : Loader!At(t, "emplace")})
       + (IF open THEN 1 ELSE 0) <= mapped
  /\ factory # NULL => mapped > 0
  /\ \A t \in Threads : Loader!At(t, "append") => factory # NULL

(* A loader of the manager counts a load, or is about to be deleted.       *)
Kept(l) == l \in alive \cap Managed => loads[l] > 0 \/ Loader!Unloading(l)

(* classobj_ref_count_ is behind by the objects that somebody has made and *)
(* not counted, and ahead by the one that somebody is releasing.           *)
Counts(t, l) ==
  loader_th[t].loader = l /\ loader_th[t].pc \in {"count", "counted"}
Counting(l) == {t \in Threads : Counts(t, l)}
ObjsCounted(l) ==
  LET released == objLock[l] # NULL /\ Loader!Releases(objLock[l], l)
  IN l \notin raced =>
       objs[l] = live[l] - Cardinality(Counting(l)) + (IF released THEN 1 ELSE 0)

(* A loader with an object, or with one that somebody is about to make,    *)
(* owns the factory and is not being unloaded.                             *)
Makes(t, l) == loader_th[t].loader = l /\ loader_th[t].pc = "make"
Needed(l) == live[l] > 0 \/ \E t \in Threads : Makes(t, l)
Used(l) ==
  l \notin raced /\ Needed(l) =>
    /\ l \in alive /\ factory # NULL /\ l \in factory.owners
    /\ ~Loader!Unloading(l)

ClassesInv ==
  /\ Loader!TypeOK
  /\ ~loader_crashed =>
       /\ Opening
       /\ \A t \in Threads : Working(t) /\ Locking(t)
       /\ \A l \in Loaders : Kept(l) /\ ObjsCounted(l) /\ Used(l)

(* While no call is going on, and how far the one call that is going on    *)
(* has come: it joins the owners of the factory, or is the first to load.  *)
Loaded == {l \in Loaders : loads[l] > 0}
Quiet ==
  /\ open <=> Loaded # {}
  /\ mapped = IF open THEN 1 ELSE 0
  /\ factory # NULL <=> open
  /\ open => factory.owners = Loaded
InStepAt(t) ==
  LET r == loader_th[t]
      l == r.loader
      joins == open /\ mapped = 1 /\ factory # NULL
               /\ factory.owners \cup {l} = Loaded
      first == ~open /\ mapped = 0 /\ factory = NULL /\ Loaded = {l}
  IN /\ r.pc = "check" => joins \/ first
     /\ r.pc \in {"list", "attach", "append"} => joins
     /\ r.pc = "dlopen" => first
     /\ r.pc = "emplace" =>
          /\ ~open /\ mapped = 1 /\ factory # NULL
          /\ factory.owners = Loaded /\ Loaded = {l}
     /\ r.pc = "destroy" =>
          /\ open /\ mapped = 1 /\ factory # NULL
          /\ factory.owners \ {l} = Loaded
     /\ r.pc = "close" =>
          /\ open /\ mapped = 1 /\ (factory = NULL <=> Loaded = {})
          /\ factory # NULL => factory.owners = Loaded
     /\ r.pc \notin Loader!InLoad \cup {"destroy", "close"} => Quiet
     /\ r.pc \in {"attach", "own", "make"} => factory # NULL /\ r.ptr = factory.no
     /\ r.pc \in {"counted", "released"} => r.count = objs[l]
OneByOne ==
  ~overlapped /\ failures = 0 =>
    /\ ~loader_crashed /\ raced = {}
    /\ \A t, u \in Threads :
         ~Loader!At(t, "idle") /\ ~Loader!At(u, "idle") => t = u
    /\ \A t \in Threads : ~Loader!At(t, "idle") => InStepAt(t)
    /\ (\A t \in Threads : Loader!At(t, "idle")) => Quiet

-----------------------------------------------------------------------------
(* The instance has operators of FiniteSets of its own.                    *)
LEMMA CardinalityIs ==
  ASSUME NEW S PROVE Loader!Cardinality(S) = Cardinality(S)
BY DEF Loader!Cardinality, Cardinality

LEMMA ThreadsFinite == IsFiniteSet(Threads)
BY LoaderConstants DEF Loader!LoaderAssumption, Loader!IsFiniteSet, IsFiniteSet

LEMMA LocationsAre ==
  Loader!Locations =
    {"idle", "load", "check", "list", "attach", "append", "dlopen", "emplace",
     "unload", "destroy", "close", "unloaded", "find", "own", "make", "count",
     "counted", "release", "released"}
BY DEF Loader!Locations, Loader!InLoad, Loader!InUnload

LEMMA IdleIs == Loader!Idle \in Loader!ThreadStates
BY LocationsAre DEF Loader!Idle, Loader!ThreadStates

(* How a step moves its thread.                                            *)
GoesTo(t, loc, l, then) ==
  /\ loader_th' \in [Threads -> Loader!ThreadStates]
  /\ \A u \in Threads : u # t => loader_th'[u] = loader_th[u]
  /\ loader_th'[t].pc = loc /\ loader_th'[t].loader = l
  /\ loader_th'[t].then = then

LEMMA Going ==
  ASSUME Loader!TypeOK, NEW t \in Threads, NEW loc \in Loader!Locations,
         Loader!Goto(t, loc)
  PROVE  GoesTo(t, loc, loader_th[t].loader, loader_th[t].then)
<1>1. loader_th[t] \in Loader!ThreadStates
        /\ loader_th \in [Threads -> Loader!ThreadStates]
  BY DEF Loader!TypeOK
<1>2. [loader_th[t] EXCEPT !.pc = loc] \in Loader!ThreadStates
  BY <1>1 DEF Loader!ThreadStates
<1>3. loader_th' = [loader_th EXCEPT ![t] = [loader_th[t] EXCEPT !.pc = loc]]
  BY DEF Loader!Goto, Loader!Set
<1>4. loader_th'[t] = [loader_th[t] EXCEPT !.pc = loc]
  BY <1>1, <1>3
<1> QED
  BY <1>1, <1>2, <1>3, <1>4 DEF GoesTo, Loader!ThreadStates

(* A thread goes on with the factory, or with the count, that it has read. *)
GoesFor(t, loc, ptr) ==
  Loader!Set(t, [loader_th[t] EXCEPT !.pc = loc, !.ptr = ptr])
GoesWith(t, loc, count) ==
  Loader!Set(t, [loader_th[t] EXCEPT !.pc = loc, !.count = count])

LEMMA GoingFor ==
  ASSUME Loader!TypeOK, NEW t \in Threads, NEW loc \in Loader!Locations,
         NEW ptr \in Nat,
         GoesFor(t, loc, ptr)
  PROVE  GoesTo(t, loc, loader_th[t].loader, loader_th[t].then)
           /\ loader_th'[t].ptr = ptr
<1>1. loader_th[t] \in Loader!ThreadStates
        /\ loader_th \in [Threads -> Loader!ThreadStates]
  BY DEF Loader!TypeOK
<1>2. [loader_th[t] EXCEPT !.pc = loc, !.ptr = ptr] \in Loader!ThreadStates
  BY <1>1 DEF Loader!ThreadStates
<1>3. loader_th' =
        [loader_th EXCEPT ![t] = [loader_th[t] EXCEPT !.pc = loc, !.ptr = ptr]]
  BY DEF GoesFor, Loader!Set
<1>4. loader_th'[t] = [loader_th[t] EXCEPT !.pc = loc, !.ptr = ptr]
  BY <1>1, <1>3
<1> QED
  BY <1>1, <1>2, <1>3, <1>4 DEF GoesTo, Loader!ThreadStates

LEMMA GoingCounted ==
  ASSUME Loader!TypeOK, NEW t \in Threads, NEW loc \in Loader!Locations,
         NEW count \in Int,
         GoesWith(t, loc, count)
  PROVE  GoesTo(t, loc, loader_th[t].loader, loader_th[t].then)
           /\ loader_th'[t].count = count
<1>1. loader_th[t] \in Loader!ThreadStates
        /\ loader_th \in [Threads -> Loader!ThreadStates]
  BY DEF Loader!TypeOK
<1>2. [loader_th[t] EXCEPT !.pc = loc, !.count = count] \in Loader!ThreadStates
  BY <1>1 DEF Loader!ThreadStates
<1>3. loader_th' = [loader_th EXCEPT ![t] =
                      [loader_th[t] EXCEPT !.pc = loc, !.count = count]]
  BY DEF GoesWith, Loader!Set
<1>4. loader_th'[t] = [loader_th[t] EXCEPT !.pc = loc, !.count = count]
  BY <1>1, <1>3
<1> QED
  BY <1>1, <1>2, <1>3, <1>4 DEF GoesTo, Loader!ThreadStates

LEMMA Idling ==
  ASSUME Loader!TypeOK, NEW t \in Threads,
         Loader!Set(t, [Loader!Idle EXCEPT !.calls = loader_th[t].calls])
  PROVE  GoesTo(t, "idle", NULL, "idle")
<1>1. loader_th[t] \in Loader!ThreadStates
        /\ loader_th \in [Threads -> Loader!ThreadStates]
  BY DEF Loader!TypeOK
<1> DEFINE r == [pc |-> "idle", calls |-> loader_th[t].calls, loader |-> NULL,
                 then |-> "idle", ptr |-> 0, count |-> 0]
<1>2. [Loader!Idle EXCEPT !.calls = loader_th[t].calls] = r
  BY DEF Loader!Idle
<1>3. r \in Loader!ThreadStates
  BY <1>1, LocationsAre DEF Loader!ThreadStates
<1>4. loader_th' = [loader_th EXCEPT ![t] = r] /\ loader_th'[t] = r
  BY <1>1, <1>2 DEF Loader!Set
<1> QED
  BY <1>1, <1>3, <1>4 DEF GoesTo

(* A call ends, or CreateClassObj goes on after the library was loaded.    *)
LEMMA Returning ==
  ASSUME Loader!TypeOK, NEW t \in Threads, Loader!Returns(t)
  PROVE  \/ loader_th[t].then # "find" /\ GoesTo(t, "idle", NULL, "idle")
         \/ loader_th[t].then = "find"
              /\ GoesTo(t, "find", loader_th[t].loader, "idle")
<1>1. loader_th[t] \in Loader!ThreadStates
        /\ loader_th \in [Threads -> Loader!ThreadStates]
  BY DEF Loader!TypeOK
<1>2. CASE loader_th[t].then # "find"
  BY <1>2, Idling DEF Loader!Returns
<1>3. CASE loader_th[t].then = "find"
  <2> DEFINE r == [loader_th[t] EXCEPT !.pc = "find", !.then = "idle"]
  <2>1. loader_th' = [loader_th EXCEPT ![t] = r]
    BY <1>3 DEF Loader!Returns, Loader!Set
  <2>2. r \in Loader!ThreadStates /\ r.pc = "find"
          /\ r.loader = loader_th[t].loader
        /\ r.then = "idle"
    BY <1>1, LocationsAre DEF Loader!ThreadStates
  <2> HIDE DEF r
  <2> QED
    BY <1>1, <1>3, <2>1, <2>2 DEF GoesTo
<1> QED
  BY <1>2, <1>3

LEMMA Beginning ==
  ASSUME Loader!TypeOK, NEW t \in Threads, NEW l \in Loaders,
         NEW loc \in Loader!Locations,
         NEW then \in {"idle", "construct", "find", "delete", "manager"},
         Loader!Begin(t, l, loc, then)
  PROVE  /\ GoesTo(t, loc, l, then)
         /\ overlapped' \in BOOLEAN /\ raced' = raced
         /\ loader_th[t].pc = "idle"
         /\ ~overlapped' =>
              ~overlapped /\ \A u \in Threads : Loader!At(u, "idle")
<1>1. loader_th[t] \in Loader!ThreadStates
        /\ loader_th \in [Threads -> Loader!ThreadStates]
  BY DEF Loader!TypeOK
<1> DEFINE calls == loader_th[t].calls + 1
           r == [Loader!Idle EXCEPT !.pc = loc, !.calls = calls, !.loader = l,
                             !.then = then]
<1>2. calls \in Nat
  BY <1>1 DEF Loader!ThreadStates
<1>3. loader_th' = [loader_th EXCEPT ![t] = r] /\ Loader!At(t, "idle")
  BY DEF Loader!Begin, Loader!Set
<1> HIDE DEF calls
<1>4. r \in Loader!ThreadStates /\ r.pc = loc /\ r.loader = l /\ r.then = then
  BY <1>2, IdleIs DEF Loader!ThreadStates
<1> HIDE DEF r
<1>5. GoesTo(t, loc, l, then)
  BY <1>1, <1>3, <1>4 DEF GoesTo
<1> QED
  BY <1>3, <1>5 DEF Loader!Begin, Loader!At, Loader!TypeOK

(* UnloadLibrary returns: the manager goes on to delete the loader, or the *)
(* loader is freed, or the call ends.                                      *)
LEMMA AfterUnloading ==
  ASSUME Loader!TypeOK, NEW t \in Threads, NEW remain,
         Loader!AfterUnload(t, remain)
  PROVE  LET l == loader_th[t].loader IN
         \/ /\ loader_th[t].then = "manager" /\ remain = 0
            /\ GoesTo(t, "unload", l, "delete") /\ alive' = alive
            /\ ~loader_crashed' /\ loader_crashed' \in BOOLEAN
         \/ /\ loader_th[t].then = "delete" /\ GoesTo(t, "idle", NULL, "idle")
            /\ alive' = alive \ {l} /\ loader_crashed' \in BOOLEAN
            /\ loader_crashed' <=>
                 \E u \in Threads \ {t} : loader_th[u].loader = l
         \/ /\ loader_th[t].then # "delete" /\ GoesTo(t, "idle", NULL, "idle")
            /\ loader_th[t].then = "manager" => remain # 0
            /\ alive' = alive /\ ~loader_crashed' /\ loader_crashed' \in BOOLEAN
<1> DEFINE l == loader_th[t].loader
<1>1. loader_th[t] \in Loader!ThreadStates
        /\ loader_th \in [Threads -> Loader!ThreadStates]
  BY DEF Loader!TypeOK
<1>2. CASE loader_th[t].then = "manager" /\ remain = 0
  <2> DEFINE r == [loader_th[t] EXCEPT !.pc = "unload", !.then = "delete"]
  <2>1. loader_th' = [loader_th EXCEPT ![t] = r] /\ alive' = alive
          /\ loader_crashed' = FALSE
    BY <1>2 DEF Loader!AfterUnload, Loader!Set
  <2>2. /\ r \in Loader!ThreadStates /\ r.pc = "unload" /\ r.loader = l
        /\ r.then = "delete"
    BY <1>1, LocationsAre DEF Loader!ThreadStates
  <2> HIDE DEF r
  <2>3. GoesTo(t, "unload", l, "delete")
    BY <1>1, <2>1, <2>2 DEF GoesTo
  <2> QED
    BY <1>2, <2>1, <2>3
<1>3. CASE ~(loader_th[t].then = "manager" /\ remain = 0)
  <2>1. GoesTo(t, "idle", NULL, "idle")
    BY <1>3, Idling DEF Loader!AfterUnload
  <2>2. CASE loader_th[t].then = "delete"
    BY <2>1, <2>2 DEF Loader!AfterUnload
  <2>3. CASE loader_th[t].then # "delete"
    BY <1>3, <2>1, <2>3 DEF Loader!AfterUnload
  <2> QED
    BY <2>2, <2>3
<1> QED
  BY <1>2, <1>3

LEMMA ClassesInit == Loader!Init => ClassesInv /\ OneByOne
<1> SUFFICES ASSUME Loader!Init PROVE ClassesInv /\ OneByOne
  OBVIOUS
<1> USE LoaderConstants
<1>1. \A t \in Threads : loader_th[t] = Loader!Idle
  BY DEF Loader!Init
<1>2. Loader!TypeOK
  <2>1. loader_th \in [Threads -> Loader!ThreadStates]
    <3>1. loader_th = [t \in Threads |-> Loader!Idle]
      BY DEF Loader!Init
    <3> QED
      BY IdleIs, <3>1
  <2>2. /\ open \in BOOLEAN /\ loader_crashed \in BOOLEAN
        /\ raced \subseteq Loaders /\ overlapped \in BOOLEAN
    BY DEF Loader!Init
  <2>3. /\ loads \in [Loaders -> Nat] /\ objs \in [Loaders -> Int]
        /\ live \in [Loaders -> Nat]
        /\ objLock \in [Loaders -> Threads \cup {NULL}]
    BY DEF Loader!Init
  <2>4. /\ alive \subseteq Loaders /\ factory = NULL /\ factories \in Nat
        /\ openLock = NULL /\ mapped \in Nat /\ failures \in Nat
    BY DEF Loader!Init
  <2> QED
    BY <2>1, <2>2, <2>3, <2>4 DEF Loader!TypeOK
<1>3. Opening
  <2>1. {t \in Threads : Loader!At(t, "emplace")} = {}
    BY <1>1 DEF Loader!At, Loader!Idle
  <2> QED
    BY <1>1, <2>1, FS_EmptySet DEF Loader!Init, Opening, Loader!At, Loader!Idle
<1>4. \A t \in Threads : Working(t) /\ Locking(t)
  BY <1>1
     DEF Loader!Init, Working, Locking, Loader!Idle, InRelease, Loader!InUnload,
         Loader!InLoad, Loader!LoaderAssumption
<1>5. ASSUME NEW l \in Loaders PROVE Kept(l) /\ ObjsCounted(l) /\ Used(l)
  <2>1. Kept(l) /\ Used(l)
    BY <1>1 DEF Loader!Init, Kept, Used, Needed, Makes, Loader!Idle
  <2>2. Counting(l) = {}
    BY <1>1 DEF Counting, Counts, Loader!Idle
  <2> QED
    BY <2>1, <2>2, FS_EmptySet DEF Loader!Init, ObjsCounted
<1>6. Loaded = {}
  BY DEF Loader!Init, Loaded
<1> QED
  BY <1>1, <1>2, <1>3, <1>4, <1>5, <1>6
     DEF ClassesInv, OneByOne, Loader!Init, Quiet, Loader!At, Loader!Idle

-----------------------------------------------------------------------------
(* The thread of a step, and the loader it works on.                       *)
LEMMA WorksOn ==
  ASSUME ClassesInv, ~loader_crashed, NEW t \in Threads
  PROVE  /\ Loader!TypeOK /\ loader_th[t] \in Loader!ThreadStates /\ Working(t)
         /\ Locking(t)
         /\ loader_th[t].pc # "idle" =>
              loader_th[t].loader \in alive /\ loader_th[t].loader \in Loaders
         /\ loader_th[t].pc = "idle" =>
              loader_th[t].loader = NULL /\ loader_th[t].then = "idle"
         /\ NULL \notin Loaders /\ NULL \notin Threads
BY LoaderConstants
   DEF ClassesInv, Loader!TypeOK, Working, Loader!LoaderAssumption,
       Loader!InLoad, Loader!InUnload

(* What is left to show of a step: the rest of the invariant.              *)
Rest ==
  /\ \A t \in Threads : Working(t) /\ Locking(t)
  /\ \A l \in Loaders : Kept(l) /\ ObjsCounted(l) /\ Used(l)

LEMMA Opens ==
  ASSUME ClassesInv, ~loader_crashed, NEW t \in Threads,
         \A u \in Threads : u # t => loader_th'[u] = loader_th[u],
         ~Loader!At(t, "emplace"), ~Loader!At(t, "emplace")',
         open' => open, mapped' = mapped,
         factory' # NULL => factory # NULL,
         \A u \in Threads : Loader!At(u, "append")' => factory' # NULL
  PROVE  Opening'
<1>1. {u \in Threads : Loader!At(u, "emplace")}'
        = {u \in Threads : Loader!At(u, "emplace")}
  BY DEF Loader!At
<1>2. Opening /\ Loader!TypeOK
  BY DEF ClassesInv
<1>3. Cardinality({u \in Threads : Loader!At(u, "emplace")}) \in Nat
  BY ThreadsFinite, FS_Subset, FS_CardinalityType
<1> DEFINE k == Cardinality({u \in Threads : Loader!At(u, "emplace")})
<1>4. k' = k
  BY <1>1
<1>5. k + (IF open THEN 1 ELSE 0) <= mapped
  BY <1>2 DEF Opening
<1> HIDE DEF k
<1>6. k' + (IF open THEN 1 ELSE 0)' <= mapped'
  BY <1>3, <1>4, <1>5, <1>2 DEF k, Loader!TypeOK
<1> QED
  BY <1>2, <1>6 DEF Opening, k

(* A step of a thread moves the sets of those that unload, make or count   *)
(* by that thread.                                                         *)
Unloads(t, l) ==
  /\ loader_th[t].loader = l
  /\ loader_th[t].pc \in Loader!InUnload \/ loader_th[t].then = "delete"

LEMMA UnloadingMoves ==
  ASSUME NEW t \in Threads, NEW loc, NEW m, NEW then, GoesTo(t, loc, m, then),
         NEW l \in Loaders, Unloads(t, l)' <=> Unloads(t, l)
  PROVE  Loader!Unloading(l)' <=> Loader!Unloading(l)
<1>1. \A u \in Threads : Unloads(u, l)' <=> Unloads(u, l)
  BY DEF GoesTo, Unloads
<1> QED
  BY <1>1 DEF Loader!Unloading, Unloads

LEMMA NeededMoves ==
  ASSUME NEW t \in Threads, NEW loc, NEW m, NEW then, GoesTo(t, loc, m, then),
         NEW l \in Loaders, Makes(t, l)' => Makes(t, l), live'[l] = live[l],
         Needed(l)'
  PROVE  Needed(l)
<1>1. \A u \in Threads : Makes(u, l)' => Makes(u, l)
  BY DEF GoesTo, Makes
<1> QED
  BY <1>1 DEF Needed

LEMMA CountingMoves ==
  ASSUME NEW t \in Threads, NEW loc, NEW m, NEW then, GoesTo(t, loc, m, then),
         NEW l \in Loaders
  PROVE  /\ Cardinality(Counting(l)) \in Nat
         /\ Cardinality(Counting(l)') \in Nat
         /\ (Counts(t, l)' <=> Counts(t, l)) =>
              Cardinality(Counting(l)') = Cardinality(Counting(l))
         /\ Counts(t, l)' /\ ~Counts(t, l) =>
              Cardinality(Counting(l)') = Cardinality(Counting(l)) + 1
         /\ ~Counts(t, l)' /\ Counts(t, l) =>
              Cardinality(Counting(l)') = Cardinality(Counting(l)) - 1
<1>1. \A u \in Threads : u # t => (Counts(u, l)' <=> Counts(u, l))
  BY DEF GoesTo, Counts
<1>2. IsFiniteSet(Counting(l)) /\ Cardinality(Counting(l)) \in Nat
  BY ThreadsFinite, FS_Subset, FS_CardinalityType DEF Counting
<1>3. IsFiniteSet(Counting(l)') /\ Cardinality(Counting(l)') \in Nat
  BY ThreadsFinite, FS_Subset, FS_CardinalityType DEF Counting
<1>4. CASE Counts(t, l)' <=> Counts(t, l)
  <2>1. Counting(l)' = Counting(l)
    BY <1>1, <1>4 DEF Counting
  <2> QED
    BY <1>2, <1>3, <1>4, <2>1
<1>5. CASE Counts(t, l)' /\ ~Counts(t, l)
  <2>1. Counting(l)' = Counting(l) \cup {t} /\ t \notin Counting(l)
    BY <1>1, <1>5 DEF Counting
  <2>2. Cardinality(Counting(l) \cup {t}) = Cardinality(Counting(l)) + 1
    BY <1>2, <2>1, FS_AddElement
  <2> QED
    BY <1>2, <1>3, <1>5, <2>1, <2>2
<1>6. CASE ~Counts(t, l)' /\ Counts(t, l)
  <2>1. Counting(l)' = Counting(l) \ {t} /\ t \in Counting(l)
    BY <1>1, <1>6 DEF Counting
  <2>2. Cardinality(Counting(l) \ {t}) = Cardinality(Counting(l)) - 1
    BY <1>2, <2>1, FS_RemoveElement
  <2> QED
    BY <1>2, <1>3, <1>6, <2>1, <2>2
<1> QED
  BY <1>4, <1>5, <1>6

(* The count of a loader that its step leaves alone.                       *)
LEMMA SameCount ==
  ASSUME ClassesInv, ~loader_crashed, NEW t \in Threads, NEW loc, NEW m,
         NEW then, GoesTo(t, loc, m, then),
         NEW l \in Loaders, Counts(t, l)' <=> Counts(t, l),
         Loader!Releases(t, l)' <=> Loader!Releases(t, l),
         objs'[l] = objs[l], live'[l] = live[l], l \in raced => l \in raced',
         \/ objLock'[l] = objLock[l]
         \/ ~Loader!Releases(t, l) /\ {objLock[l], objLock'[l]} = {t, NULL}
  PROVE  ObjsCounted(l)'
<1>1. /\ ObjsCounted(l) /\ objLock[l] \in Threads \cup {NULL}
      /\ NULL \notin Threads
  BY WorksOn DEF ClassesInv, Loader!TypeOK
<1>2. Cardinality(Counting(l)') = Cardinality(Counting(l))
  BY CountingMoves
<1>3. Cardinality(Counting(l))' = Cardinality(Counting(l))
  BY <1>2
<1>4. (objLock[l] # NULL /\ Loader!Releases(objLock[l], l))'
        <=> objLock[l] # NULL /\ Loader!Releases(objLock[l], l)
  <2>1. \A u \in Threads : Loader!Releases(u, l)' <=> Loader!Releases(u, l)
    BY DEF GoesTo, Loader!Releases
  <2>2. CASE objLock'[l] = objLock[l]
    <3>1. CASE objLock[l] = NULL
      BY <2>2, <3>1
    <3>2. CASE objLock[l] \in Threads
      <4>1. PICK u \in Threads : u = objLock[l]
        BY <3>2
      <4>2. Loader!Releases(u, l)' <=> Loader!Releases(u, l)
        BY <2>1
      <4> QED
        BY <2>2, <4>1, <4>2 DEF Loader!Releases
    <3> QED
      BY <1>1, <3>1, <3>2
  <2>3. CASE ~Loader!Releases(t, l) /\ {objLock[l], objLock'[l]} = {t, NULL}
    <3>1. ~Loader!Releases(t, l)'
      BY <2>3
    <3> QED
      BY <1>1, <2>3, <3>1 DEF Loader!Releases
  <2> QED
    BY <2>2, <2>3
<1> QED
  BY <1>1, <1>3, <1>4 DEF ObjsCounted

(* A step that touches one loader only.                                    *)
LEMMA OnlyAt ==
  ASSUME ClassesInv, ~loader_crashed, NEW t \in Threads, NEW l \in Loaders,
         NEW loc, NEW m, NEW then, GoesTo(t, loc, m, then),
         loader_th[t].loader \in {l, NULL}, m \in {l, NULL},
         loc # "idle" => m = l,
         \A k \in Loaders : k # l =>
           /\ loads'[k] = loads[k] /\ objs'[k] = objs[k] /\ live'[k] = live[k]
           /\ objLock'[k] = objLock[k]
           /\ (k \in alive' <=> k \in alive) /\ (k \in raced' <=> k \in raced)
           /\ factory # NULL /\ k \in factory.owners =>
                factory' # NULL /\ k \in factory'.owners,
         l \in alive => l \in alive'
           \/ \A u \in Threads \ {t} : loader_th[u].loader # l,
         objLock'[l] = t <=> loc \in Loader!InUnload \cup InRelease,
         \A u \in Threads : u # t => (objLock'[l] = u <=> objLock[l] = u),
         openLock' = t <=> loc = "close",
         \A u \in Threads : u # t => (openLock' = u <=> openLock = u),
         loc = "close" => open',
         open /\ ~open' => loader_th[t].pc = "close",
         Working(t)', Kept(l)', Used(l)', ObjsCounted(l)'
  PROVE  Rest'
<1>0. /\ Loader!TypeOK /\ Working(t) /\ Locking(t)
      /\ \A u \in Threads : Working(u) /\ Locking(u)
      /\ NULL \notin Loaders /\ NULL \notin Threads
  BY WorksOn DEF ClassesInv
<1>1. ASSUME NEW u \in Threads PROVE Working(u)'
  <2>1. CASE u # t
    <3>1. Working(u) /\ loader_th'[u] = loader_th[u]
      BY <1>0, <2>1 DEF GoesTo
    <3>2. loader_th[u].pc # "idle" => loader_th[u].loader \in alive'
      <4>1. loader_th[u].loader \in Loaders \cup {NULL}
        BY <1>0 DEF Loader!TypeOK, Loader!ThreadStates
      <4>2. alive \subseteq Loaders
        BY <1>0 DEF Loader!TypeOK
      <4> QED
        BY <1>0, <2>1, <3>1, <4>1, <4>2 DEF Working
    <3> QED
      BY <3>1, <3>2 DEF Working
  <2> QED
    BY <2>1
<1>2. ASSUME NEW u \in Threads PROVE Locking(u)'
  <2>1. CASE u = t
    <3>1. \A k \in Loaders : k # l => objLock'[k] # t
      BY <1>0 DEF Locking
    <3> QED
      BY <1>0, <2>1, <3>1
         DEF GoesTo, Locking, InRelease, Loader!InUnload
  <2>2. CASE u # t
    <3>1. Locking(u) /\ loader_th'[u] = loader_th[u]
      BY <1>0, <2>2 DEF GoesTo
    <3>2. \A k \in Loaders : objLock'[k] = u <=> objLock[k] = u
      BY <2>2
    <3>3. loader_th[u].pc = "close" => open'
      <4>1. loader_th[u].pc = "close" => openLock = u /\ open
        BY <3>1 DEF Locking
      <4>2. loader_th[t].pc = "close" => openLock = t
        BY <1>0 DEF Locking
      <4> QED
        BY <2>2, <4>1, <4>2
    <3> QED
      BY <2>2, <3>1, <3>2, <3>3 DEF Locking
  <2> QED
    BY <2>1, <2>2
<1>3. ASSUME NEW k \in Loaders PROVE Kept(k)' /\ Used(k)' /\ ObjsCounted(k)'
  <2>1. CASE k # l
    <3>1. Kept(k) /\ Used(k) /\ ObjsCounted(k)
      BY DEF ClassesInv
    <3>2. loader_th[t].loader # k /\ loader_th'[t].loader # k
      BY <1>0, <2>1 DEF GoesTo
    <3>3. /\ ~Unloads(t, k) /\ ~Unloads(t, k)' /\ ~Makes(t, k) /\ ~Makes(t, k)'
          /\ ~Counts(t, k) /\ ~Counts(t, k)' /\ ~Loader!Releases(t, k)
          /\ ~Loader!Releases(t, k)'
      BY <3>2 DEF Unloads, Makes, Counts, Loader!Releases
    <3>4. Loader!Unloading(k)' <=> Loader!Unloading(k)
      BY <3>3, UnloadingMoves
    <3>5. Needed(k)' => Needed(k)
      BY <2>1, <3>3, NeededMoves
    <3>6. ObjsCounted(k)'
      BY <2>1, <3>3, SameCount
    <3>7. Kept(k)'
      BY <2>1, <3>1, <3>4 DEF Kept
    <3>8. Used(k)'
      BY <2>1, <3>1, <3>4, <3>5 DEF Used
    <3> QED
      BY <3>6, <3>7, <3>8
  <2> QED
    BY <2>1
<1> QED
  BY <1>1, <1>2, <1>3 DEF Rest

(* Where a thread is that loads the library or looks for its factory.      *)
Around == {"idle", "load", "find", "own"} \cup Loader!InLoad

(* Loading the library and looking for its factory leaves the objects and  *)
(* their locks alone, and takes the factory from nobody.                   *)
LEMMA Inside ==
  ASSUME ClassesInv, ~loader_crashed, NEW t \in Threads, NEW loc \in Around,
         NEW m, NEW then,
         loader_th[t].pc \in Around \ {"idle"}, GoesTo(t, loc, m, then),
         IF loc = "idle" THEN m = NULL /\ then = "idle"
                         ELSE m = loader_th[t].loader,
         loc \in {"load", "find", "own"} => then = "idle",
         then \in {"idle", "find", "construct"},
         alive' = alive, objs' = objs, objLock' = objLock,
         live' = live, openLock' = openLock, raced \subseteq raced',
         raced' \subseteq raced \cup {loader_th[t].loader},
         \/ loads' = loads
         \/ loads' = [loads EXCEPT ![loader_th[t].loader] = @ + 1],
         open => open',
         factory # NULL =>
           factory' # NULL /\ factory.owners \subseteq factory'.owners
  PROVE  Rest'
<1> USE DEF Around, Loader!InLoad, Loader!InUnload, InRelease
<1>1. PICK l \in Loaders : l = loader_th[t].loader
  BY WorksOn
<1>2. /\ Loader!TypeOK /\ Working(t) /\ Locking(t) /\ l \in alive
      /\ Kept(l) /\ Used(l) /\ loads \in [Loaders -> Nat]
      /\ NULL \notin Loaders /\ NULL \notin Threads
  BY <1>1, WorksOn DEF ClassesInv, Loader!TypeOK
<1>3. Working(t)'
  BY <1>1, <1>2 DEF GoesTo, Working
<1>4. /\ ~Unloads(t, l) /\ ~Unloads(t, l)' /\ ~Makes(t, l)'
      /\ ~Counts(t, l) /\ ~Counts(t, l)'
      /\ ~Loader!Releases(t, l) /\ ~Loader!Releases(t, l)'
  BY <1>2 DEF GoesTo, Unloads, Makes, Counts, Loader!Releases, Working
<1>5. Loader!Unloading(l)' <=> Loader!Unloading(l)
  BY <1>4, UnloadingMoves
<1>6. Needed(l)' => Needed(l)
  BY <1>4, NeededMoves
<1>a. loads'[l] >= loads[l] /\ \A k \in Loaders : k # l => loads'[k] = loads[k]
  BY <1>1, <1>2
<1>7. Kept(l)'
  BY <1>1, <1>2, <1>5, <1>a DEF Kept
<1>8. Used(l)'
  BY <1>2, <1>5, <1>6 DEF Used
<1>9. ObjsCounted(l)'
  BY <1>4, SameCount
<1>10. objLock'[l] # t /\ openLock' # t
  BY <1>1, <1>2 DEF Locking
<1> QED
  BY <1>1, <1>2, <1>3, <1>7, <1>8, <1>9, <1>10, <1>a, OnlyAt

LEMMA CheckLoadedInv ==
  ASSUME ClassesInv, ~loader_crashed, NEW t \in Threads, Loader!CheckLoaded(t)
  PROVE  ClassesInv'
<1>1. Loader!TypeOK /\ Working(t) /\ loader_th[t].pc = "check"
  BY WorksOn DEF Loader!CheckLoaded, Loader!At
<1>2. PICK loc \in {"list", "dlopen"} :
        GoesTo(t, loc, loader_th[t].loader, loader_th[t].then)
  BY <1>1, Going, LocationsAre DEF Loader!CheckLoaded
<1>3. UNCHANGED <<alive, loads, objs, objLock, live, factory, factories, open,
                  openLock, mapped, failures, loader_crashed, raced,
                  overlapped>>
  BY DEF Loader!CheckLoaded, Loader!counts, Loader!global, Loader!history
<1>4. Loader!TypeOK'
  BY <1>1, <1>2, <1>3 DEF Loader!TypeOK, GoesTo
<1>5. Opening'
  BY <1>1, <1>2, <1>3, Opens DEF GoesTo, Loader!At, ClassesInv, Opening
<1>6. Rest'
  BY <1>1, <1>2, <1>3, Inside DEF Around, Loader!InLoad, Working
<1> QED
  BY <1>4, <1>5, <1>6 DEF ClassesInv, Rest

LEMMA ListFactoriesInv ==
  ASSUME ClassesInv, ~loader_crashed, NEW t \in Threads,
         Loader!ListFactories(t)
  PROVE  ClassesInv'
<1>1. Loader!TypeOK /\ Working(t) /\ loader_th[t].pc = "list"
  BY WorksOn DEF Loader!ListFactories, Loader!At
<1>2. loader_th[t].then \in {"idle", "find", "construct"}
  BY <1>1 DEF Working, Loader!InLoad
<1>3. \/ GoesTo(t, "idle", NULL, "idle")
      \/ GoesTo(t, "find", loader_th[t].loader, "idle")
      \/ GoesTo(t, "attach", loader_th[t].loader, loader_th[t].then)
           /\ factory # NULL
  <2>1. CASE factory = NULL
    BY <1>1, <1>2, <2>1, Returning DEF Loader!ListFactories
  <2>2. CASE factory # NULL
    <3>1. factory.no \in Nat
      BY <1>1, <2>2 DEF Loader!TypeOK, Loader!Factories
    <3>2. GoesFor(t, "attach", factory.no)
      BY <2>2 DEF Loader!ListFactories, GoesFor
    <3>3. "attach" \in Loader!Locations
      BY DEF Loader!Locations, Loader!InLoad
    <3> QED
      BY <1>1, <2>2, <3>1, <3>2, <3>3, GoingFor
  <2> QED
    BY <2>1, <2>2
<1>4. UNCHANGED <<alive, loads, objs, objLock, live, factory, factories, open,
                  openLock, mapped, failures, loader_crashed, raced,
                  overlapped>>
  BY DEF Loader!ListFactories, Loader!counts, Loader!global, Loader!history
<1>5. Loader!TypeOK'
  BY <1>1, <1>3, <1>4 DEF Loader!TypeOK, GoesTo
<1>6. Opening'
  BY <1>1, <1>3, <1>4, Opens DEF GoesTo, Loader!At, ClassesInv, Opening
<1>7. Rest'
  BY <1>1, <1>2, <1>3, <1>4, Inside DEF Around, Loader!InLoad
<1> QED
  BY <1>5, <1>6, <1>7 DEF ClassesInv, Rest

LEMMA AttachInv ==
  ASSUME ClassesInv, ~loader_crashed, NEW t \in Threads, Loader!Attach(t)
  PROVE  ClassesInv'
<1>1. Loader!TypeOK /\ Working(t) /\ loader_th[t].pc = "attach"
  BY WorksOn DEF Loader!Attach, Loader!At
<1>2. loader_th[t].then \in {"idle", "find", "construct"}
        /\ GoesTo(t, "append", loader_th[t].loader, loader_th[t].then)
  BY <1>1, Going, LocationsAre DEF Loader!Attach, Working, Loader!InLoad
<1>3. /\ UNCHANGED <<alive, loads, objs, objLock, live, factory, factories,
                     open, openLock, mapped, failures, raced, overlapped>>
      /\ loader_crashed' \in BOOLEAN /\ (~loader_crashed' => factory # NULL)
  BY DEF Loader!Attach, Loader!counts, Loader!global, Loader!history,
     Loader!IsFreed
<1>4. Loader!TypeOK'
  BY <1>1, <1>2, <1>3 DEF Loader!TypeOK, GoesTo
<1>5. ~loader_crashed' => Opening'
  BY <1>1, <1>2, <1>3, Opens DEF GoesTo, Loader!At, ClassesInv, Opening
<1>6. Rest'
  BY <1>1, <1>2, <1>3, Inside DEF Around, Loader!InLoad
<1> QED
  BY <1>4, <1>5, <1>6 DEF ClassesInv, Rest

LEMMA AppendInv ==
  ASSUME ClassesInv, ~loader_crashed, NEW t \in Threads, Loader!Append(t)
  PROVE  ClassesInv'
<1>1. /\ Loader!TypeOK /\ Working(t) /\ loader_th[t].pc = "append"
      /\ loader_th[t].loader \in Loaders
      /\ Opening /\ factory # NULL
  BY WorksOn DEF Loader!Append, Loader!At, ClassesInv, Opening
<1>2. loader_th[t].then \in {"idle", "find", "construct"}
  BY <1>1 DEF Working, Loader!InLoad
<1>3. \/ GoesTo(t, "idle", NULL, "idle")
      \/ GoesTo(t, "find", loader_th[t].loader, "idle")
  BY <1>1, <1>2, Returning DEF Loader!Append
<1>4. UNCHANGED <<alive, loads, objs, objLock, live, factories, open, openLock,
                  mapped, failures, loader_crashed, raced, overlapped>>
  BY DEF Loader!Append, Loader!counts, Loader!history
<1>5. factory' \in Loader!Factories /\ factory.owners \subseteq factory'.owners
  <2>1. factory \in Loader!Factories
    BY <1>1 DEF Loader!TypeOK
  <2>2. factory' = [factory EXCEPT !.owners =
                      factory.owners \cup {loader_th[t].loader}]
    BY DEF Loader!Append
  <2> QED
    BY <1>1, <2>1, <2>2 DEF Loader!Factories
<1>6. factory' # NULL
  BY <1>5, LoaderConstants DEF Loader!LoaderAssumption
<1>7. Loader!TypeOK'
  BY <1>1, <1>3, <1>4, <1>5 DEF Loader!TypeOK, GoesTo
<1>8. Opening'
  BY <1>1, <1>3, <1>4, <1>6, Opens DEF GoesTo, Loader!At
<1>9. Rest'
  BY <1>1, <1>2, <1>3, <1>4, <1>5, <1>6, Inside DEF Around, Loader!InLoad
<1> QED
  BY <1>7, <1>8, <1>9 DEF ClassesInv, Rest

LEMMA DlOpenInv ==
  ASSUME ClassesInv, ~loader_crashed, NEW t \in Threads, Loader!DlOpen(t)
  PROVE  ClassesInv'
<1>1. /\ Loader!TypeOK /\ Working(t) /\ loader_th[t].pc = "dlopen"
      /\ loader_th[t].loader \in Loaders
      /\ Opening
  BY WorksOn DEF Loader!DlOpen, Loader!At, ClassesInv
<1>2. loader_th[t].then \in {"idle", "find", "construct"}
        /\ GoesTo(t, "emplace", loader_th[t].loader, loader_th[t].then)
  BY <1>1, Going, LocationsAre DEF Loader!DlOpen, Working, Loader!InLoad
<1>3. /\ UNCHANGED <<alive, loads, objs, objLock, live, open, openLock,
                     failures, loader_crashed, raced, overlapped>>
      /\ mapped' = mapped + 1 /\ mapped \in Nat
  BY <1>1 DEF Loader!DlOpen, Loader!counts, Loader!history, Loader!TypeOK
<1>4. /\ factory' \in Loader!Factories \cup {NULL} /\ factories' \in Nat
      /\ factory # NULL => factory' = factory
  <2>1. CASE mapped = 0
    <3>1. factory = NULL
      BY <1>1, <2>1 DEF Opening
    <3>2. factory' = [no |-> factories + 1, owners |-> {loader_th[t].loader}]
          /\ factories' = factories + 1
      BY <2>1 DEF Loader!DlOpen, Loader!RegisterClass
    <3> QED
      BY <1>1, <3>1, <3>2 DEF Loader!TypeOK, Loader!Factories
  <2>2. CASE mapped # 0
    BY <1>1, <2>2 DEF Loader!DlOpen, Loader!TypeOK
  <2> QED
    BY <2>1, <2>2
<1>5. Loader!TypeOK'
  BY <1>1, <1>2, <1>3, <1>4 DEF Loader!TypeOK, GoesTo
<1>6. Opening'
  <2> DEFINE E == {u \in Threads : Loader!At(u, "emplace")}
             k == Cardinality(E)
  <2>1. E' = E \cup {t} /\ t \notin E
    BY <1>1, <1>2 DEF GoesTo, Loader!At
  <2>2. IsFiniteSet(E)
    BY ThreadsFinite, FS_Subset
  <2>3. k \in Nat /\ Cardinality(E \cup {t}) = k + 1
    BY <2>1, <2>2, FS_AddElement, FS_CardinalityType
  <2>4. k' = k + 1
    BY <2>1, <2>3
  <2>5. k + (IF open THEN 1 ELSE 0) <= mapped
    BY <1>1 DEF Opening
  <2> HIDE DEF k
  <2>6. k' + (IF open THEN 1 ELSE 0)' <= mapped'
    BY <1>1, <1>3, <2>3, <2>4, <2>5 DEF Loader!TypeOK
  <2>7. factory' # NULL => mapped' > 0
    BY <1>3
  <2>8. \A u \in Threads : Loader!At(u, "append")' => factory' # NULL
    BY <1>1, <1>2, <1>4 DEF Opening, GoesTo, Loader!At
  <2> QED
    BY <2>6, <2>7, <2>8 DEF Opening, k
<1>7. Rest'
  BY <1>1, <1>2, <1>3, <1>4, Inside DEF Around, Loader!InLoad
<1> QED
  BY <1>5, <1>6, <1>7 DEF ClassesInv, Rest

LEMMA DlOpenFailsInv ==
  ASSUME ClassesInv, ~loader_crashed, NEW t \in Threads, Loader!DlOpenFails(t)
  PROVE  ClassesInv'
<1>1. Loader!TypeOK /\ Working(t) /\ loader_th[t].pc = "dlopen" /\ Opening
  BY WorksOn DEF Loader!DlOpenFails, Loader!At, ClassesInv
<1>2. loader_th[t].then \in {"idle", "find", "construct"}
  BY <1>1 DEF Working, Loader!InLoad
<1>3. \/ GoesTo(t, "idle", NULL, "idle")
      \/ GoesTo(t, "find", loader_th[t].loader, "idle")
  BY <1>1, <1>2, Returning DEF Loader!DlOpenFails
<1>4. /\ UNCHANGED <<alive, loads, objs, objLock, live, factory, factories,
                     open, openLock, mapped, loader_crashed, raced,
                     overlapped>>
      /\ failures' \in Nat
  BY <1>1
     DEF Loader!DlOpenFails, Loader!counts, Loader!global, Loader!history,
         Loader!TypeOK
<1>5. Loader!TypeOK'
  BY <1>1, <1>3, <1>4 DEF Loader!TypeOK, GoesTo
<1>6. Opening'
  BY <1>1, <1>3, <1>4, Opens DEF GoesTo, Loader!At, Opening
<1>7. Rest'
  BY <1>1, <1>2, <1>3, <1>4, Inside DEF Around, Loader!InLoad
<1> QED
  BY <1>5, <1>6, <1>7 DEF ClassesInv, Rest

LEMMA EmplaceInv ==
  ASSUME ClassesInv, ~loader_crashed, NEW t \in Threads, Loader!Emplace(t)
  PROVE  ClassesInv'
<1>1. Loader!TypeOK /\ Working(t) /\ loader_th[t].pc = "emplace" /\ Opening
  BY WorksOn DEF Loader!Emplace, Loader!At, ClassesInv
<1>2. loader_th[t].then \in {"idle", "find", "construct"}
  BY <1>1 DEF Working, Loader!InLoad
<1>3. \/ GoesTo(t, "idle", NULL, "idle")
      \/ GoesTo(t, "find", loader_th[t].loader, "idle")
  BY <1>1, <1>2, Returning DEF Loader!Emplace
<1>4. /\ UNCHANGED <<alive, loads, objs, objLock, live, factory, factories,
                     openLock, mapped, failures, loader_crashed, raced,
                     overlapped>>
      /\ open' = TRUE
  BY DEF Loader!Emplace, Loader!counts, Loader!history
<1>5. Loader!TypeOK'
  BY <1>1, <1>3, <1>4 DEF Loader!TypeOK, GoesTo
<1>6. Opening'
  <2> DEFINE E == {u \in Threads : Loader!At(u, "emplace")}
             k == Cardinality(E)
  <2>1. E' = E \ {t} /\ t \in E
    BY <1>1, <1>3 DEF GoesTo, Loader!At
  <2>2. IsFiniteSet(E)
    BY ThreadsFinite, FS_Subset
  <2>3. k \in Nat /\ Cardinality(E \ {t}) = k - 1
    BY <2>1, <2>2, FS_RemoveElement, FS_CardinalityType
  <2>4. k' = k - 1
    BY <2>1, <2>3
  <2>5. k + (IF open THEN 1 ELSE 0) <= mapped
    BY <1>1 DEF Opening
  <2> HIDE DEF k
  <2>6. k' + (IF open THEN 1 ELSE 0)' <= mapped'
    BY <1>1, <1>4, <2>3, <2>4, <2>5 DEF Loader!TypeOK
  <2>7. \A u \in Threads : Loader!At(u, "append")' => factory' # NULL
    BY <1>1, <1>3, <1>4 DEF Opening, GoesTo, Loader!At
  <2> QED
    BY <1>1, <1>4, <2>6, <2>7 DEF Opening, k
<1>7. Rest'
  BY <1>1, <1>2, <1>3, <1>4, Inside DEF Around, Loader!InLoad
<1> QED
  BY <1>5, <1>6, <1>7 DEF ClassesInv, Rest

LEMMA FindInv ==
  ASSUME ClassesInv, ~loader_crashed, NEW t \in Threads, Loader!Find(t)
  PROVE  ClassesInv'
<1>1. Loader!TypeOK /\ Working(t) /\ loader_th[t].pc = "find" /\ Opening
  BY WorksOn DEF Loader!Find, Loader!At, ClassesInv
<1>2. loader_th[t].then = "idle"
  BY <1>1 DEF Working, Loader!InLoad, Loader!InUnload
<1>3. \/ GoesTo(t, "idle", NULL, "idle")
      \/ GoesTo(t, "own", loader_th[t].loader, loader_th[t].then)
  <2>1. CASE factory = NULL
    BY <1>1, <1>2, <2>1, Returning DEF Loader!Find
  <2>2. CASE factory # NULL
    <3>1. factory.no \in Nat
      BY <1>1, <2>2 DEF Loader!TypeOK, Loader!Factories
    <3>2. GoesFor(t, "own", factory.no)
      BY <2>2 DEF Loader!Find, GoesFor
    <3>3. "own" \in Loader!Locations
      BY DEF Loader!Locations, Loader!InLoad
    <3> QED
      BY <1>1, <2>2, <3>1, <3>2, <3>3, GoingFor
  <2> QED
    BY <2>1, <2>2
<1>4. UNCHANGED <<alive, loads, objs, objLock, live, factory, factories, open,
                  openLock, mapped, failures, loader_crashed, raced,
                  overlapped>>
  BY DEF Loader!Find, Loader!counts, Loader!global, Loader!history
<1>5. Loader!TypeOK'
  BY <1>1, <1>3, <1>4 DEF Loader!TypeOK, GoesTo
<1>6. Opening'
  BY <1>1, <1>3, <1>4, Opens DEF GoesTo, Loader!At, Opening
<1>7. Rest'
  BY <1>1, <1>2, <1>3, <1>4, Inside DEF Around, Loader!InLoad
<1> QED
  BY <1>5, <1>6, <1>7 DEF ClassesInv, Rest

LEMMA CountLoadInv ==
  ASSUME ClassesInv, ~loader_crashed, NEW t \in Threads, Loader!CountLoad(t)
  PROVE  ClassesInv'
<1>1. /\ Loader!TypeOK /\ Working(t) /\ loader_th[t].pc = "load" /\ Opening
      /\ loads \in [Loaders -> Nat] /\ loader_th[t].loader \in Loaders
  BY WorksOn DEF Loader!CountLoad, Loader!At, ClassesInv, Loader!TypeOK
<1>2. loader_th[t].then \in {"idle", "find", "construct"}
        /\ GoesTo(t, "check", loader_th[t].loader, loader_th[t].then)
  BY <1>1, Going, LocationsAre DEF Loader!CountLoad, Working
<1>3. /\ UNCHANGED <<alive, objs, objLock, live, factory, factories, open,
                     openLock, mapped, failures, loader_crashed, raced,
                     overlapped>>
      /\ loads' = [loads EXCEPT ![loader_th[t].loader] = @ + 1]
  BY DEF Loader!CountLoad, Loader!global, Loader!history
<1>4. Loader!TypeOK'
  <2>1. loads' \in [Loaders -> Nat]
    BY <1>1, <1>3
  <2> QED
    BY <1>1, <1>2, <1>3, <2>1 DEF Loader!TypeOK, GoesTo
<1>5. Opening'
  BY <1>1, <1>2, <1>3, Opens DEF GoesTo, Loader!At, Opening
<1>6. Rest'
  BY <1>1, <1>2, <1>3, Inside DEF Around, Loader!InLoad
<1> QED
  BY <1>4, <1>5, <1>6 DEF ClassesInv, Rest

(* IsOwnedBy finds the loader among the owners, or CreateClassObj returns. *)
LEMMA OwnInv ==
  ASSUME ClassesInv, ~loader_crashed, NEW t \in Threads, Loader!Own(t)
  PROVE  ClassesInv'
<1>1. PICK l \in Loaders : l = loader_th[t].loader
  BY WorksOn DEF Loader!Own, Loader!At
<1>2. /\ Loader!TypeOK /\ Working(t) /\ Locking(t) /\ loader_th[t].pc = "own"
      /\ Opening /\ loader_th[t].then = "idle" /\ l \in alive
      /\ Kept(l) /\ Used(l) /\ NULL \notin Loaders
      /\ objLock[l] # t /\ openLock # t /\ raced \subseteq Loaders
  BY <1>1, WorksOn
     DEF Loader!Own, Loader!At, ClassesInv, Working, Locking, Loader!InLoad,
         Loader!InUnload, InRelease, Loader!TypeOK
<1> DEFINE owned == ~Loader!IsFreed(loader_th[t].ptr) /\ Loader!IsOwnedBy(l)
<1>3. /\ UNCHANGED <<alive, loads, objs, objLock, live, factory, factories,
                     open, openLock, mapped, failures, overlapped>>
      /\ loader_crashed' \in BOOLEAN
      /\ raced' = IF owned /\ Loader!Unloading(l) THEN raced \cup {l} ELSE raced
  BY <1>1, <1>2
     DEF Loader!Own, Loader!counts, Loader!global, Loader!IsFreed,
         Loader!Appending
<1>4. owned \/ GoesTo(t, "idle", NULL, "idle")
  BY <1>1, <1>2, Returning DEF Loader!Own
<1>5. owned => GoesTo(t, "make", l, "idle")
  BY <1>1, <1>2, Going, LocationsAre DEF Loader!Own
<1>6. owned => factory # NULL /\ l \in factory.owners
  BY DEF Loader!IsFreed, Loader!IsOwnedBy
<1> HIDE DEF owned
<1>7. Loader!TypeOK'
  BY <1>2, <1>3, <1>4, <1>5 DEF Loader!TypeOK, GoesTo
<1>8. Opening'
  BY <1>2, <1>3, <1>4, <1>5, Opens DEF GoesTo, Loader!At, Opening
<1>9. CASE owned
  <2>1. GoesTo(t, "make", l, "idle")
    BY <1>5, <1>9
  <2>2. /\ ~Unloads(t, l) /\ ~Unloads(t, l)' /\ ~Counts(t, l) /\ ~Counts(t, l)'
        /\ ~Loader!Releases(t, l) /\ ~Loader!Releases(t, l)'
    BY <1>2, <2>1
       DEF GoesTo, Unloads, Counts, Loader!Releases, Loader!InUnload
  <2>3. Loader!Unloading(l)' <=> Loader!Unloading(l)
    BY <2>1, <2>2, UnloadingMoves
  <2>4. Kept(l)'
    BY <1>2, <1>3, <2>3 DEF Kept
  <2>5. Used(l)'
    BY <1>2, <1>3, <1>6, <1>9, <2>3 DEF Used
  <2>6. ObjsCounted(l)'
    BY <1>3, <2>1, <2>2, SameCount
  <2>7. Working(t)'
    BY <1>2, <1>3, <2>1 DEF GoesTo, Working, Loader!InLoad, Loader!InUnload
  <2>8. Rest'
    BY <1>1, <1>2, <1>3, <2>1, <2>4, <2>5, <2>6, <2>7, OnlyAt
       DEF Loader!InUnload, InRelease
  <2> QED
    BY <1>7, <1>8, <2>8 DEF ClassesInv, Rest
<1>10. CASE ~owned
  <2>1. Rest'
    BY <1>1, <1>2, <1>3, <1>4, <1>10, Inside DEF Around, Loader!InLoad
  <2> QED
    BY <1>7, <1>8, <2>1 DEF ClassesInv, Rest
<1> QED
  BY <1>9, <1>10

-----------------------------------------------------------------------------
(* Nobody counts, makes or releases an object of a loader that is about to *)
(* unload the library, unless it is raced.                                 *)
LEMMA Unneeded ==
  ASSUME ClassesInv, ~loader_crashed, NEW l \in Loaders, l \notin raced,
         objLock[l] = NULL, ~Loader!InUse(l), ~Loader!Making(l)
  PROVE  ~Needed(l)
<1>1. Counting(l) = {} /\ \A u \in Threads : ~Makes(u, l)
  BY DEF Loader!Making, Counting, Counts, Makes
<1>2. ObjsCounted(l) /\ objs[l] \in Int /\ live[l] \in Nat
  BY DEF ClassesInv, Loader!TypeOK
<1>3. objs[l] = live[l]
  BY <1>1, <1>2, FS_EmptySet DEF ObjsCounted
<1> QED
  BY <1>1, <1>2, <1>3 DEF Needed, Loader!InUse

(* UnloadLibrary returns to its caller, from the test of the count or from *)
(* utility::UnloadLibrary.                                                 *)
LEMMA Leaves ==
  ASSUME ClassesInv, ~loader_crashed, ~loader_crashed', NEW t \in Threads,
         NEW l \in Loaders, loader_th[t].loader = l, NEW remain \in Nat,
         loader_th[t].pc \in {"unload", "unloaded"},
         Loader!AfterUnload(t, remain), loads' \in [Loaders -> Nat],
         loads'[l] = remain \/ remain = 0,
         \A k \in Loaders : k # l => loads'[k] = loads[k],
         IF loader_th[t].pc = "unload" THEN objLock' = objLock
         ELSE objLock' = [objLock EXCEPT ![l] = NULL],
         raced \subseteq raced', raced' \subseteq raced \cup {l},
         loader_th[t].then = "manager" /\ remain = 0 /\ l \notin raced' =>
           ~Needed(l),
         objs' = objs, live' = live, openLock' = openLock, open' = open,
         factory' = factory
  PROVE  Rest'
<1> USE DEF Loader!InUnload, InRelease
<1>1. /\ Loader!TypeOK /\ Working(t) /\ Locking(t) /\ l \in alive
      /\ Kept(l) /\ Used(l) /\ NULL \notin Loaders /\ NULL \notin Threads
      /\ objLock \in [Loaders -> Threads \cup {NULL}] /\ openLock # t
  BY WorksOn DEF ClassesInv, Loader!TypeOK, Locking
<1>2. PICK loc \in {"idle", "unload"}, m \in {l, NULL},
           then \in {"idle", "delete"} :
        /\ GoesTo(t, loc, m, then)
        /\ \/ /\ loader_th[t].then = "manager" /\ remain = 0 /\ loc = "unload"
              /\ m = l /\ then = "delete" /\ alive' = alive
           \/ /\ loader_th[t].then = "delete" /\ loc = "idle" /\ m = NULL
              /\ then = "idle" /\ alive' = alive \ {l}
              /\ \A u \in Threads \ {t} : loader_th[u].loader # l
           \/ /\ loader_th[t].then # "delete" /\ loc = "idle" /\ m = NULL
              /\ then = "idle" /\ alive' = alive
              /\ loader_th[t].then = "manager" => remain # 0
  BY <1>1, AfterUnloading
<1>3. Working(t)'
  BY <1>1, <1>2 DEF GoesTo, Working, Loader!InLoad
<1>4. /\ ~Makes(t, l)' /\ ~Counts(t, l) /\ ~Counts(t, l)'
      /\ ~Loader!Releases(t, l) /\ ~Loader!Releases(t, l)'
  BY <1>2 DEF GoesTo, Makes, Counts, Loader!Releases
<1>5. Needed(l)' => Needed(l)
  BY <1>2, <1>4, NeededMoves
<1>6. Unloads(t, l) \/ then = "delete" => ~Needed(l) \/ l \in raced'
  <2>1. Unloads(t, l) => Loader!Unloading(l)
    BY DEF Unloads, Loader!Unloading
  <2> QED
    BY <1>1, <1>2, <2>1 DEF Used
<1>7. Used(l)'
  <2>1. CASE Unloads(t, l) \/ then = "delete"
    BY <1>5, <1>6, <2>1 DEF Used
  <2>2. CASE ~Unloads(t, l) /\ then # "delete"
    <3>1. ~Unloads(t, l)'
      BY <1>1, <1>2, <2>2 DEF GoesTo, Unloads
    <3>2. Loader!Unloading(l)' <=> Loader!Unloading(l)
      BY <1>2, <2>2, <3>1, UnloadingMoves
    <3>3. alive' = alive
      BY <1>2, <2>2 DEF Unloads
    <3> QED
      BY <1>1, <1>5, <3>2, <3>3 DEF Used
  <2> QED
    BY <2>1, <2>2
<1>8. Kept(l)'
  <2>1. CASE then = "delete"
    <3>1. Unloads(t, l)'
      BY <1>2, <2>1 DEF GoesTo, Unloads
    <3> QED
      BY <3>1 DEF Kept, Unloads, Loader!Unloading
  <2>2. CASE then # "delete"
    <3>1. l \in alive' \cap Managed => remain > 0 /\ loads'[l] = remain
      BY <1>1, <1>2, <2>2 DEF Working
    <3> QED
      BY <3>1 DEF Kept
  <2> QED
    BY <2>1, <2>2
<1>9. objLock'[l] = objLock[l] \/ {objLock[l], objLock'[l]} = {t, NULL}
  BY <1>1 DEF Locking
<1>10. ObjsCounted(l)'
  BY <1>2, <1>4, <1>9, SameCount
<1>11. /\ \A k \in Loaders : k # l => objLock'[k] = objLock[k]
       /\ objLock'[l] # t
       /\ \A u \in Threads : u # t => (objLock'[l] = u <=> objLock[l] = u)
  BY <1>1 DEF Locking
<1> QED
  BY <1>1, <1>2, <1>3, <1>7, <1>8, <1>10, <1>11, OnlyAt

LEMMA CountUnloadInv ==
  ASSUME ClassesInv, ~loader_crashed, NEW t \in Threads, Loader!CountUnload(t)
  PROVE  ClassesInv'
<1>1. PICK l \in Loaders : l = loader_th[t].loader
  BY WorksOn DEF Loader!CountUnload, Loader!At
<1> DEFINE remain == IF Loader!InUse(l) THEN loads[l]
                     ELSE IF loads[l] = 0 THEN 0 ELSE loads[l] - 1
<1>2. /\ Loader!TypeOK /\ Working(t) /\ Locking(t) /\ loader_th[t].pc = "unload"
      /\ objLock[l] = NULL /\ Opening /\ Kept(l) /\ Used(l) /\ l \in alive
      /\ loads \in [Loaders -> Nat] /\ raced \subseteq Loaders
      /\ objLock \in [Loaders -> Threads \cup {NULL}] /\ openLock # t
      /\ NULL \notin Loaders /\ NULL \notin Threads
  BY <1>1, WorksOn
     DEF Loader!CountUnload, Loader!At, ClassesInv, Loader!TypeOK, Locking
<1>3. /\ UNCHANGED <<objs, live, factory, factories, open, openLock, mapped,
                     failures, overlapped>>
      /\ loads' = [loads EXCEPT ![l] = remain]
      /\ raced' = IF ~Loader!InUse(l) /\ remain = 0 /\ Loader!Making(l)
                  THEN raced \cup {l} ELSE raced
  BY <1>1 DEF Loader!CountUnload, Loader!global
<1>4. /\ remain \in Nat /\ loads' \in [Loaders -> Nat] /\ loads'[l] = remain
      /\ \A k \in Loaders : k # l => loads'[k] = loads[k]
  BY <1>2, <1>3
<1>5. ~Loader!InUse(l) /\ remain = 0 /\ l \notin raced' => ~Needed(l)
  BY <1>2, <1>3, Unneeded
<1>6. CASE Loader!InUse(l) \/ loads[l] # 1
  <2>1. Loader!AfterUnload(t, remain) /\ objLock' = objLock
    BY <1>1, <1>6 DEF Loader!CountUnload
  <2>2. Loader!InUse(l) /\ l \in Managed /\ remain = 0 =>
          ~Needed(l) \/ l \in raced'
    BY <1>2, <1>3 DEF Kept, Used
  <2>3. loader_th[t].then = "manager" => l \in Managed
    BY <1>1, <1>2 DEF Working
  <2> HIDE DEF remain
  <2>4. /\ Loader!TypeOK' /\ Opening'
    <3>1. PICK loc \in {"idle", "unload"}, m \in {l, NULL},
               then \in {"idle", "delete"} :
            GoesTo(t, loc, m, then) /\ alive' \subseteq alive
              /\ loader_crashed' \in BOOLEAN
      BY <1>1, <1>2, <2>1, AfterUnloading
    <3>2. Loader!TypeOK'
      BY <1>2, <1>3, <1>4, <2>1, <3>1 DEF Loader!TypeOK, GoesTo
    <3>3. Opening'
      BY <1>2, <1>3, <3>1, Opens DEF GoesTo, Loader!At, Opening
    <3> QED
      BY <3>2, <3>3
  <2>5. ~loader_crashed' => Rest'
    BY <1>1, <1>2, <1>3, <1>4, <1>5, <2>1, <2>2, <2>3, Leaves
  <2> QED
    BY <2>4, <2>5 DEF ClassesInv, Rest
<1>7. CASE ~Loader!InUse(l) /\ loads[l] = 1
  <2>1. /\ objLock' = [objLock EXCEPT ![l] = t] /\ remain = 0
        /\ Loader!Goto(t, "destroy") /\ UNCHANGED <<alive, loader_crashed>>
    BY <1>1, <1>7 DEF Loader!CountUnload
  <2> HIDE DEF remain
  <2>2. GoesTo(t, "destroy", l, loader_th[t].then)
    BY <1>1, <1>2, <2>1, Going, LocationsAre
  <2>3. Loader!TypeOK'
    BY <1>2, <1>3, <1>4, <2>1, <2>2 DEF Loader!TypeOK, GoesTo
  <2>4. Opening'
    BY <1>2, <1>3, <2>1, <2>2, Opens DEF GoesTo, Loader!At, Opening
  <2>5. /\ Unloads(t, l)' /\ ~Makes(t, l)' /\ ~Counts(t, l) /\ ~Counts(t, l)'
        /\ ~Loader!Releases(t, l) /\ ~Loader!Releases(t, l)'
    BY <1>2, <2>2
       DEF GoesTo, Unloads, Makes, Counts, Loader!Releases, Loader!InUnload
  <2>6. Kept(l)'
    BY <2>5 DEF Kept, Unloads, Loader!Unloading
  <2>7. Needed(l)' => Needed(l)
    BY <1>3, <2>2, <2>5, NeededMoves
  <2>8. Used(l)'
    BY <1>5, <1>7, <2>1, <2>7 DEF Used
  <2>9. /\ objLock'[l] = t /\ objLock[l] = NULL
        /\ \A k \in Loaders : k # l => objLock'[k] = objLock[k]
    BY <1>2, <2>1
  <2>10. ObjsCounted(l)'
    BY <1>3, <2>2, <2>5, <2>9, SameCount
  <2>11. Working(t)'
    BY <1>1, <1>2, <2>1, <2>2
       DEF GoesTo, Working, Loader!InLoad, Loader!InUnload
  <2>12. Rest'
    BY <1>1, <1>2, <1>3, <1>4, <2>1, <2>2, <2>6, <2>8, <2>9, <2>10, <2>11,
       OnlyAt DEF Loader!InUnload
  <2> QED
    BY <2>3, <2>4, <2>12 DEF ClassesInv, Rest
<1> QED
  BY <1>6, <1>7

(* The factory and the handle are taken away from a loader that nobody     *)
(* uses.                                                                   *)
LEMMA Closing ==
  ASSUME ClassesInv, ~loader_crashed, NEW t \in Threads, NEW l \in Loaders,
         loader_th[t].loader = l, loader_th[t].pc \in Loader!InUnload,
         NEW loc \in Loader!InUnload, GoesTo(t, loc, l, loader_th[t].then),
         alive' = alive, loads' = loads, objs' = objs, objLock' = objLock,
         live' = live, raced' = raced,
         openLock' = t <=> loc = "close",
         \A u \in Threads : u # t => (openLock' = u <=> openLock = u),
         loc = "close" => open',
         open /\ ~open' => loader_th[t].pc = "close",
         \A k \in Loaders : k # l /\ factory # NULL /\ k \in factory.owners =>
           factory' # NULL /\ k \in factory'.owners
  PROVE  Rest'
<1> USE DEF Loader!InUnload, InRelease
<1>1. /\ Loader!TypeOK /\ Working(t) /\ Locking(t) /\ l \in alive
      /\ Kept(l) /\ Used(l)
  BY WorksOn DEF ClassesInv
<1>2. Working(t)'
  BY <1>1 DEF GoesTo, Working, Loader!InLoad
<1>3. /\ Unloads(t, l) /\ Unloads(t, l)' /\ ~Makes(t, l)' /\ ~Counts(t, l)
      /\ ~Counts(t, l)' /\ ~Loader!Releases(t, l) /\ ~Loader!Releases(t, l)'
  BY DEF GoesTo, Unloads, Makes, Counts, Loader!Releases
<1>4. Kept(l)'
  BY <1>3 DEF Kept, Unloads, Loader!Unloading
<1>5. Needed(l)' => Needed(l)
  BY <1>3, NeededMoves
<1>6. Used(l)'
  BY <1>1, <1>3, <1>5 DEF Used, Unloads, Loader!Unloading
<1>7. ObjsCounted(l)'
  BY <1>3, SameCount
<1>8. objLock'[l] = t
  BY <1>1 DEF Locking
<1> QED
  BY <1>1, <1>2, <1>4, <1>6, <1>7, <1>8, OnlyAt

LEMMA DestroyFactoriesInv ==
  ASSUME ClassesInv, ~loader_crashed, NEW t \in Threads,
         Loader!DestroyFactories(t)
  PROVE  ClassesInv'
<1>1. PICK l \in Loaders : l = loader_th[t].loader
  BY WorksOn DEF Loader!DestroyFactories, Loader!At
<1> DEFINE owners == Loader!RemoveOwnedClassLoader(l)
<1>2. /\ Loader!TypeOK /\ Locking(t) /\ loader_th[t].pc = "destroy"
      /\ openLock = NULL /\ Opening /\ NULL \notin Threads
  BY <1>1, WorksOn DEF Loader!DestroyFactories, Loader!At, ClassesInv
<1>3. /\ UNCHANGED <<alive, loads, objs, objLock, live, factories, open, mapped,
                     failures, raced, overlapped>>
      /\ open => /\ openLock' = t
                 /\ loader_crashed' = (factory # NULL /\ Loader!Appending(t))
                 /\ factory' = IF owners = {} THEN NULL
                               ELSE [factory EXCEPT !.owners = owners]
      /\ ~open => UNCHANGED <<openLock, loader_crashed, factory>>
  BY <1>1 DEF Loader!DestroyFactories, Loader!counts, Loader!history
<1>4. GoesTo(t, IF open THEN "close" ELSE "unloaded", l, loader_th[t].then)
  BY <1>1, <1>2, Going, LocationsAre DEF Loader!DestroyFactories
<1>5. /\ owners \subseteq Loaders
      /\ factory = NULL => owners = {}
      /\ factory # NULL => owners = factory.owners \ {l}
      /\ factory # NULL => factory \in Loader!Factories
  BY <1>2
     DEF Loader!RemoveOwnedClassLoader, Loader!TypeOK, Loader!Factories
<1> HIDE DEF owners
<1>6. factory' \in Loader!Factories \cup {NULL}
  <2>1. factory # NULL => [factory EXCEPT !.owners = owners] \in Loader!Factories
    BY <1>5 DEF Loader!Factories
  <2> QED
    BY <1>2, <1>3, <1>5, <2>1 DEF Loader!TypeOK
<1>7. Loader!TypeOK'
  BY <1>2, <1>3, <1>4, <1>6 DEF Loader!TypeOK, GoesTo
<1>8. factory' # NULL => factory # NULL
  BY <1>3, <1>5
<1>9. ASSUME ~loader_crashed' PROVE Opening'
  <2>1. ASSUME NEW u \in Threads, Loader!At(u, "append")'
        PROVE  factory' # NULL
    <3>1. u # t /\ Loader!At(u, "append")
      BY <1>4, <2>1 DEF GoesTo, Loader!At
    <3>2. factory # NULL /\ Loader!Appending(t)
      BY <1>2, <3>1 DEF Opening, Loader!Appending
    <3> QED
      BY <1>3, <1>9, <3>2
  <2> QED
    BY <1>2, <1>3, <1>4, <1>8, <2>1, Opens DEF GoesTo, Loader!At
<1>10. \A k \in Loaders : k # l /\ factory # NULL /\ k \in factory.owners =>
         factory' # NULL /\ k \in factory'.owners
  <2>1. CASE open /\ factory # NULL
    <3>1. ASSUME NEW k \in Loaders, k # l, k \in factory.owners
          PROVE  factory' # NULL /\ k \in factory'.owners
      <4>1. k \in owners
        BY <1>5, <2>1, <3>1
      <4>2. factory' = [factory EXCEPT !.owners = owners]
        BY <1>3, <2>1, <4>1
      <4>3. factory'.owners = owners /\ factory' \in Loader!Factories
        BY <1>5, <2>1, <4>2 DEF Loader!Factories
      <4> QED
        BY <4>1, <4>3, LoaderConstants DEF Loader!LoaderAssumption
    <3> QED
      BY <3>1
  <2>2. CASE ~(open /\ factory # NULL)
    BY <1>3, <2>2
  <2> QED
    BY <2>1, <2>2
<1>11. Rest'
  <2>1. openLock' = t <=> open
    BY <1>2, <1>3
  <2>2. \A u \in Threads : u # t => (openLock' = u <=> openLock = u)
    BY <1>2, <1>3
  <2> QED
    BY <1>1, <1>2, <1>3, <1>4, <1>10, <2>1, <2>2, Closing
       DEF Loader!InUnload
<1> QED
  BY <1>7, <1>9, <1>11 DEF ClassesInv, Rest

LEMMA CloseInv ==
  ASSUME ClassesInv, ~loader_crashed, NEW t \in Threads, Loader!Close(t)
  PROVE  ClassesInv'
<1>1. PICK l \in Loaders : l = loader_th[t].loader
  BY WorksOn DEF Loader!Close, Loader!At
<1>2. /\ Loader!TypeOK /\ Locking(t) /\ loader_th[t].pc = "close"
      /\ Opening /\ NULL \notin Threads /\ openLock = t /\ open = TRUE
      /\ mapped \in Nat
  BY <1>1, WorksOn DEF Loader!Close, Loader!At, ClassesInv, Locking, Loader!TypeOK
<1>3. /\ UNCHANGED <<alive, loads, objs, objLock, live, factory, factories,
                     failures, loader_crashed, raced, overlapped>>
      /\ openLock' = NULL
      /\ IF factory = NULL THEN open' = FALSE /\ mapped' = mapped - 1
                           ELSE UNCHANGED <<open, mapped>>
  BY DEF Loader!Close, Loader!counts, Loader!history
<1>4. GoesTo(t, "unloaded", l, loader_th[t].then)
  BY <1>1, <1>2, Going, LocationsAre DEF Loader!Close
<1> DEFINE E == {u \in Threads : Loader!At(u, "emplace")}
           k == Cardinality(E)
<1>5. k \in Nat
  BY ThreadsFinite, FS_Subset, FS_CardinalityType
<1>6. k + 1 <= mapped /\ k' = k
  <2>1. E' = E
    BY <1>2, <1>4 DEF GoesTo, Loader!At
  <2> QED
    BY <1>2, <2>1 DEF Opening
<1> HIDE DEF k, E
<1>7. /\ open' \in BOOLEAN /\ mapped' \in Nat
      /\ k' + (IF open' THEN 1 ELSE 0) <= mapped'
  <2>1. CASE factory = NULL
    <3>1. open' = FALSE /\ mapped' = mapped - 1
      BY <1>3, <2>1
    <3>2. k' <= mapped' /\ mapped' \in Nat
      BY <1>2, <1>5, <1>6, <3>1
    <3>3. k' + 0 <= mapped'
      BY <1>5, <1>6, <3>2
    <3> QED
      BY <3>1, <3>2, <3>3
  <2>2. CASE factory # NULL
    BY <1>2, <1>3, <1>5, <1>6, <2>2
  <2> QED
    BY <2>1, <2>2
<1>8. Loader!TypeOK'
  BY <1>2, <1>3, <1>4, <1>7 DEF Loader!TypeOK, GoesTo
<1>9. Opening'
  <2>1. \A u \in Threads : Loader!At(u, "append")' => Loader!At(u, "append")
    BY <1>4 DEF GoesTo, Loader!At
  <2> QED
    BY <1>2, <1>3, <1>7, <2>1 DEF Opening, k, E
<1>10. Rest'
  BY <1>1, <1>2, <1>3, <1>4, Closing DEF Loader!InUnload
<1> QED
  BY <1>8, <1>9, <1>10 DEF ClassesInv, Rest

LEMMA UnloadedInv ==
  ASSUME ClassesInv, ~loader_crashed, NEW t \in Threads, Loader!Unloaded(t)
  PROVE  ClassesInv'
<1>1. PICK l \in Loaders : l = loader_th[t].loader
  BY WorksOn DEF Loader!Unloaded, Loader!At
<1>2. /\ Loader!TypeOK /\ loader_th[t].pc = "unloaded" /\ Opening /\ Used(l)
      /\ objLock \in [Loaders -> Threads \cup {NULL}]
      /\ loads \in [Loaders -> Nat]
  BY <1>1, WorksOn DEF Loader!Unloaded, Loader!At, ClassesInv, Loader!TypeOK
<1>3. /\ UNCHANGED <<loads, objs, live, factory, factories, open, openLock,
                     mapped, failures, raced, overlapped>>
      /\ objLock' = [objLock EXCEPT ![l] = NULL]
      /\ Loader!AfterUnload(t, 0)
  BY <1>1 DEF Loader!Unloaded, Loader!global, Loader!history
<1>4. PICK loc \in {"idle", "unload"}, m \in {l, NULL},
           then \in {"idle", "delete"} :
        GoesTo(t, loc, m, then) /\ alive' \subseteq alive
          /\ loader_crashed' \in BOOLEAN
  BY <1>1, <1>2, <1>3, AfterUnloading
<1>5. Loader!TypeOK'
  <2>1. objLock' \in [Loaders -> Threads \cup {NULL}]
    BY <1>2, <1>3
  <2> QED
    BY <1>2, <1>3, <1>4, <2>1 DEF Loader!TypeOK, GoesTo
<1>6. Opening'
  BY <1>2, <1>3, <1>4, Opens DEF GoesTo, Loader!At, Opening
<1>7. ~Needed(l) \/ l \in raced'
  BY <1>1, <1>2, <1>3 DEF Used, Loader!Unloading, Loader!InUnload
<1>8. ~loader_crashed' => Rest'
  BY <1>1, <1>2, <1>3, <1>7, Leaves
<1> QED
  BY <1>5, <1>6, <1>8 DEF ClassesInv, Rest

-----------------------------------------------------------------------------
(* An object is made, counted and released.                                *)
LEMMA Objects ==
  ASSUME ClassesInv, ~loader_crashed, NEW t \in Threads, NEW l \in Loaders,
         loader_th[t].loader = l,
         loader_th[t].pc \in {"make", "count", "counted", "release", "released"},
         NEW loc \in {"idle", "count", "counted", "released"}, NEW m,
         GoesTo(t, loc, m, "idle"), m = IF loc = "idle" THEN NULL ELSE l,
         alive' = alive, loads' = loads, factory' = factory, open' = open,
         openLock' = openLock, raced \subseteq raced', raced' \subseteq raced \cup {l},
         \A k \in Loaders : k # l =>
           objs'[k] = objs[k] /\ live'[k] = live[k] /\ objLock'[k] = objLock[k],
         objLock'[l] = t <=> loc = "released",
         \A u \in Threads : u # t => (objLock'[l] = u <=> objLock[l] = u),
         live'[l] = live[l] \/ Makes(t, l),
         ObjsCounted(l)'
  PROVE  Rest'
<1> USE DEF Loader!InUnload, InRelease
<1>1. /\ Loader!TypeOK /\ Working(t) /\ Locking(t) /\ l \in alive
      /\ Kept(l) /\ Used(l) /\ openLock # t /\ loader_th[t].then = "idle"
  BY WorksOn DEF ClassesInv, Locking, Working, Loader!InLoad
<1>2. Working(t)'
  BY <1>1 DEF GoesTo, Working, Loader!InLoad
<1>3. ~Unloads(t, l) /\ ~Unloads(t, l)' /\ ~Makes(t, l)'
  BY <1>1 DEF GoesTo, Unloads, Makes
<1>4. Loader!Unloading(l)' <=> Loader!Unloading(l)
  BY <1>3, UnloadingMoves
<1>5. Needed(l)' => Needed(l)
  <2>1. CASE Makes(t, l)
    BY <2>1 DEF Needed
  <2>2. CASE ~Makes(t, l)
    BY <1>3, <2>2, NeededMoves
  <2> QED
    BY <2>1, <2>2
<1>6. Kept(l)' /\ Used(l)'
  BY <1>1, <1>4, <1>5 DEF Kept, Used
<1> QED
  BY <1>1, <1>2, <1>6, OnlyAt

LEMMA MakeInv ==
  ASSUME ClassesInv, ~loader_crashed, NEW t \in Threads, Loader!Make(t)
  PROVE  ClassesInv'
<1>1. PICK l \in Loaders : l = loader_th[t].loader
  BY WorksOn DEF Loader!Make, Loader!At
<1>2. /\ Loader!TypeOK /\ Working(t) /\ Locking(t) /\ loader_th[t].pc = "make"
      /\ Opening /\ ObjsCounted(l) /\ live \in [Loaders -> Nat]
      /\ loader_th[t].then = "idle" /\ objs[l] \in Int /\ objLock[l] # t
      /\ objLock[l] \in Threads \cup {NULL} /\ NULL \notin Threads
  BY <1>1, WorksOn
     DEF Loader!Make, Loader!At, ClassesInv, Loader!TypeOK, Working, Locking,
         Loader!InLoad, Loader!InUnload, InRelease
<1>3. /\ UNCHANGED <<alive, loads, objs, objLock, factory, factories, open,
                     openLock, mapped, failures, raced, overlapped>>
      /\ live' = [live EXCEPT ![l] = @ + 1]
      /\ loader_crashed' \in BOOLEAN
  BY <1>1 DEF Loader!Make, Loader!global, Loader!history, Loader!IsFreed
<1>4. GoesTo(t, "count", l, "idle")
  BY <1>1, <1>2, Going, LocationsAre DEF Loader!Make
<1>5. Loader!TypeOK'
  <2>1. live' \in [Loaders -> Nat]
    BY <1>2, <1>3
  <2> QED
    BY <1>2, <1>3, <1>4, <2>1 DEF Loader!TypeOK, GoesTo
<1>6. Opening'
  BY <1>2, <1>3, <1>4, Opens DEF GoesTo, Loader!At, Opening
<1>7. /\ ~Counts(t, l) /\ Counts(t, l)' /\ Makes(t, l)
      /\ ~Loader!Releases(t, l) /\ ~Loader!Releases(t, l)'
  BY <1>1, <1>2, <1>4 DEF GoesTo, Counts, Makes, Loader!Releases
<1>8. ObjsCounted(l)'
  <2>1. /\ Cardinality(Counting(l)) \in Nat
        /\ Cardinality(Counting(l))' = Cardinality(Counting(l)) + 1
    BY <1>4, <1>7, CountingMoves
  <2>2. (objLock[l] # NULL /\ Loader!Releases(objLock[l], l))'
          <=> objLock[l] # NULL /\ Loader!Releases(objLock[l], l)
    BY <1>2, <1>3, <1>4 DEF GoesTo, Loader!Releases
  <2>3. live'[l] = live[l] + 1 /\ live[l] \in Nat
    BY <1>2, <1>3
  <2> QED
    BY <1>2, <1>3, <2>1, <2>2, <2>3 DEF ObjsCounted
<1>9. Rest'
  <2>1. \A k \in Loaders : k # l => live'[k] = live[k]
    BY <1>2, <1>3
  <2> QED
    BY <1>1, <1>2, <1>3, <1>4, <1>7, <1>8, <2>1, Objects
<1> QED
  BY <1>5, <1>6, <1>9 DEF ClassesInv, Rest

LEMMA CountReadInv ==
  ASSUME ClassesInv, ~loader_crashed, NEW t \in Threads, Loader!CountRead(t)
  PROVE  ClassesInv'
<1>1. PICK l \in Loaders : l = loader_th[t].loader
  BY WorksOn DEF Loader!CountRead, Loader!At
<1>2. /\ Loader!TypeOK /\ Working(t) /\ Locking(t) /\ loader_th[t].pc = "count"
      /\ Opening /\ loader_th[t].then = "idle" /\ objs[l] \in Int
      /\ objLock[l] # t
  BY <1>1, WorksOn
     DEF Loader!CountRead, Loader!At, ClassesInv, Loader!TypeOK, Working,
         Locking, Loader!InLoad, Loader!InUnload, InRelease
<1>3. UNCHANGED <<alive, loads, objs, objLock, live, factory, factories, open,
                  openLock, mapped, failures, loader_crashed, raced,
                  overlapped>>
  BY DEF Loader!CountRead, Loader!counts, Loader!global, Loader!history
<1>4. GoesTo(t, "counted", l, "idle")
  <2>1. GoesWith(t, "counted", objs[l])
    BY <1>1 DEF Loader!CountRead, GoesWith
  <2> QED
    BY <1>1, <1>2, <2>1, GoingCounted, LocationsAre
<1>5. Loader!TypeOK'
  BY <1>2, <1>3, <1>4 DEF Loader!TypeOK, GoesTo
<1>6. Opening'
  BY <1>2, <1>3, <1>4, Opens DEF GoesTo, Loader!At, Opening
<1>7. ObjsCounted(l)'
  <2>1. /\ Counts(t, l)' <=> Counts(t, l)
        /\ Loader!Releases(t, l)' <=> Loader!Releases(t, l)
    BY <1>1, <1>2, <1>4 DEF GoesTo, Counts, Loader!Releases
  <2> QED
    BY <1>3, <1>4, <2>1, SameCount
<1>8. Rest'
  BY <1>1, <1>2, <1>3, <1>4, <1>7, Objects
<1> QED
  BY <1>5, <1>6, <1>8 DEF ClassesInv, Rest

LEMMA CountWriteInv ==
  ASSUME ClassesInv, ~loader_crashed, NEW t \in Threads, Loader!CountWrite(t)
  PROVE  ClassesInv'
<1>1. PICK l \in Loaders : l = loader_th[t].loader
  BY WorksOn DEF Loader!CountWrite, Loader!At
<1>2. /\ Loader!TypeOK /\ Working(t) /\ Locking(t) /\ loader_th[t].pc = "counted"
      /\ Opening /\ loader_th[t].then = "idle" /\ objs \in [Loaders -> Int]
      /\ objLock[l] # t /\ ObjsCounted(l) /\ live[l] \in Nat
      /\ raced \subseteq Loaders /\ loader_th[t].count \in Int
      /\ objLock[l] \in Threads \cup {NULL} /\ NULL \notin Threads
  BY <1>1, WorksOn
     DEF Loader!CountWrite, Loader!At, ClassesInv, Loader!TypeOK, Working,
         Locking, Loader!InLoad, Loader!InUnload, InRelease,
         Loader!ThreadStates
<1>3. /\ UNCHANGED <<alive, loads, objLock, live, factory, factories, open,
                     openLock, mapped, failures, loader_crashed, overlapped>>
      /\ objs' = [objs EXCEPT ![l] = loader_th[t].count + 1]
      /\ raced' = IF objs[l] # loader_th[t].count THEN raced \cup {l} ELSE raced
  BY <1>1 DEF Loader!CountWrite, Loader!global
<1>4. GoesTo(t, "idle", NULL, "idle")
  BY <1>2, Returning DEF Loader!CountWrite
<1>5. Loader!TypeOK'
  <2>1. objs' \in [Loaders -> Int]
    BY <1>2, <1>3
  <2> QED
    BY <1>2, <1>3, <1>4, <2>1 DEF Loader!TypeOK, GoesTo
<1>6. Opening'
  BY <1>2, <1>3, <1>4, Opens DEF GoesTo, Loader!At, Opening
<1>7. ObjsCounted(l)'
  <2>1. Counts(t, l) /\ ~Counts(t, l)' /\ ~Loader!Releases(t, l)
          /\ ~Loader!Releases(t, l)'
    BY <1>1, <1>2, <1>4 DEF GoesTo, Counts, Loader!Releases
  <2>2. /\ Cardinality(Counting(l)) \in Nat
        /\ Cardinality(Counting(l))' = Cardinality(Counting(l)) - 1
    BY <1>4, <2>1, CountingMoves
  <2>3. (objLock[l] # NULL /\ Loader!Releases(objLock[l], l))'
          <=> objLock[l] # NULL /\ Loader!Releases(objLock[l], l)
    BY <1>2, <1>3, <1>4 DEF GoesTo, Loader!Releases
  <2>4. l \notin raced' => l \notin raced /\ objs'[l] = objs[l] + 1
    BY <1>2, <1>3
  <2>5. live'[l] = live[l] /\ objs[l] \in Int
    BY <1>2, <1>3
  <2> QED
    BY <1>2, <2>2, <2>3, <2>4, <2>5 DEF ObjsCounted
<1>8. Rest'
  <2>1. \A k \in Loaders : k # l => objs'[k] = objs[k]
    BY <1>2, <1>3
  <2> QED
    BY <1>1, <1>2, <1>3, <1>4, <1>7, <2>1, Objects
<1> QED
  BY <1>5, <1>6, <1>8 DEF ClassesInv, Rest

LEMMA ReleaseReadInv ==
  ASSUME ClassesInv, ~loader_crashed, NEW t \in Threads, Loader!ReleaseRead(t)
  PROVE  ClassesInv'
<1>1. PICK l \in Loaders : l = loader_th[t].loader
  BY WorksOn DEF Loader!ReleaseRead, Loader!At
<1>2. /\ Loader!TypeOK /\ Working(t) /\ Locking(t) /\ loader_th[t].pc = "release"
      /\ Opening /\ loader_th[t].then = "idle" /\ objs[l] \in Int
      /\ objLock[l] = t
  BY <1>1, WorksOn
     DEF Loader!ReleaseRead, Loader!At, ClassesInv, Loader!TypeOK, Working,
         Locking, Loader!InLoad, Loader!InUnload, InRelease
<1>3. UNCHANGED <<alive, loads, objs, objLock, live, factory, factories, open,
                  openLock, mapped, failures, loader_crashed, raced,
                  overlapped>>
  BY DEF Loader!ReleaseRead, Loader!counts, Loader!global, Loader!history
<1>4. GoesTo(t, "released", l, "idle")
  <2>1. GoesWith(t, "released", objs[l])
    BY <1>1 DEF Loader!ReleaseRead, GoesWith
  <2> QED
    BY <1>1, <1>2, <2>1, GoingCounted, LocationsAre
<1>5. Loader!TypeOK'
  BY <1>2, <1>3, <1>4 DEF Loader!TypeOK, GoesTo
<1>6. Opening'
  BY <1>2, <1>3, <1>4, Opens DEF GoesTo, Loader!At, Opening
<1>7. ObjsCounted(l)'
  <2>1. /\ Counts(t, l)' <=> Counts(t, l)
        /\ Loader!Releases(t, l)' <=> Loader!Releases(t, l)
    BY <1>1, <1>2, <1>4 DEF GoesTo, Counts, Loader!Releases
  <2> QED
    BY <1>3, <1>4, <2>1, SameCount
<1>8. Rest'
  BY <1>1, <1>2, <1>3, <1>4, <1>7, Objects
<1> QED
  BY <1>5, <1>6, <1>8 DEF ClassesInv, Rest

LEMMA ReleaseWriteInv ==
  ASSUME ClassesInv, ~loader_crashed, NEW t \in Threads, Loader!ReleaseWrite(t)
  PROVE  ClassesInv'
<1>1. PICK l \in Loaders : l = loader_th[t].loader
  BY WorksOn DEF Loader!ReleaseWrite, Loader!At
<1>2. /\ Loader!TypeOK /\ Working(t) /\ Locking(t) /\ loader_th[t].pc = "released"
      /\ Opening /\ loader_th[t].then = "idle" /\ objs \in [Loaders -> Int]
      /\ objLock[l] = t /\ ObjsCounted(l) /\ live[l] \in Nat
      /\ raced \subseteq Loaders /\ loader_th[t].count \in Int
      /\ objLock \in [Loaders -> Threads \cup {NULL}] /\ NULL \notin Threads
  BY <1>1, WorksOn
     DEF Loader!ReleaseWrite, Loader!At, ClassesInv, Loader!TypeOK, Working,
         Locking, Loader!InLoad, Loader!InUnload, InRelease,
         Loader!ThreadStates
<1>3. /\ UNCHANGED <<alive, loads, live, factory, factories, open, openLock,
                     mapped, failures, loader_crashed, overlapped>>
      /\ objs' = [objs EXCEPT ![l] = loader_th[t].count - 1]
      /\ objLock' = [objLock EXCEPT ![l] = NULL]
      /\ raced' = IF objs[l] # loader_th[t].count THEN raced \cup {l} ELSE raced
  BY <1>1 DEF Loader!ReleaseWrite, Loader!global
<1>4. GoesTo(t, "idle", NULL, "idle")
  BY <1>2, Returning DEF Loader!ReleaseWrite
<1>5. Loader!TypeOK'
  <2>1. objs' \in [Loaders -> Int] /\ objLock' \in [Loaders -> Threads \cup {NULL}]
    BY <1>2, <1>3
  <2> QED
    BY <1>2, <1>3, <1>4, <2>1 DEF Loader!TypeOK, GoesTo
<1>6. Opening'
  BY <1>2, <1>3, <1>4, Opens DEF GoesTo, Loader!At, Opening
<1>7. ObjsCounted(l)'
  <2>1. ~Counts(t, l) /\ ~Counts(t, l)' /\ Loader!Releases(t, l)
    BY <1>1, <1>2, <1>4 DEF GoesTo, Counts, Loader!Releases
  <2>2. /\ Cardinality(Counting(l)) \in Nat
        /\ Cardinality(Counting(l))' = Cardinality(Counting(l))
    BY <1>4, <2>1, CountingMoves
  <2>3. /\ objLock[l] # NULL /\ Loader!Releases(objLock[l], l)
        /\ objLock'[l] = NULL
    BY <1>2, <1>3, <2>1
  <2>4. l \notin raced' => l \notin raced /\ objs'[l] = objs[l] - 1
    BY <1>2, <1>3
  <2>5. live'[l] = live[l] /\ objs[l] \in Int
    BY <1>2, <1>3
  <2> QED
    BY <1>2, <2>2, <2>3, <2>4, <2>5 DEF ObjsCounted
<1>8. Rest'
  <2>1. /\ \A k \in Loaders : k # l => objs'[k] = objs[k] /\ objLock'[k] = objLock[k]
        /\ objLock'[l] = NULL
    BY <1>2, <1>3
  <2> QED
    BY <1>1, <1>2, <1>3, <1>4, <1>7, <2>1, Objects
<1> QED
  BY <1>5, <1>6, <1>8 DEF ClassesInv, Rest

-----------------------------------------------------------------------------
(* A call begins on a loader that exists.                                  *)
LEMMA Entering ==
  ASSUME ClassesInv, ~loader_crashed, NEW t \in Threads, NEW l \in alive,
         loader_th[t].pc = "idle", NEW loc \in {"load", "find", "unload"},
         NEW then \in {"idle", "find", "delete", "manager"},
         GoesTo(t, loc, l, then),
         loc = "load" => then \in {"idle", "find"},
         loc = "find" => then = "idle",
         loc = "unload" => /\ then # "find"
                           /\ then = "manager" => l \in Managed
                           /\ then = "idle" => l \notin Managed,
         then = "delete" => ~Needed(l),
         alive' = alive, loads' = loads, objs' = objs, objLock' = objLock,
         live' = live, factory' = factory, open' = open, openLock' = openLock,
         raced' = raced
  PROVE  Rest'
<1> USE DEF Loader!InUnload, InRelease
<1>a. l \in Loaders
  BY DEF ClassesInv, Loader!TypeOK
<1>1. /\ Loader!TypeOK /\ Working(t) /\ Locking(t)
      /\ Kept(l) /\ Used(l) /\ openLock # t /\ loader_th[t].then = "idle"
      /\ loader_th[t].loader = NULL /\ objLock[l] # t /\ NULL \notin Loaders
  <2>1. Kept(l) /\ Used(l) /\ Loader!TypeOK
    BY <1>a DEF ClassesInv
  <2>2. Working(t) /\ Locking(t) /\ NULL \notin Loaders
          /\ loader_th[t].loader = NULL /\ loader_th[t].then = "idle"
    BY WorksOn
  <2>3. openLock # t /\ objLock[l] # t
    BY <1>a, <2>2 DEF Locking
  <2> QED
    BY <2>1, <2>2, <2>3
<1>2. Working(t)'
  BY <1>a, <1>1 DEF GoesTo, Working, Loader!InLoad
<1>3. /\ ~Unloads(t, l) /\ (Unloads(t, l)' <=> then = "delete")
      /\ ~Makes(t, l) /\ ~Makes(t, l)' /\ ~Counts(t, l) /\ ~Counts(t, l)'
      /\ ~Loader!Releases(t, l) /\ ~Loader!Releases(t, l)'
  BY <1>a, <1>1 DEF GoesTo, Unloads, Makes, Counts, Loader!Releases
<1>4. Needed(l)' => Needed(l)
  BY <1>a, <1>3, NeededMoves
<1>5. Kept(l)' /\ Used(l)'
  <2>1. CASE then = "delete"
    BY <1>3, <1>4, <2>1 DEF Kept, Used, Unloads, Loader!Unloading
  <2>2. CASE then # "delete"
    <3>1. Loader!Unloading(l)' <=> Loader!Unloading(l)
      BY <1>a, <1>1, <1>3, <2>2, UnloadingMoves
    <3> QED
      BY <1>a, <1>1, <1>4, <3>1 DEF Kept, Used
  <2> QED
    BY <2>1, <2>2
<1>6. ObjsCounted(l)'
  BY <1>a, <1>1, <1>3, SameCount
<1> QED
  BY <1>a, <1>1, <1>2, <1>5, <1>6, OnlyAt

(* What is left of the invariant when a call begins that changes nothing   *)
(* but its thread.                                                         *)
LEMMA Entered ==
  ASSUME ClassesInv, ~loader_crashed, NEW t \in Threads, NEW l, NEW then,
         NEW loc \in {"load", "find", "unload"}, GoesTo(t, loc, l, then),
         loader_th[t].pc = "idle", overlapped' \in BOOLEAN,
         UNCHANGED <<alive, loads, objs, objLock, live, factory, factories, open,
                     openLock, mapped, failures, loader_crashed, raced>>,
         Rest'
  PROVE  ClassesInv'
<1>1. Loader!TypeOK /\ Opening
  BY DEF ClassesInv
<1>2. Loader!TypeOK'
  BY <1>1 DEF Loader!TypeOK, GoesTo
<1>3. Opening'
  BY <1>1, Opens DEF GoesTo, Loader!At, Opening
<1> QED
  BY <1>2, <1>3 DEF ClassesInv, Rest

LEMMA LoadLibraryInv ==
  ASSUME ClassesInv, ~loader_crashed, NEW t \in Threads, NEW l \in Loaders,
         Loader!LoadLibrary(t, l)
  PROVE  ClassesInv'
<1>1. /\ GoesTo(t, "load", l, "idle") /\ loader_th[t].pc = "idle"
      /\ overlapped' \in BOOLEAN /\ raced' = raced
  BY WorksOn, Beginning, LocationsAre DEF Loader!LoadLibrary
<1>2. /\ l \in alive
      /\ UNCHANGED <<alive, loads, objs, objLock, live, factory, factories, open,
                     openLock, mapped, failures, loader_crashed>>
  BY DEF Loader!LoadLibrary, Loader!Usable, Loader!counts, Loader!global
<1>3. Rest'
  BY <1>1, <1>2, Entering
<1> QED
  BY <1>1, <1>2, <1>3, Entered

LEMMA CreateClassObjInv ==
  ASSUME ClassesInv, ~loader_crashed, NEW t \in Threads, NEW l \in Loaders,
         Loader!CreateClassObj(t, l)
  PROVE  ClassesInv'
<1>1. PICK loc \in {"load", "find"}, then \in {"idle", "find"} :
        /\ GoesTo(t, loc, l, then) /\ loader_th[t].pc = "idle"
        /\ overlapped' \in BOOLEAN /\ raced' = raced
        /\ loc = "find" => then = "idle"
  <2>1. CASE open
    BY <2>1, WorksOn, Beginning, LocationsAre DEF Loader!CreateClassObj
  <2>2. CASE ~open
    BY <2>2, WorksOn, Beginning, LocationsAre DEF Loader!CreateClassObj
  <2> QED
    BY <2>1, <2>2
<1>2. /\ l \in alive
      /\ UNCHANGED <<alive, loads, objs, objLock, live, factory, factories, open,
                     openLock, mapped, failures, loader_crashed>>
  BY DEF Loader!CreateClassObj, Loader!Usable, Loader!counts, Loader!global
<1>3. Rest'
  BY <1>1, <1>2, Entering
<1> QED
  BY <1>1, <1>2, <1>3, Entered

(* UnloadLibrary by a user or by the manager, and the destructor.          *)
LEMMA UnloadInv ==
  ASSUME ClassesInv, ~loader_crashed, NEW t \in Threads, NEW l \in Loaders,
         \/ Loader!UnloadLibrary(t, l)
         \/ Loader!Delete(t, l)
         \/ Loader!ManagerUnload(t, l)
  PROVE  ClassesInv'
<1>1. PICK then \in {"idle", "delete", "manager"} :
        /\ Loader!Unload(t, l, then)
        /\ then = "manager" => l \in Managed
        /\ then = "idle" => l \notin Managed
        /\ then = "delete" =>
             live[l] = 0 /\ \A u \in Threads : loader_th[u].loader # l
  BY DEF Loader!UnloadLibrary, Loader!Delete, Loader!ManagerUnload
<1>2. /\ GoesTo(t, "unload", l, then) /\ loader_th[t].pc = "idle"
      /\ overlapped' \in BOOLEAN /\ raced' = raced
  BY <1>1, WorksOn, Beginning, LocationsAre DEF Loader!Unload
<1>3. /\ l \in alive
      /\ UNCHANGED <<alive, loads, objs, objLock, live, factory, factories, open,
                     openLock, mapped, failures, loader_crashed>>
  BY <1>1 DEF Loader!Unload, Loader!Usable, Loader!counts, Loader!global
<1>4. then = "delete" => ~Needed(l)
  BY <1>1 DEF Needed, Makes
<1>5. Rest'
  BY <1>1, <1>2, <1>3, <1>4, Entering
<1> QED
  BY <1>2, <1>3, <1>5, Entered

(* A loader is made where none was: nobody is in a call of it.             *)
LEMMA NewInv ==
  ASSUME ClassesInv, ~loader_crashed, NEW t \in Threads, NEW l \in Loaders,
         Loader!New(t, l)
  PROVE  ClassesInv'
<1> USE DEF Loader!InUnload, InRelease
<1>1. /\ GoesTo(t, "check", l, "construct") /\ loader_th[t].pc = "idle"
      /\ overlapped' \in BOOLEAN /\ raced' = raced
  BY WorksOn, Beginning, LocationsAre DEF Loader!New
<1>2. /\ l \notin alive /\ alive' = alive \cup {l}
      /\ loads' = [loads EXCEPT ![l] = 1] /\ objs' = [objs EXCEPT ![l] = 0]
      /\ UNCHANGED <<objLock, live, factory, factories, open, openLock, mapped,
                     failures, loader_crashed>>
  BY DEF Loader!New, Loader!global
<1>3. /\ Loader!TypeOK /\ Opening /\ Working(t) /\ Locking(t)
      /\ Used(l) /\ ObjsCounted(l) /\ loads \in [Loaders -> Nat]
      /\ objs \in [Loaders -> Int] /\ openLock # t /\ live[l] \in Nat
      /\ loader_th[t].loader = NULL /\ objLock[l] # t /\ NULL \notin Loaders
      /\ \A u \in Threads : loader_th[u].loader # l
      /\ alive \subseteq Loaders /\ objLock[l] \in Threads \cup {NULL}
  BY <1>1, <1>2, WorksOn
     DEF ClassesInv, Locking, Loader!TypeOK, Working
<1>4. /\ Loader!TypeOK'
  <2>1. loads' \in [Loaders -> Nat] /\ objs' \in [Loaders -> Int]
    BY <1>2, <1>3
  <2> QED
    BY <1>1, <1>2, <1>3, <2>1 DEF Loader!TypeOK, GoesTo
<1>5. Opening'
  BY <1>1, <1>2, <1>3, Opens DEF GoesTo, Loader!At, Opening
<1>6. Working(t)'
  BY <1>1, <1>2 DEF GoesTo, Working, Loader!InLoad
<1>7. /\ ~Makes(t, l)' /\ ~Counts(t, l)'
      /\ \A u \in Threads : ~Loader!Releases(u, l) /\ ~Counts(u, l)
      /\ \A u \in Threads : ~Loader!Releases(u, l)' /\ ~Counts(u, l)'
  BY <1>1, <1>3 DEF GoesTo, Makes, Counts, Loader!Releases
<1>8. Kept(l)'
  BY <1>2, <1>3 DEF Kept
<1>9. Needed(l)' => Needed(l)
  BY <1>1, <1>2, <1>7, NeededMoves
<1>10. Used(l)'
  BY <1>1, <1>2, <1>3, <1>9 DEF Used
<1>11. ObjsCounted(l)'
  <2>1. Counting(l)' = {} /\ Cardinality({}) = 0
    BY <1>7, FS_EmptySet DEF Counting
  <2>2. ~Needed(l) \/ l \in raced
    BY <1>2, <1>3 DEF Used
  <2>3. live'[l] = 0 \/ l \in raced
    BY <1>2, <1>3, <2>2 DEF Needed
  <2>4. ~(objLock[l] # NULL /\ Loader!Releases(objLock[l], l))'
    <3>1. objLock'[l] \in Threads \cup {NULL}
      BY <1>2, <1>3
    <3> QED
      BY <1>7, <3>1 DEF Loader!Releases
  <2>5. objs'[l] = 0 /\ raced' = raced
    BY <1>1, <1>2, <1>3
  <2> QED
    BY <2>1, <2>3, <2>4, <2>5 DEF ObjsCounted
<1>12. Rest'
  <2>1. \A k \in Loaders : k # l => loads'[k] = loads[k] /\ objs'[k] = objs[k]
    BY <1>2, <1>3
  <2> QED
    BY <1>1, <1>2, <1>3, <1>6, <1>8, <1>10, <1>11, <2>1, OnlyAt
       DEF Loader!InLoad
<1> QED
  BY <1>4, <1>5, <1>12 DEF ClassesInv, Rest

LEMMA MadeIs ==
  ASSUME NEW l \in Loaders
  PROVE  Loader!Made(l) = live[l] - Cardinality(Counting(l))
<1>1. Loader!Cardinality(Counting(l)) = Cardinality(Counting(l))
  BY CardinalityIs
<1> QED
  BY <1>1 DEF Loader!Made, Counting, Counts

LEMMA ReleaseInv ==
  ASSUME ClassesInv, ~loader_crashed, NEW t \in Threads, NEW l \in Loaders,
         Loader!Release(t, l)
  PROVE  ClassesInv'
<1> USE DEF Loader!InUnload, InRelease
<1>1. /\ GoesTo(t, "release", l, "idle") /\ loader_th[t].pc = "idle"
      /\ overlapped' \in BOOLEAN /\ raced' = raced
  BY WorksOn, Beginning, LocationsAre DEF Loader!Release
<1>2. /\ objLock[l] = NULL /\ objLock' = [objLock EXCEPT ![l] = t]
      /\ live' = [live EXCEPT ![l] = @ - 1] /\ loader_crashed' \in BOOLEAN
      /\ UNCHANGED <<alive, loads, objs, factory, factories, open, openLock,
                     mapped, failures>>
      /\ ~loader_crashed' => l \in alive
  BY DEF Loader!Release, Loader!global
<1>3. /\ Loader!TypeOK /\ Opening /\ Working(t) /\ Locking(t)
      /\ Kept(l) /\ Used(l) /\ ObjsCounted(l) /\ live \in [Loaders -> Nat]
      /\ objs[l] \in Int /\ objLock \in [Loaders -> Threads \cup {NULL}]
      /\ openLock # t /\ loader_th[t].loader = NULL /\ NULL \notin Loaders
      /\ NULL \notin Threads /\ loader_th[t].then = "idle"
  BY <1>1, <1>2, WorksOn
     DEF ClassesInv, Locking, Loader!TypeOK
<1>4. Cardinality(Counting(l)) \in Nat
        /\ Cardinality(Counting(l))' = Cardinality(Counting(l))
  <2>1. ~Counts(t, l) /\ ~Counts(t, l)'
    BY <1>1 DEF GoesTo, Counts
  <2> QED
    BY <1>1, <2>1, CountingMoves
<1>5. live[l] > 0 /\ live[l] \in Nat
  BY <1>3, <1>4, MadeIs DEF Loader!Release
<1>6. Loader!TypeOK'
  <2>1. live' \in [Loaders -> Nat]
    BY <1>2, <1>3, <1>5
  <2>2. objLock' \in [Loaders -> Threads \cup {NULL}]
    BY <1>2, <1>3
  <2> QED
    BY <1>1, <1>2, <1>3, <2>1, <2>2 DEF Loader!TypeOK, GoesTo
<1>7. Opening'
  BY <1>1, <1>2, <1>3, Opens DEF GoesTo, Loader!At, Opening
<1>8. ~Unloads(t, l) /\ ~Unloads(t, l)'
  BY <1>1, <1>3 DEF GoesTo, Unloads
<1>9. Loader!Unloading(l)' <=> Loader!Unloading(l)
  BY <1>1, <1>8, UnloadingMoves
<1>10. Needed(l)
  BY <1>5 DEF Needed
<1>11. Kept(l)' /\ Used(l)'
  BY <1>1, <1>2, <1>3, <1>9, <1>10 DEF Kept, Used
<1>12. /\ \A k \in Loaders : k # l => objLock'[k] = objLock[k] /\ live'[k] = live[k]
       /\ objLock'[l] = t /\ live'[l] = live[l] - 1
  BY <1>2, <1>3
<1>13. ObjsCounted(l)'
  <2>1. (objLock[l] # NULL /\ Loader!Releases(objLock[l], l))'
    BY <1>1, <1>3, <1>12 DEF GoesTo, Loader!Releases
  <2>2. ~(objLock[l] # NULL /\ Loader!Releases(objLock[l], l))
    BY <1>2
  <2> QED
    BY <1>1, <1>2, <1>3, <1>4, <1>5, <1>12, <2>1, <2>2 DEF ObjsCounted
<1>14. ASSUME ~loader_crashed' PROVE Rest'
  <2>1. Working(t)'
    BY <1>1, <1>2, <1>14 DEF GoesTo, Working, Loader!InLoad
  <2> QED
    BY <1>1, <1>2, <1>3, <1>11, <1>12, <1>13, <2>1, OnlyAt
<1> QED
  BY <1>6, <1>7, <1>14 DEF ClassesInv, Rest

LEMMA ClassesStay == ClassesInv /\ UNCHANGED Loader!vars => ClassesInv'
<1> SUFFICES ASSUME ClassesInv, UNCHANGED Loader!vars PROVE ClassesInv'
  OBVIOUS
<1> QED
  BY DEF ClassesInv, Loader!vars, Loader!counts, Loader!global,
         Loader!history, Loader!TypeOK, Opening, Loader!At, Working, Locking,
         Kept, ObjsCounted, Used, Needed, Makes, Counting, Counts,
         Loader!Unloading, Loader!Releases

LEMMA ClassesNext == ClassesInv /\ Loader!Next => ClassesInv'
<1> SUFFICES ASSUME ClassesInv, Loader!Next PROVE ClassesInv'
  OBVIOUS
<1>1. ~loader_crashed
  BY DEF Loader!Next
<1>2. ASSUME NEW t \in Threads, Loader!Steps(t) PROVE ClassesInv'
  BY <1>1, <1>2, CountLoadInv, CheckLoadedInv, ListFactoriesInv, AttachInv,
     AppendInv, DlOpenInv, DlOpenFailsInv, EmplaceInv, CountUnloadInv,
     DestroyFactoriesInv, CloseInv, UnloadedInv, FindInv, OwnInv, MakeInv,
     CountReadInv, CountWriteInv, ReleaseReadInv, ReleaseWriteInv
     DEF Loader!Steps
<1>3. ASSUME NEW t \in Threads, NEW l \in Loaders, Loader!Calls(t, l)
      PROVE  ClassesInv'
  BY <1>1, <1>3, NewInv, LoadLibraryInv, CreateClassObjInv, UnloadInv,
     ReleaseInv DEF Loader!Calls, Loader!Construct, Loader!ManagerLoad
<1> QED
  BY <1>2, <1>3 DEF Loader!Next

(* The threads that release an object of a loader: at most one.            *)
LEMMA ReleasesIs ==
  ASSUME ClassesInv, ~loader_crashed, NEW l \in Loaders
  PROVE  Cardinality({t \in Threads : Loader!Releases(t, l)})
           = IF objLock[l] # NULL /\ Loader!Releases(objLock[l], l)
             THEN 1 ELSE 0
<1> DEFINE R == {t \in Threads : Loader!Releases(t, l)}
<1>1. objLock[l] \in Threads \cup {NULL} /\ NULL \notin Threads
  BY LoaderConstants DEF Loader!LoaderAssumption, ClassesInv, Loader!TypeOK
<1>2. \A t \in R : t = objLock[l]
  BY DEF ClassesInv, Locking, Loader!Releases, InRelease
<1>3. CASE objLock[l] # NULL /\ Loader!Releases(objLock[l], l)
  <2>1. R = {objLock[l]}
    BY <1>1, <1>2, <1>3
  <2>2. Cardinality(R) = 1
    BY <2>1, FS_Singleton
  <2> QED
    BY <1>3, <2>2
<1>4. CASE ~(objLock[l] # NULL /\ Loader!Releases(objLock[l], l))
  <2>1. R = {}
    BY <1>1, <1>2, <1>4
  <2>2. Cardinality(R) = 0
    BY <2>1, FS_EmptySet
  <2> QED
    BY <1>4, <2>2
<1> QED
  BY <1>3, <1>4

LEMMA ObjectsMapped == ClassesInv => Loader!ObjectsAreMapped
<1> SUFFICES ASSUME ClassesInv PROVE Loader!ObjectsAreMapped
  OBVIOUS
<1>1. ASSUME NEW l \in Loaders, l \notin raced, live[l] > 0, ~loader_crashed
      PROVE  /\ mapped > 0 /\ l \in alive /\ factory # NULL
             /\ Loader!IsOwnedBy(l)
             /\ objs[l] = Loader!Made(l)
                  + Cardinality({t \in Threads : Loader!Releases(t, l)})
  <2>1. Used(l) /\ ObjsCounted(l) /\ Opening /\ live[l] \in Nat
          /\ objs[l] \in Int
    BY <1>1 DEF ClassesInv, Loader!TypeOK
  <2>2. mapped > 0 /\ l \in alive /\ factory # NULL /\ Loader!IsOwnedBy(l)
    BY <1>1, <2>1 DEF Used, Needed, Opening, Loader!IsOwnedBy
  <2>3. /\ Loader!Made(l) = live[l] - Cardinality(Counting(l))
        /\ Cardinality(Counting(l)) \in Nat
    BY <1>1, MadeIs, ThreadsFinite, FS_Subset, FS_CardinalityType DEF Counting
  <2>4. Cardinality({t \in Threads : Loader!Releases(t, l)})
          = IF objLock[l] # NULL /\ Loader!Releases(objLock[l], l)
            THEN 1 ELSE 0
    BY <1>1, ReleasesIs
  <2> QED
    BY <1>1, <2>1, <2>2, <2>3, <2>4 DEF ObjsCounted
<1>2. \A l \in Loaders :
        Loader!Cardinality({t \in Threads : Loader!Releases(t, l)})
          = Cardinality({t \in Threads : Loader!Releases(t, l)})
  BY CardinalityIs
<1> QED
  BY <1>1, <1>2 DEF Loader!ObjectsAreMapped, ClassesInv

-----------------------------------------------------------------------------
(* Calls that come one after another. Who is in a call is alone in one.    *)
LEMMA ActsAlone ==
  ASSUME ClassesInv, OneByOne, ~overlapped, failures = 0, NEW t \in Threads,
         loader_th[t].pc # "idle"
  PROVE  /\ ~loader_crashed /\ raced = {} /\ Loader!TypeOK /\ Working(t)
         /\ InStepAt(t)
         /\ loader_th[t].loader \in Loaders /\ ~Loader!Appending(t)
         /\ \A u \in Threads : u # t =>
              loader_th[u].pc = "idle" /\ loader_th[u].loader = NULL
         /\ NULL \notin Loaders
<1>1. ~loader_crashed /\ raced = {} /\ InStepAt(t)
  BY DEF OneByOne, Loader!At
<1>2. \A u \in Threads : u # t => loader_th[u].pc = "idle"
  BY DEF OneByOne, Loader!At
<1>3. \A u \in Threads : u # t => loader_th[u].loader = NULL
  BY <1>1, <1>2, WorksOn
<1>4. /\ Loader!TypeOK /\ Working(t) /\ loader_th[t].loader \in Loaders
      /\ NULL \notin Loaders
  BY <1>1, WorksOn
<1> QED
  BY <1>1, <1>2, <1>3, <1>4 DEF Loader!Appending, Loader!At

LEMMA StaysAlone ==
  ASSUME NEW t \in Threads, NEW loc, NEW l, NEW then, GoesTo(t, loc, l, then),
         \A u \in Threads : u # t => loader_th[u].pc = "idle",
         ~loader_crashed', raced' = {},
         loc # "idle" => InStepAt(t)', loc = "idle" => Quiet'
  PROVE  OneByOne'
<1>1. \A u \in Threads : u # t => loader_th'[u].pc = "idle"
  BY DEF GoesTo
<1>2. loader_th'[t].pc = loc
  BY DEF GoesTo
<1> QED
  BY <1>1, <1>2 DEF OneByOne, Loader!At

LEMMA Settled ==
  ASSUME NEW t \in Threads, NEW l, NEW then,
         NEW loc \in {"idle", "load", "find", "count", "unload", "unloaded",
           "release"},
         GoesTo(t, loc, l, then),
         \A u \in Threads : u # t => loader_th[u].pc = "idle",
         ~loader_crashed', raced' = {}, Quiet'
  PROVE  OneByOne'
<1>1. InStepAt(t)'
  BY DEF InStepAt, GoesTo, Loader!InLoad
<1> QED
  BY <1>1, StaysAlone

LEMMA QuietStays ==
  ASSUME Quiet, UNCHANGED <<loads, open, mapped, factory>> PROVE Quiet'
BY DEF Quiet, Loaded

(* A load is counted: the loader joins the owners, or is the first.        *)
LEMMA LoadsAlone ==
  ASSUME NEW t \in Threads, NEW l \in Loaders, NEW then, Quiet,
         GoesTo(t, "check", l, then),
         \A u \in Threads : u # t => loader_th[u].pc = "idle",
         ~loader_crashed', raced' = {}, loads'[l] > 0,
         \A k \in Loaders : k # l => loads'[k] = loads[k],
         UNCHANGED <<open, mapped, factory>>
  PROVE  OneByOne'
<1>1. Loaded' = Loaded \cup {l}
  BY DEF Loaded
<1>2. InStepAt(t)'
  BY <1>1 DEF InStepAt, GoesTo, Loader!InLoad, Quiet
<1> QED
  BY <1>2, StaysAlone

LEMMA CountLoadStep ==
  ASSUME ClassesInv, OneByOne, ~overlapped, failures = 0, NEW t \in Threads,
         Loader!CountLoad(t)
  PROVE  OneByOne'
<1> DEFINE l == loader_th[t].loader
<1>1. /\ loader_th[t].pc = "load" /\ loads' = [loads EXCEPT ![l] = @ + 1]
      /\ UNCHANGED <<open, mapped, factory, loader_crashed, raced>>
  BY DEF Loader!CountLoad, Loader!At, Loader!global, Loader!history
<1>2. /\ ~loader_crashed /\ raced = {} /\ Loader!TypeOK /\ InStepAt(t)
      /\ l \in Loaders
      /\ \A u \in Threads : u # t => loader_th[u].pc = "idle"
  BY <1>1, ActsAlone
<1>3. Quiet /\ loads \in [Loaders -> Nat]
  BY <1>1, <1>2 DEF InStepAt, Loader!InLoad, Loader!TypeOK
<1>4. GoesTo(t, "check", l, loader_th[t].then)
  BY <1>2, Going, LocationsAre DEF Loader!CountLoad
<1>5. loads'[l] > 0 /\ \A k \in Loaders : k # l => loads'[k] = loads[k]
  BY <1>1, <1>2, <1>3
<1> QED
  BY <1>1, <1>2, <1>3, <1>4, <1>5, LoadsAlone

LEMMA CheckLoadedStep ==
  ASSUME ClassesInv, OneByOne, ~overlapped, failures = 0, NEW t \in Threads,
         Loader!CheckLoaded(t)
  PROVE  OneByOne'
<1>1. /\ loader_th[t].pc = "check"
      /\ UNCHANGED <<loads, open, mapped, factory, loader_crashed, raced>>
  BY DEF Loader!CheckLoaded, Loader!At, Loader!counts, Loader!global,
     Loader!history
<1>2. /\ ~loader_crashed /\ raced = {} /\ Loader!TypeOK /\ InStepAt(t)
      /\ \A u \in Threads : u # t => loader_th[u].pc = "idle"
  BY <1>1, ActsAlone
<1>3. GoesTo(t, IF open THEN "list" ELSE "dlopen", loader_th[t].loader,
             loader_th[t].then)
  BY <1>1, <1>2, Going, LocationsAre DEF Loader!CheckLoaded
<1>4. InStepAt(t)'
  BY <1>1, <1>2, <1>3 DEF InStepAt, GoesTo, Loader!InLoad, Loaded
<1> QED
  BY <1>1, <1>2, <1>3, <1>4, StaysAlone

LEMMA ListFactoriesStep ==
  ASSUME ClassesInv, OneByOne, ~overlapped, failures = 0, NEW t \in Threads,
         Loader!ListFactories(t)
  PROVE  OneByOne'
<1>1. /\ loader_th[t].pc = "list"
      /\ UNCHANGED <<loads, open, mapped, factory, loader_crashed, raced>>
  BY DEF Loader!ListFactories, Loader!At, Loader!counts, Loader!global,
     Loader!history
<1>2. /\ ~loader_crashed /\ raced = {} /\ Loader!TypeOK /\ InStepAt(t)
      /\ \A u \in Threads : u # t => loader_th[u].pc = "idle"
  BY <1>1, ActsAlone
<1>3. factory # NULL
  BY <1>1, <1>2 DEF InStepAt
<1>4. factory.no \in Nat
  BY <1>2, <1>3 DEF Loader!TypeOK, Loader!Factories
<1>5. GoesFor(t, "attach", factory.no)
  BY <1>3 DEF Loader!ListFactories, GoesFor
<1>6. "attach" \in Loader!Locations
  BY LocationsAre
<1>7. GoesTo(t, "attach", loader_th[t].loader, loader_th[t].then)
        /\ loader_th'[t].ptr = factory.no
  BY <1>2, <1>4, <1>5, <1>6, GoingFor
<1>8. InStepAt(t)'
  BY <1>1, <1>2, <1>7 DEF InStepAt, GoesTo, Loader!InLoad, Loaded
<1> QED
  BY <1>1, <1>2, <1>7, <1>8, StaysAlone

LEMMA AttachStep ==
  ASSUME ClassesInv, OneByOne, ~overlapped, failures = 0, NEW t \in Threads,
         Loader!Attach(t)
  PROVE  OneByOne'
<1>1. loader_th[t].pc = "attach"
        /\ UNCHANGED <<loads, open, mapped, factory, raced>>
  BY DEF Loader!Attach, Loader!At, Loader!counts, Loader!global, Loader!history
<1>2. /\ ~loader_crashed /\ raced = {} /\ Loader!TypeOK /\ InStepAt(t)
      /\ ~Loader!Appending(t)
      /\ \A u \in Threads : u # t => loader_th[u].pc = "idle"
  BY <1>1, ActsAlone
<1>3. GoesTo(t, "append", loader_th[t].loader, loader_th[t].then)
  BY <1>1, <1>2, Going, LocationsAre DEF Loader!Attach
<1>4. ~loader_crashed'
  BY <1>1, <1>2 DEF Loader!Attach, Loader!IsFreed, InStepAt
<1>5. InStepAt(t)'
  BY <1>1, <1>2, <1>3 DEF InStepAt, GoesTo, Loader!InLoad, Loaded
<1> QED
  BY <1>1, <1>2, <1>3, <1>4, <1>5, StaysAlone

LEMMA AppendStep ==
  ASSUME ClassesInv, OneByOne, ~overlapped, failures = 0, NEW t \in Threads,
         Loader!Append(t)
  PROVE  OneByOne'
<1>1. /\ loader_th[t].pc = "append"
      /\ UNCHANGED <<loads, open, mapped, loader_crashed, raced>>
      /\ factory' = [factory EXCEPT !.owners = @ \cup {loader_th[t].loader}]
      /\ Loader!Returns(t)
  BY DEF Loader!Append, Loader!At, Loader!counts, Loader!history
<1>2. /\ ~loader_crashed /\ raced = {} /\ Loader!TypeOK /\ InStepAt(t)
      /\ Working(t)
      /\ \A u \in Threads : u # t => loader_th[u].pc = "idle"
  BY <1>1, ActsAlone
<1>3. /\ open /\ mapped = 1 /\ factory # NULL /\ factory \in Loader!Factories
      /\ factory.owners \cup {loader_th[t].loader} = Loaded
  BY <1>1, <1>2 DEF InStepAt, Loader!TypeOK
<1>4. factory'.owners = Loaded /\ factory' # NULL
  <2>1. factory' \in Loader!Factories
    <3>1. loader_th[t].loader \in Loaders
      BY <1>1, ActsAlone
    <3> QED
      BY <1>1, <1>3, <3>1 DEF Loader!Factories
  <2> QED
    BY <1>1, <1>3, <2>1, LoaderConstants
       DEF Loader!Factories, Loader!LoaderAssumption
<1>5. Quiet'
  BY <1>1, <1>3, <1>4 DEF Quiet, Loaded
<1>6. \/ GoesTo(t, "idle", NULL, "idle")
      \/ GoesTo(t, "find", loader_th[t].loader, "idle")
  BY <1>2, <1>1, Returning
<1> QED
  BY <1>1, <1>2, <1>5, <1>6, Settled

LEMMA DlOpenStep ==
  ASSUME ClassesInv, OneByOne, ~overlapped, failures = 0, NEW t \in Threads,
         Loader!DlOpen(t)
  PROVE  OneByOne'
<1> DEFINE l == loader_th[t].loader
<1>1. loader_th[t].pc = "dlopen"
        /\ UNCHANGED <<loads, open, loader_crashed, raced>>
  BY DEF Loader!DlOpen, Loader!At, Loader!counts, Loader!history
<1>2. /\ ~loader_crashed /\ raced = {} /\ Loader!TypeOK /\ InStepAt(t)
      /\ \A u \in Threads : u # t => loader_th[u].pc = "idle"
  BY <1>1, ActsAlone
<1>3. ~open /\ mapped = 0 /\ Loaded = {l} /\ l \in Loaders
  BY <1>1, <1>2, ActsAlone DEF InStepAt
<1>4. /\ mapped' = 1 /\ factory' = [no |-> factories + 1, owners |-> {l}]
      /\ Loader!Goto(t, "emplace")
  BY <1>3 DEF Loader!DlOpen, Loader!RegisterClass
<1>5. GoesTo(t, "emplace", l, loader_th[t].then)
  BY <1>2, <1>4, Going, LocationsAre
<1>6. factory' # NULL /\ factory'.owners = {l}
  <2>1. factory' \in Loader!Factories
    BY <1>2, <1>3, <1>4 DEF Loader!Factories, Loader!TypeOK
  <2> QED
    BY <1>4, <2>1, LoaderConstants DEF Loader!LoaderAssumption
<1>7. InStepAt(t)'
  BY <1>1, <1>3, <1>4, <1>5, <1>6 DEF InStepAt, GoesTo, Loader!InLoad, Loaded
<1> QED
  BY <1>1, <1>2, <1>5, <1>7, StaysAlone

LEMMA EmplaceStep ==
  ASSUME ClassesInv, OneByOne, ~overlapped, failures = 0, NEW t \in Threads,
         Loader!Emplace(t)
  PROVE  OneByOne'
<1>1. /\ loader_th[t].pc = "emplace"
      /\ UNCHANGED <<loads, mapped, factory, loader_crashed, raced>>
      /\ open' = TRUE /\ Loader!Returns(t)
  BY DEF Loader!Emplace, Loader!At, Loader!counts, Loader!history
<1>2. /\ ~loader_crashed /\ raced = {} /\ Loader!TypeOK /\ InStepAt(t)
      /\ Working(t)
      /\ \A u \in Threads : u # t => loader_th[u].pc = "idle"
  BY <1>1, ActsAlone
<1>3. Quiet'
  BY <1>1, <1>2 DEF InStepAt, Quiet, Loaded
<1>4. \/ GoesTo(t, "idle", NULL, "idle")
      \/ GoesTo(t, "find", loader_th[t].loader, "idle")
  BY <1>2, <1>1, Returning
<1> QED
  BY <1>1, <1>2, <1>3, <1>4, Settled

(* UnloadLibrary returns, or the manager goes on; nobody else is there.    *)
LEMMA LeavesAlone ==
  ASSUME ClassesInv, OneByOne, ~overlapped, failures = 0, NEW t \in Threads,
         loader_th[t].pc # "idle", NEW remain, Loader!AfterUnload(t, remain),
         raced' = raced, Quiet'
  PROVE  OneByOne'
<1>1. /\ Loader!TypeOK /\ raced = {} /\ loader_th[t].loader \in Loaders
      /\ \A u \in Threads : u # t =>
           loader_th[u].pc = "idle" /\ loader_th[u].loader = NULL
      /\ NULL \notin Loaders
  BY ActsAlone
<1>2. /\ \/ GoesTo(t, "unload", loader_th[t].loader, "delete")
         \/ GoesTo(t, "idle", NULL, "idle")
      /\ ~loader_crashed'
  BY <1>1, AfterUnloading
<1> QED
  BY <1>1, <1>2, Settled

LEMMA CountUnloadStep ==
  ASSUME ClassesInv, OneByOne, ~overlapped, failures = 0, NEW t \in Threads,
         Loader!CountUnload(t)
  PROVE  OneByOne'
<1> DEFINE l == loader_th[t].loader
           remain == IF Loader!InUse(l) THEN loads[l]
                     ELSE IF loads[l] = 0 THEN 0 ELSE loads[l] - 1
<1>1. /\ loader_th[t].pc = "unload" /\ UNCHANGED <<open, mapped, factory>>
      /\ loads' = [loads EXCEPT ![l] = remain]
  BY DEF Loader!CountUnload, Loader!At, Loader!global
<1>2. /\ ~loader_crashed /\ raced = {} /\ Loader!TypeOK /\ InStepAt(t)
      /\ l \in Loaders
      /\ \A u \in Threads : u # t =>
           loader_th[u].pc = "idle" /\ loader_th[u].loader = NULL
  BY <1>1, ActsAlone
<1>3. Quiet /\ loads \in [Loaders -> Nat]
  BY <1>1, <1>2 DEF InStepAt, Loader!InLoad, Loader!TypeOK
<1>4. raced' = raced
  <2>1. ~Loader!Making(l)
    BY <1>1, <1>2 DEF Loader!Making
  <2> QED
    BY <2>1 DEF Loader!CountUnload
<1>5. CASE Loader!InUse(l) \/ loads[l] # 1
  <2>1. Loader!AfterUnload(t, remain)
    BY <1>5 DEF Loader!CountUnload
  <2>2. remain \in Nat /\ (loads[l] > 0 <=> remain > 0)
    BY <1>2, <1>3, <1>5
  <2> HIDE DEF remain
  <2>3. Loaded' = Loaded
    BY <1>1, <1>3, <2>2 DEF Loaded
  <2>4. Quiet'
    BY <1>1, <1>3, <2>3 DEF Quiet
  <2> QED
    BY <1>1, <1>4, <2>1, <2>4, LeavesAlone
<1>6. CASE ~Loader!InUse(l) /\ loads[l] = 1
  <2>1. /\ loads' = [loads EXCEPT ![l] = 0] /\ Loader!Goto(t, "destroy")
        /\ loader_crashed' = loader_crashed
    BY <1>1, <1>6 DEF Loader!CountUnload
  <2>2. GoesTo(t, "destroy", l, loader_th[t].then)
    BY <1>2, <2>1, Going, LocationsAre
  <2>3. Loaded' = Loaded \ {l} /\ l \in Loaded
    BY <1>2, <1>3, <1>6, <2>1 DEF Loaded
  <2>4. InStepAt(t)'
    BY <1>1, <1>3, <2>2, <2>3 DEF InStepAt, GoesTo, Loader!InLoad, Quiet
  <2> QED
    BY <1>1, <1>2, <1>4, <2>1, <2>2, <2>4, StaysAlone
<1> QED
  BY <1>5, <1>6

LEMMA DestroyFactoriesStep ==
  ASSUME ClassesInv, OneByOne, ~overlapped, failures = 0, NEW t \in Threads,
         Loader!DestroyFactories(t)
  PROVE  OneByOne'
<1> DEFINE l == loader_th[t].loader
           owners == Loader!RemoveOwnedClassLoader(l)
<1>1. loader_th[t].pc = "destroy" /\ UNCHANGED <<loads, open, mapped, raced>>
  BY DEF Loader!DestroyFactories, Loader!At, Loader!counts, Loader!history
<1>2. /\ ~loader_crashed /\ raced = {} /\ Loader!TypeOK /\ InStepAt(t)
      /\ ~Loader!Appending(t)
      /\ \A u \in Threads : u # t => loader_th[u].pc = "idle"
  BY <1>1, ActsAlone
<1>3. /\ open /\ mapped = 1 /\ factory # NULL /\ factory \in Loader!Factories
      /\ factory.owners \ {l} = Loaded
  BY <1>1, <1>2 DEF InStepAt, Loader!TypeOK
<1>4. owners = Loaded
  BY <1>3 DEF Loader!RemoveOwnedClassLoader
<1>5. /\ ~loader_crashed' /\ Loader!Goto(t, "close")
      /\ factory' = IF owners = {} THEN NULL
                    ELSE [factory EXCEPT !.owners = owners]
  BY <1>2, <1>3 DEF Loader!DestroyFactories
<1>6. GoesTo(t, "close", l, loader_th[t].then)
  BY <1>2, <1>5, Going, LocationsAre
<1>7. (factory' = NULL <=> Loaded = {})
        /\ (factory' # NULL => factory'.owners = Loaded)
  <2>1. Loaded \in SUBSET Loaders
    BY DEF Loaded
  <2>2. /\ [factory EXCEPT !.owners = Loaded] \in Loader!Factories
        /\ [factory EXCEPT !.owners = Loaded].owners = Loaded
    BY <1>3, <2>1 DEF Loader!Factories
  <2> QED
    BY <1>4, <1>5, <2>2, LoaderConstants DEF Loader!LoaderAssumption
<1>8. Loaded' = Loaded
  BY <1>1 DEF Loaded
<1> HIDE DEF l, owners
<1>9. InStepAt(t)'
  BY <1>1, <1>3, <1>6, <1>7, <1>8 DEF InStepAt, GoesTo, Loader!InLoad
<1> QED
  BY <1>1, <1>2, <1>5, <1>6, <1>9, StaysAlone

LEMMA CloseStep ==
  ASSUME ClassesInv, OneByOne, ~overlapped, failures = 0, NEW t \in Threads,
         Loader!Close(t)
  PROVE  OneByOne'
<1>1. /\ loader_th[t].pc = "close"
      /\ UNCHANGED <<loads, factory, loader_crashed, raced>>
      /\ open' = IF factory = NULL THEN FALSE ELSE open
      /\ mapped' = IF factory = NULL THEN mapped - 1 ELSE mapped
  BY DEF Loader!Close, Loader!At, Loader!counts, Loader!history
<1>2. /\ ~loader_crashed /\ raced = {} /\ Loader!TypeOK /\ InStepAt(t)
      /\ \A u \in Threads : u # t => loader_th[u].pc = "idle"
  BY <1>1, ActsAlone
<1>3. GoesTo(t, "unloaded", loader_th[t].loader, loader_th[t].then)
  BY <1>2, Going, LocationsAre DEF Loader!Close
<1>4. Loaded' = Loaded
  BY <1>1 DEF Loaded
<1>5. Quiet'
  BY <1>1, <1>2, <1>4 DEF InStepAt, Quiet
<1> QED
  BY <1>1, <1>2, <1>3, <1>5, Settled

(* The steps that leave the library as it is.                              *)
LEMMA UnloadedStep ==
  ASSUME ClassesInv, OneByOne, ~overlapped, failures = 0, NEW t \in Threads,
         Loader!Unloaded(t)
  PROVE  OneByOne'
<1>1. /\ loader_th[t].pc = "unloaded" /\ Loader!AfterUnload(t, 0)
      /\ UNCHANGED <<loads, open, mapped, factory, raced>>
  BY DEF Loader!Unloaded, Loader!At, Loader!global, Loader!history
<1>2. InStepAt(t)
  BY <1>1, ActsAlone
<1>3. Quiet'
  BY <1>1, <1>2, QuietStays DEF InStepAt, Loader!InLoad
<1> QED
  BY <1>1, <1>3, LeavesAlone

LEMMA FindStep ==
  ASSUME ClassesInv, OneByOne, ~overlapped, failures = 0, NEW t \in Threads,
         Loader!Find(t)
  PROVE  OneByOne'
<1>1. /\ loader_th[t].pc = "find"
      /\ UNCHANGED <<loads, open, mapped, factory, loader_crashed, raced>>
  BY DEF Loader!Find, Loader!At, Loader!counts, Loader!global, Loader!history
<1>2. /\ ~loader_crashed /\ raced = {} /\ Loader!TypeOK /\ InStepAt(t)
      /\ Working(t)
      /\ \A u \in Threads : u # t => loader_th[u].pc = "idle"
  BY <1>1, ActsAlone
<1>3. Quiet /\ loader_th[t].then = "idle"
  BY <1>1, <1>2 DEF InStepAt, Loader!InLoad, Working, Loader!InUnload
<1>4. Quiet'
  BY <1>1, <1>3, QuietStays
<1>5. CASE factory = NULL
  <2>1. GoesTo(t, "idle", NULL, "idle")
    BY <1>2, <1>3, <1>5, Returning DEF Loader!Find
  <2> QED
    BY <1>1, <1>2, <1>4, <2>1, Settled
<1>6. CASE factory # NULL
  <2>1. factory.no \in Nat
    BY <1>2, <1>6 DEF Loader!TypeOK, Loader!Factories
  <2>2. GoesFor(t, "own", factory.no)
    BY <1>6 DEF Loader!Find, GoesFor
  <2>3. "own" \in Loader!Locations
    BY LocationsAre
  <2>4. GoesTo(t, "own", loader_th[t].loader, loader_th[t].then)
          /\ loader_th'[t].ptr = factory.no
    BY <1>2, <2>1, <2>2, <2>3, GoingFor
  <2>5. InStepAt(t)'
    BY <1>1, <1>4, <1>6, <2>4 DEF InStepAt, GoesTo, Loader!InLoad
  <2> QED
    BY <1>1, <1>2, <2>4, <2>5, StaysAlone
<1> QED
  BY <1>5, <1>6

LEMMA OwnStep ==
  ASSUME ClassesInv, OneByOne, ~overlapped, failures = 0, NEW t \in Threads,
         Loader!Own(t)
  PROVE  OneByOne'
<1> DEFINE l == loader_th[t].loader
           owned == ~Loader!IsFreed(loader_th[t].ptr) /\ Loader!IsOwnedBy(l)
<1>1. /\ loader_th[t].pc = "own"
      /\ UNCHANGED <<loads, open, mapped, factory>>
  BY DEF Loader!Own, Loader!At, Loader!counts, Loader!global
<1>2. /\ ~loader_crashed /\ raced = {} /\ Loader!TypeOK /\ InStepAt(t)
      /\ Working(t) /\ ~Loader!Appending(t) /\ l \in Loaders
      /\ NULL \notin Loaders
      /\ \A u \in Threads : u # t =>
           loader_th[u].pc = "idle" /\ loader_th[u].loader = NULL
  BY <1>1, ActsAlone
<1>3. /\ Quiet /\ ~Loader!IsFreed(loader_th[t].ptr) /\ loader_th[t].then = "idle"
      /\ factory # NULL /\ loader_th[t].ptr = factory.no
  BY <1>1, <1>2
     DEF InStepAt, Loader!InLoad, Loader!IsFreed, Working, Loader!InUnload
<1>4. Quiet'
  BY <1>1, <1>3, QuietStays
<1>5. ~Loader!Unloading(l)
  BY <1>1, <1>2, <1>3 DEF Loader!Unloading, Loader!InUnload
<1>6. ~loader_crashed' /\ raced' = {}
  BY <1>2, <1>3, <1>5 DEF Loader!Own
<1>7. CASE owned
  <2>1. Loader!Goto(t, "make")
    BY <1>7 DEF Loader!Own
  <2>2. GoesTo(t, "make", l, loader_th[t].then)
    BY <1>2, <2>1, Going, LocationsAre
  <2>3. loader_th'[t].ptr = loader_th[t].ptr
    BY <1>2, <2>1
       DEF Loader!Goto, Loader!Set, Loader!TypeOK, Loader!ThreadStates
  <2>4. InStepAt(t)'
    BY <1>1, <1>3, <1>4, <2>2, <2>3 DEF InStepAt, GoesTo, Loader!InLoad
  <2> QED
    BY <1>2, <1>6, <2>2, <2>4, StaysAlone
<1>8. CASE ~owned
  <2>1. GoesTo(t, "idle", NULL, "idle")
    BY <1>2, <1>3, <1>8, Returning DEF Loader!Own
  <2> QED
    BY <1>2, <1>4, <1>6, <2>1, Settled
<1> QED
  BY <1>7, <1>8

LEMMA MakeStep ==
  ASSUME ClassesInv, OneByOne, ~overlapped, failures = 0, NEW t \in Threads,
         Loader!Make(t)
  PROVE  OneByOne'
<1>1. /\ loader_th[t].pc = "make"
      /\ UNCHANGED <<loads, open, mapped, factory, raced>>
  BY DEF Loader!Make, Loader!At, Loader!global, Loader!history
<1>2. /\ ~loader_crashed /\ raced = {} /\ Loader!TypeOK /\ InStepAt(t)
      /\ \A u \in Threads : u # t => loader_th[u].pc = "idle"
  BY <1>1, ActsAlone
<1>3. Quiet /\ ~Loader!IsFreed(loader_th[t].ptr)
  BY <1>1, <1>2 DEF InStepAt, Loader!InLoad, Loader!IsFreed
<1>4. Quiet'
  BY <1>1, <1>3, QuietStays
<1>5. ~loader_crashed' /\ Loader!Goto(t, "count")
  BY <1>3 DEF Loader!Make
<1>6. GoesTo(t, "count", loader_th[t].loader, loader_th[t].then)
  BY <1>2, <1>5, Going, LocationsAre
<1> QED
  BY <1>1, <1>2, <1>4, <1>5, <1>6, Settled

LEMMA ReadStep ==
  ASSUME ClassesInv, OneByOne, ~overlapped, failures = 0, NEW t \in Threads,
         Loader!CountRead(t) \/ Loader!ReleaseRead(t)
  PROVE  OneByOne'
<1>1. /\ loader_th[t].pc \in {"count", "release"}
      /\ UNCHANGED <<loads, objs, open, mapped, factory, loader_crashed,
                     raced>>
  BY DEF Loader!CountRead, Loader!ReleaseRead, Loader!At, Loader!counts,
     Loader!global, Loader!history
<1>2. /\ ~loader_crashed /\ raced = {} /\ Loader!TypeOK /\ InStepAt(t)
      /\ loader_th[t].loader \in Loaders
      /\ \A u \in Threads : u # t => loader_th[u].pc = "idle"
  BY <1>1, ActsAlone
<1>3. Quiet'
  BY <1>1, <1>2, QuietStays DEF InStepAt, Loader!InLoad
<1>4. PICK loc \in {"counted", "released"} :
        GoesWith(t, loc, objs[loader_th[t].loader])
  BY DEF Loader!CountRead, Loader!ReleaseRead, GoesWith
<1>5. objs[loader_th[t].loader] \in Int /\ loc \in Loader!Locations
  BY <1>2, LocationsAre DEF Loader!TypeOK
<1>6. /\ GoesTo(t, loc, loader_th[t].loader, loader_th[t].then)
      /\ loader_th'[t].count = objs[loader_th[t].loader]
  BY <1>2, <1>4, <1>5, GoingCounted
<1>7. InStepAt(t)'
  BY <1>1, <1>3, <1>6 DEF InStepAt, GoesTo, Loader!InLoad
<1> QED
  BY <1>1, <1>2, <1>6, <1>7, StaysAlone

LEMMA WriteStep ==
  ASSUME ClassesInv, OneByOne, ~overlapped, failures = 0, NEW t \in Threads,
         Loader!CountWrite(t) \/ Loader!ReleaseWrite(t)
  PROVE  OneByOne'
<1>1. /\ loader_th[t].pc \in {"counted", "released"} /\ Loader!Returns(t)
      /\ raced' = IF objs[loader_th[t].loader] # loader_th[t].count
                  THEN raced \cup {loader_th[t].loader} ELSE raced
      /\ UNCHANGED <<loads, open, mapped, factory, loader_crashed>>
  BY DEF Loader!CountWrite, Loader!ReleaseWrite, Loader!At, Loader!global
<1>2. /\ ~loader_crashed /\ raced = {} /\ Loader!TypeOK /\ InStepAt(t)
      /\ Working(t)
      /\ \A u \in Threads : u # t => loader_th[u].pc = "idle"
  BY <1>1, ActsAlone
<1>3. Quiet' /\ raced' = {}
  BY <1>1, <1>2, QuietStays DEF InStepAt, Loader!InLoad
<1>4. loader_th[t].then = "idle"
  BY <1>1, <1>2 DEF Working, Loader!InLoad, Loader!InUnload
<1>5. GoesTo(t, "idle", NULL, "idle")
  BY <1>1, <1>2, <1>4, Returning
<1> QED
  BY <1>1, <1>2, <1>3, <1>5, Settled

-----------------------------------------------------------------------------
(* A call begins when no other is going on, and finds all in step.         *)
LEMMA BeginsAlone ==
  ASSUME ClassesInv, OneByOne, ~overlapped', failures = 0, NEW t \in Threads,
         NEW l \in Loaders, NEW loc \in Loader!Locations,
         NEW then \in {"idle", "construct", "find", "delete", "manager"},
         Loader!Begin(t, l, loc, then)
  PROVE  /\ ~loader_crashed /\ raced = {} /\ raced' = {} /\ Quiet
         /\ GoesTo(t, loc, l, then)
         /\ \A u \in Threads : u # t => loader_th[u].pc = "idle"
<1>1. /\ GoesTo(t, loc, l, then) /\ raced' = raced /\ ~overlapped
      /\ \A u \in Threads : Loader!At(u, "idle")
  BY Beginning DEF ClassesInv
<1> QED
  BY <1>1 DEF OneByOne, Loader!At

LEMMA CallsStep ==
  ASSUME ClassesInv, OneByOne, ~overlapped', failures = 0, NEW t \in Threads,
         NEW l \in Loaders, Loader!Calls(t, l)
  PROVE  OneByOne'
<1>1. loads \in [Loaders -> Nat]
  BY DEF ClassesInv, Loader!TypeOK
<1>2. CASE Loader!New(t, l)
  <2>1. /\ Loader!Begin(t, l, "check", "construct")
        /\ loads' = [loads EXCEPT ![l] = 1]
        /\ UNCHANGED <<open, mapped, factory, loader_crashed>>
    BY <1>2 DEF Loader!New, Loader!global
  <2>2. loads'[l] > 0 /\ \A k \in Loaders : k # l => loads'[k] = loads[k]
    BY <1>1, <2>1
  <2>3. "check" \in Loader!Locations
    BY LocationsAre
  <2>4. /\ ~loader_crashed /\ raced' = {} /\ Quiet
        /\ GoesTo(t, "check", l, "construct")
        /\ \A u \in Threads : u # t => loader_th[u].pc = "idle"
    BY <2>1, <2>3, BeginsAlone
  <2> QED
    BY <2>1, <2>2, <2>4, LoadsAlone
<1>3. CASE \/ Loader!LoadLibrary(t, l) \/ Loader!CreateClassObj(t, l)
           \/ Loader!UnloadLibrary(t, l) \/ Loader!Delete(t, l)
           \/ Loader!ManagerUnload(t, l)
  <2>1. PICK loc \in {"load", "find", "unload"},
          then \in {"idle", "find", "delete", "manager"} :
          Loader!Begin(t, l, loc, then)
    BY <1>3
       DEF Loader!LoadLibrary, Loader!CreateClassObj, Loader!UnloadLibrary,
           Loader!Delete, Loader!ManagerUnload, Loader!Unload
  <2>2. UNCHANGED <<loads, open, mapped, factory, loader_crashed>>
    BY <1>3
       DEF Loader!LoadLibrary, Loader!CreateClassObj, Loader!UnloadLibrary,
           Loader!Delete, Loader!ManagerUnload, Loader!Unload, Loader!counts,
           Loader!global
  <2>3. loc \in Loader!Locations
    BY LocationsAre
  <2>4. /\ ~loader_crashed /\ raced' = {} /\ Quiet
        /\ GoesTo(t, loc, l, then)
        /\ \A u \in Threads : u # t => loader_th[u].pc = "idle"
    BY <2>1, <2>3, BeginsAlone
  <2>5. Quiet'
    BY <2>2, <2>4, QuietStays
  <2> QED
    BY <2>2, <2>4, <2>5, Settled
<1>4. CASE Loader!Release(t, l)
  <2>1. /\ Loader!Begin(t, l, "release", "idle") /\ Loader!Made(l) > 0
        /\ loader_crashed' = (l \notin alive \/ mapped = 0)
        /\ UNCHANGED <<loads, open, mapped, factory>>
    BY <1>4 DEF Loader!Release, Loader!global
  <2>2. "release" \in Loader!Locations
    BY LocationsAre
  <2>3. /\ ~loader_crashed /\ raced = {} /\ raced' = {} /\ Quiet
        /\ GoesTo(t, "release", l, "idle")
        /\ \A u \in Threads : u # t => loader_th[u].pc = "idle"
    BY <2>1, <2>2, BeginsAlone
  <2>4. live[l] > 0 /\ raced = {}
    <3>1. Cardinality(Counting(l)) \in Nat
      BY ThreadsFinite, FS_Subset, FS_CardinalityType DEF Counting
    <3> QED
      BY <2>1, <2>3, <3>1, MadeIs DEF ClassesInv, Loader!TypeOK
  <2>5. ~loader_crashed'
    <3>1. l \in alive /\ mapped > 0
      BY <2>3, <2>4, ObjectsMapped DEF Loader!ObjectsAreMapped
    <3>2. mapped # 0
      BY <3>1 DEF ClassesInv, Loader!TypeOK
    <3> QED
      BY <2>1, <3>1, <3>2
  <2>6. Quiet'
    BY <2>1, <2>3, QuietStays
  <2> QED
    BY <2>3, <2>5, <2>6, Settled
<1> QED
  BY <1>2, <1>3, <1>4
     DEF Loader!Calls, Loader!Construct, Loader!ManagerLoad

LEMMA StepsStep ==
  ASSUME ClassesInv, OneByOne, ~overlapped, failures' = 0, NEW t \in Threads,
         Loader!Steps(t)
  PROVE  OneByOne'
<1>1. CASE Loader!DlOpenFails(t)
  BY <1>1 DEF Loader!DlOpenFails, ClassesInv, Loader!TypeOK
<1>2. CASE ~Loader!DlOpenFails(t)
  <2>1. failures = 0
    BY <1>2
       DEF Loader!Steps, Loader!CountLoad, Loader!CheckLoaded, Loader!ListFactories,
           Loader!Attach, Loader!Append, Loader!DlOpen, Loader!Emplace,
           Loader!CountUnload, Loader!DestroyFactories, Loader!Close,
           Loader!Unloaded, Loader!Find, Loader!Own, Loader!Make, Loader!CountRead,
           Loader!CountWrite, Loader!ReleaseRead, Loader!ReleaseWrite
  <2>2. CASE \/ Loader!CountLoad(t) \/ Loader!CheckLoaded(t)
             \/ Loader!ListFactories(t) \/ Loader!Attach(t) \/ Loader!Append(t)
    BY <2>1, <2>2, CountLoadStep, CheckLoadedStep, ListFactoriesStep, AttachStep, AppendStep
  <2>3. CASE Loader!DlOpen(t) \/ Loader!Emplace(t)
    BY <2>1, <2>3, DlOpenStep, EmplaceStep
  <2>4. CASE Loader!CountUnload(t) \/ Loader!DestroyFactories(t)
               \/ Loader!Close(t) \/ Loader!Unloaded(t)
    BY <2>1, <2>4, CountUnloadStep, DestroyFactoriesStep, CloseStep,
       UnloadedStep
  <2>5. CASE \/ Loader!Find(t) \/ Loader!Own(t) \/ Loader!Make(t) \/ Loader!CountRead(t)
             \/ Loader!CountWrite(t)
             \/ Loader!ReleaseRead(t) \/ Loader!ReleaseWrite(t)
    BY <2>1, <2>5, FindStep, OwnStep, MakeStep, ReadStep, WriteStep
  <2> QED
    BY <1>2, <2>2, <2>3, <2>4, <2>5 DEF Loader!Steps
<1> QED
  BY <1>1, <1>2

LEMMA OverlappedStays ==
  ASSUME NEW t \in Threads, Loader!Steps(t), ~overlapped' PROVE ~overlapped
BY DEF Loader!Steps, Loader!CountLoad, Loader!CheckLoaded, Loader!ListFactories, Loader!Attach,
   Loader!Append, Loader!DlOpen, Loader!DlOpenFails, Loader!Emplace,
   Loader!CountUnload, Loader!DestroyFactories, Loader!Close, Loader!Unloaded,
   Loader!Find, Loader!Own, Loader!Make, Loader!CountRead, Loader!CountWrite,
   Loader!ReleaseRead, Loader!ReleaseWrite, Loader!history

LEMMA OneByOneNext == ClassesInv /\ OneByOne /\ [Loader!Next]_(Loader!vars) =>
  OneByOne'
<1> SUFFICES ASSUME ClassesInv, OneByOne, [Loader!Next]_(Loader!vars)
                      PROVE OneByOne'
  OBVIOUS
<1>1. CASE UNCHANGED Loader!vars
  BY <1>1
     DEF Loader!vars, Loader!counts, Loader!global, Loader!history, OneByOne,
         Quiet, InStepAt, Loaded, Loader!At
<1>2. CASE Loader!Next
  <2> SUFFICES ASSUME ~overlapped', failures' = 0 PROVE OneByOne'
    BY DEF OneByOne
  <2>1. PICK t \in Threads : Loader!Steps(t)
          \/ \E l \in Loaders : Loader!Calls(t, l)
    BY <1>2 DEF Loader!Next
  <2>2. CASE Loader!Steps(t)
    BY <2>2, StepsStep, OverlappedStays
  <2>3. CASE \E l \in Loaders : Loader!Calls(t, l)
    <3>1. PICK l \in Loaders : Loader!Calls(t, l)
      BY <2>3
    <3>2. failures = 0
      BY <3>1
         DEF Loader!Calls, Loader!Construct, Loader!ManagerLoad, Loader!New,
             Loader!LoadLibrary, Loader!CreateClassObj, Loader!UnloadLibrary,
             Loader!Delete, Loader!ManagerUnload, Loader!Unload, Loader!Release
    <3> QED
      BY <3>1, <3>2, CallsStep
  <2> QED
    BY <2>1, <2>2, <2>3
<1> QED
  BY <1>1, <1>2

LEMMA StepKept == OneByOne => Loader!InStep
<1>1. OneByOne /\ (\A t \in Threads : Loader!At(t, "idle")) /\ ~overlapped
        /\ failures = 0
        => ~loader_crashed /\ Quiet
  BY DEF OneByOne
<1> QED
  BY <1>1 DEF Loader!InStep, Quiet, Loaded

LEMMA ClassesHold == Loader!Spec => [](ClassesInv /\ OneByOne)
<1>1. ClassesInv /\ OneByOne /\ [Loader!Next]_(Loader!vars)
        => (ClassesInv /\ OneByOne)'
  BY ClassesNext, ClassesStay, OneByOneNext
<1> QED
  BY <1>1, ClassesInit, PTL DEF Loader!Spec

-----------------------------------------------------------------------------
(* Whoever has an object of the library finds the library mapped and its   *)
(* loader alive and counting it, whatever any threads load, make and       *)
(* unload meanwhile, with this loader or another. Excepted are the loaders *)
(* whose count did not tell UnloadLibrary the truth (raced): two threads   *)
(* changed it at once, or an object of the same loader was made and not    *)
(* yet counted (ClassLoader::UnloadLibrary, ClassLoader::CreateClassObj,   *)
(* utility::UnloadLibrary).                                                *)
THEOREM ObjectsStayMapped == Loader!Spec => []ObjectsAreMapped
<1>1. ClassesInv => ObjectsAreMapped
  BY ObjectsMapped DEF ObjectsAreMapped
<1> QED
  BY <1>1, ClassesHold, PTL

(* After calls that came one after another, on whatever threads, and that  *)
(* never failed to open the library, it is open and mapped once exactly    *)
(* while a loader counts a load of it, and exactly those loaders own its   *)
(* factory; no step of such calls uses a freed factory                     *)
(* (ClassLoader::LoadLibrary, CreateClassObj and UnloadLibrary).           *)
THEOREM CallsKeepStep == Loader!Spec => []InStep
<1>1. OneByOne => InStep
  BY StepKept DEF InStep
<1> QED
  BY <1>1, ClassesHold, PTL
=============================================================================
