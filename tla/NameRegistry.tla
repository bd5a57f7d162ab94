---------------------------- MODULE NameRegistry ----------------------------
(***************************************************************************)
(* Names and their numbers: RegisterChannel, RegisterNode and              *)
(* RegisterTaskName of common/global_data.cpp and their GetById, on the    *)
(* lock-free map of base/atmoic_hash_map.h. Each thread takes one atomic   *)
(* load or exchange at a time.                                             *)
(*                                                                         *)
(* An entry, and the string it is made with, is named after the operation  *)
(* that made it, for an operation makes at most one of each that others    *)
(* see. Entries are never removed; the string of one is replaced, and the  *)
(* old one deleted, each time the name is registered again.                *)
(***************************************************************************)
EXTENDS Naturals, FiniteSets

CONSTANTS
  Threads,
  Names,
  Hash,          \* Hash[name]
  TableSize,     \* buckets
  MaxId,         \* bound: ids are 0..MaxId
  MaxOps,        \* bound: operations of a thread
  NULL

ASSUME RegistryAssumption ==
  /\ TableSize \in Nat \ {0} /\ MaxId \in Nat /\ MaxOps \in Nat
  /\ Hash \in [Names -> 0..MaxId]
  /\ "head" \notin Threads

VARIABLES
  entry,         \* key and string of an entry in a list
  next,          \* next entry of an entry or of the head of a bucket
  th,            \* the threads, see Idle
  crashed,       \* a string was read that had been deleted
  returned,      \* history: names registered with their ids
  earlier        \* history: returned when a name was first registered

vars == <<entry, next, th, crashed, returned, earlier>>
map == <<entry, next>>
history == <<returned, earlier>>

Ids == 0..MaxId
Ops == Threads \X (1..MaxOps)
Heads == {"head"} \X (0..(TableSize - 1))

HeadOf(key) == <<"head", key % TableSize>>      \* key & mode_num_
Linked == {e \in Ops : entry[e] # NULL}

Values == [name : Names, op : Ops]              \* strings
Entries == [key : Ids, value : Values]
Pairs == Names \X Ids

ASSUME NullAssumption ==
  /\ NULL \notin Names \cup Ops \cup Values \cup Entries
  /\ \A s \in SUBSET Pairs : s # NULL

(* Of a thread: what it does, with which name (NULL in GetById) and id,    *)
(* what it walks the list for, and the locals of Find.                     *)
Idle == [pc |-> "idle", ops |-> 0, name |-> NULL, key |-> 0, for |-> "has",
         prev |-> NULL, target |-> NULL, old |-> NULL]

Init ==
  /\ entry = [e \in Ops |-> NULL]
  /\ next = [e \in Ops \cup Heads |-> NULL]
  /\ th = [t \in Threads |-> Idle]
  /\ crashed = FALSE
  /\ returned = {}
  /\ earlier = [n \in Names |-> NULL]

-----------------------------------------------------------------------------
Op(t) == <<t, th[t].ops>>
Goto(t, r) == th' = [th EXCEPT ![t] = r]
Walk(r, key, for) == [r EXCEPT !.pc = "start", !.key = key, !.for = for]
Done(r) == [Idle EXCEPT !.ops = r.ops]

Begin(t, name, key, for) ==
  /\ th[t].pc = "idle" /\ th[t].ops < MaxOps
  /\ Goto(t, Walk([th[t] EXCEPT !.ops = @ + 1, !.name = name], key, for))

Register(t, n) ==
  /\ Begin(t, n, Hash[n], "has")
  /\ earlier' = [earlier EXCEPT ![n] = IF @ = NULL THEN returned ELSE @]
  /\ UNCHANGED <<map, crashed, returned>>

GetById(t, id) ==
  /\ Begin(t, NULL, id, "get")
  /\ UNCHANGED <<map, crashed, history>>

(* The loops of Has and Find.                                              *)
WalkStart(t) ==
  /\ th[t].pc = "start"
  /\ Goto(t, [th[t] EXCEPT !.pc = "walk", !.prev = HeadOf(th[t].key),
                           !.target = next[HeadOf(th[t].key)]])
  /\ UNCHANGED <<map, crashed, history>>

Before(r) == r.target # NULL /\ entry[r.target].key < r.key
Found(r) == r.target # NULL /\ entry[r.target].key = r.key

WalkStep(t) ==
  /\ th[t].pc = "walk" /\ Before(th[t])
  /\ Goto(t, [th[t] EXCEPT !.prev = th[t].target, !.target = next[th[t].target]])
  /\ UNCHANGED <<map, crashed, history>>

(* A key that Has finds is looked up again with Get; one that it does not  *)
(* find is set. Get and the update in Insert load value_ptr.               *)
WalkEnd(t) ==
  LET r == th[t]
  IN /\ r.pc = "walk" /\ ~Before(r)
     /\ Goto(t, CASE r.for = "has" ->
                       Walk(r, r.key, IF Found(r) THEN "get" ELSE "insert")
                  [] r.for = "get" ->
                       IF Found(r) THEN [r EXCEPT !.pc = "load"] ELSE Done(r)
                  [] r.for = "insert" ->
                       [r EXCEPT !.pc = IF Found(r) THEN "load" ELSE "link"])
     /\ UNCHANGED <<map, crashed, history>>

LoadValue(t) ==
  LET r == th[t]
  IN /\ r.pc = "load"
     /\ Goto(t, [r EXCEPT !.old = entry[r.target].value,
                          !.pc = IF r.for = "insert" THEN "swap" ELSE "read"])
     /\ UNCHANGED <<map, crashed, history>>

(* *name: compared by Register, copied by GetById. A string that is no     *)
(* longer its entry's was deleted. (The names differ: Register reads *name *)
(* once more, later, for its warning; that read is left out.)              *)
Deleted(r) == entry[r.target].value # r.old
ReadAnother(r) == Walk(r, r.key, "insert")    \* takes any name for its own
Read(r) ==
  IF r.name = r.old.name THEN Walk(r, r.key, "insert")
  ELSE Walk(r, r.key + 1, "has")              \* ++id

ReadName(t) ==
  LET r == th[t]
  IN /\ r.pc = "read"
     /\ crashed' = Deleted(r)
     /\ ~Deleted(r) => r.name = r.old.name \/ r.key < MaxId \/ r.name = NULL
     /\ Goto(t, IF r.name = NULL \/ Deleted(r) THEN Done(r) ELSE Read(r))
     /\ UNCHANGED <<map, history>>

(* The two exchanges of Insert.                                            *)
Return(t) ==
  /\ Goto(t, Done(th[t]))
  /\ returned' = returned \cup {<<th[t].name, th[t].key>>}

Value(t) == [name |-> th[t].name, op |-> Op(t)]

SamePlace(r) == r                      \* tries the same place for ever
FindAgain(r) == Walk(r, r.key, "insert")

Swap(t) ==
  LET r == th[t]
  IN /\ r.pc = "swap"
     /\ IF entry[r.target].value = r.old
        THEN entry' = [entry EXCEPT ![r.target].value = Value(t)] /\ Return(t)
        ELSE UNCHANGED <<entry, returned>> /\ Goto(t, FindAgain(r))
     /\ UNCHANGED <<next, crashed, earlier>>

LinkUnchecked(r) == TRUE               \* a store instead of the exchange
CanLink(r) == next[r.prev] = r.target

Link(t) ==
  LET r == th[t]
  IN /\ r.pc = "link"
     /\ IF CanLink(r)
        THEN /\ entry' = [entry EXCEPT ![Op(t)] = [key |-> r.key, value |-> Value(t)]]
             /\ next' = [next EXCEPT ![Op(t)] = r.target, ![r.prev] = Op(t)]
             /\ Return(t)
        ELSE UNCHANGED <<map, returned>> /\ Goto(t, FindAgain(r))
     /\ UNCHANGED <<crashed, earlier>>

-----------------------------------------------------------------------------
Steps(t) ==
  \/ WalkStart(t) \/ WalkStep(t) \/ WalkEnd(t) \/ LoadValue(t)
  \/ ReadName(t) \/ Swap(t) \/ Link(t)

Next ==
  /\ ~crashed
  /\ \E t \in Threads :
       \/ \E n \in Names : Register(t, n)
       \/ \E id \in Ids : GetById(t, id)
       \/ Steps(t)

Spec == Init /\ [][Next]_vars /\ \A t \in Threads : WF_vars(~crashed /\ Steps(t))

-----------------------------------------------------------------------------
(* Properties.                                                             *)

(* Every variable has its type.                                            *)
Locations == {"idle", "start", "walk", "load", "read", "swap", "link"}
ThreadStates ==
  [pc : Locations, ops : 0..MaxOps, name : Names \cup {NULL}, key : Ids,
   for : {"has", "get", "insert"}, prev : Ops \cup Heads \cup {NULL},
   target : Ops \cup {NULL}, old : Values \cup {NULL}]

TypeOK ==
  /\ entry \in [Ops -> Entries \cup {NULL}]
  /\ next \in [Ops \cup Heads -> Ops \cup {NULL}]
  /\ th \in [Threads -> ThreadStates]
  /\ crashed \in BOOLEAN
  /\ returned \subseteq Pairs
  /\ earlier \in [Names -> {NULL} \cup SUBSET Pairs]

(* Whatever is inserted at once, each bucket stays one list sorted by key, *)
(* which holds every entry ever linked, one for a key, and every id that   *)
(* was returned (atmoic_hash_map.h:160).                                   *)
ListsWhole ==
  /\ TypeOK
  /\ \A e \in Linked :
       /\ Cardinality({p \in Linked \cup Heads : next[p] = e}) = 1
       /\ next[e] # NULL => next[e] \in Linked /\ entry[e].key < entry[next[e]].key
       /\ \A p \in Heads : next[p] = e => p = HeadOf(entry[e].key)
  /\ \A d, e \in Linked : d # e => entry[d].key # entry[e].key
  /\ \A p \in returned : \E e \in Linked : entry[e].key = p[2]

(* A name that is first registered after another one has its id gets a     *)
(* different id, also when a third registration overlaps both; two that    *)
(* are first registered at once may get the same (global_data.cpp:154).    *)
LaterNamesDiffer ==
  \A n \in Names : earlier[n] # NULL =>
    \A p \in earlier[n], q \in returned :
      q[1] = n /\ p[1] # n => p[2] # q[2]

(* Every operation ends, however often its exchanges fail, unless the      *)
(* process is lost (atmoic_hash_map.h:138).                                *)
OperationsEnd == \A t \in Threads : th[t].pc # "idle" ~> (th[t].pc = "idle" \/ crashed)
=============================================================================
