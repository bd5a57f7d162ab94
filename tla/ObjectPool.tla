------------------------------ MODULE ObjectPool -----------------------------
(***************************************************************************)
(* base/concurrent_object_pool.h: a free list that threads take objects    *)
(* from and give them back to without a lock. croutine/croutine.cpp keeps  *)
(* the contexts of the routines in it.                                     *)
(*                                                                         *)
(* The nodes of the arena are 1..capacity. Each access to free_head_ or to *)
(* the next of a node is a step. An object goes back when the last         *)
(* shared_ptr to it does, on whichever thread that is. The counter of the  *)
(* head has the width of a pointer and is taken not to come round while a  *)
(* thread is between its load and its exchange.                            *)
(***************************************************************************)
EXTENDS Integers, Sequences

CONSTANTS
  Threads,
  capacity    \* not zero: the constructor would write before the arena

nullptr == 0
Node == 1..capacity

VARIABLES
  free_head_,  \* [count, node]
  next,        \* next of each node
  pc,          \* where each thread is
  old_head,    \* local variable of FindFreeHead and ReleaseObject
  new_node,    \* local variable new_head.node of FindFreeHead
  object,      \* argument of ReleaseObject, nullptr outside of it
  held,        \* how many shared_ptrs to each node GetObject has given out
  free         \* history: the nodes of the free list, the head first

vars == <<free_head_, next, pc, old_head, new_node, object, held, free>>

HeadType == [count : Nat, node : Node \cup {nullptr}]

Init ==
  /\ free_head_ = [count |-> 0, node |-> 1]
  /\ next = [i \in Node |-> IF i = capacity THEN nullptr ELSE i + 1]
  /\ pc = [t \in Threads |-> "idle"]
  /\ old_head = [t \in Threads |-> free_head_]
  /\ new_node = [t \in Threads |-> nullptr]
  /\ object = [t \in Threads |-> nullptr]
  /\ held = [i \in Node |-> 0]
  /\ free = [i \in Node |-> i]

Goto(t, loc) == pc' = [pc EXCEPT ![t] = loc]

-----------------------------------------------------------------------------
(* GetObject returns nullptr when the head it has loaded is empty.         *)
LoadOld(t) ==
  /\ old_head' = [old_head EXCEPT ![t] = free_head_]
  /\ Goto(t, IF free_head_.node = nullptr THEN "idle" ELSE "get_next")

GetObject(t) ==
  /\ pc[t] = "idle"
  /\ LoadOld(t)
  /\ UNCHANGED <<free_head_, next, new_node, object, held, free>>

(* The node may not be free any more; the memory is still there.           *)
ReadNext(t) ==
  /\ pc[t] = "get_next"
  /\ new_node' = [new_node EXCEPT ![t] = next[old_head[t].node]]
  /\ Goto(t, "get_cas")
  /\ UNCHANGED <<free_head_, next, old_head, object, held, free>>

(* Mutant: only the node of the head is compared. *)
TakeHeadOfAnyCount(t) ==
  /\ pc[t] = "get_cas" /\ free_head_.node = old_head[t].node
  /\ free_head_' = [count |-> free_head_.count + 1, node |-> new_node[t]]
  /\ held' = [held EXCEPT ![old_head[t].node] = @ + 1]
  /\ free' = SelectSeq(free, LAMBDA i : i # old_head[t].node)
  /\ Goto(t, "idle")
  /\ UNCHANGED <<next, old_head, new_node, object>>

TakeHead(t) ==
  /\ pc[t] = "get_cas" /\ free_head_ = old_head[t]
  /\ free_head_' = [count |-> free_head_.count + 1, node |-> new_node[t]]
  /\ held' = [held EXCEPT ![old_head[t].node] = @ + 1]
  /\ free' = Tail(free)
  /\ Goto(t, "idle")
  /\ UNCHANGED <<next, old_head, new_node, object>>

(* compare_exchange_weak fails, at times without a reason.                 *)
TakeHeadFails(t) ==
  /\ pc[t] = "get_cas"
  /\ LoadOld(t)
  /\ UNCHANGED <<free_head_, next, new_node, object, held, free>>

ReleaseObject(t, i) ==
  /\ pc[t] = "idle" /\ held[i] > 0
  /\ held' = [held EXCEPT ![i] = @ - 1]
  /\ object' = [object EXCEPT ![t] = i]
  /\ old_head' = [old_head EXCEPT ![t] = free_head_]
  /\ Goto(t, "put_next")
  /\ UNCHANGED <<free_head_, next, new_node, free>>

WriteNext(t) ==
  /\ pc[t] = "put_next"
  /\ next' = [next EXCEPT ![object[t]] = old_head[t].node]
  /\ Goto(t, "put_cas")
  /\ UNCHANGED <<free_head_, old_head, new_node, object, held, free>>

PutHead(t) ==
  /\ pc[t] = "put_cas" /\ free_head_ = old_head[t]
  /\ free_head_' = [count |-> free_head_.count + 1, node |-> object[t]]
  /\ object' = [object EXCEPT ![t] = nullptr]
  /\ free' = <<object[t]>> \o free
  /\ Goto(t, "idle")
  /\ UNCHANGED <<next, old_head, new_node, held>>

PutHeadFails(t) ==
  /\ pc[t] = "put_cas"
  /\ old_head' = [old_head EXCEPT ![t] = free_head_]
  /\ Goto(t, "put_next")
  /\ UNCHANGED <<free_head_, next, new_node, object, held, free>>

Step(t) == \/ GetObject(t) \/ ReadNext(t) \/ TakeHead(t) \/ TakeHeadFails(t)
           \/ \E i \in Node : ReleaseObject(t, i)
           \/ WriteNext(t) \/ PutHead(t) \/ PutHeadFails(t)
Next == \E t \in Threads : Step(t)

Spec == Init /\ [][Next]_vars

-----------------------------------------------------------------------------
(* Properties *)

TypeOK ==
  /\ free_head_ \in HeadType
  /\ next \in [Node -> Node \cup {nullptr}]
  /\ pc \in [Threads -> {"idle", "get_next", "get_cas", "put_next", "put_cas"}]
  /\ old_head \in [Threads -> HeadType]
  /\ new_node \in [Threads -> Node \cup {nullptr}]
  /\ object \in [Threads -> Node \cup {nullptr}]
  /\ held \in [Node -> Nat]
  /\ free \in Seq(Node)

(* An object that GetObject has returned is not returned again before it   *)
(* was released: it has one owner (FindFreeHead against ReleaseObject).    *)
OneOwner ==
  \A i \in Node : held[i] > 0 =>
    /\ held[i] = 1
    /\ \A k \in 1..Len(free) : free[k] # i
    /\ \A t \in Threads : object[t] # i

(* The list that begins at free_head_ goes through the free nodes once and *)
(* ends: the exchanges never link it to a node that was taken meanwhile.   *)
ListWhole ==
  /\ free_head_.node = IF free = <<>> THEN nullptr ELSE free[1]
  /\ \A k \in 1..Len(free) :
       next[free[k]] = IF k = Len(free) THEN nullptr ELSE free[k + 1]
  /\ \A j, k \in 1..Len(free) : free[j] = free[k] => j = k

(* No object is lost: it is in the list, with an owner or on its way back. *)
NothingLost ==
  \A i \in Node : \/ \E k \in 1..Len(free) : free[k] = i
                  \/ held[i] > 0
                  \/ \E t \in Threads : object[t] = i
=============================================================================
