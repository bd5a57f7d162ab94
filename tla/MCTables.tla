------------------------------- MODULE MCTables -------------------------------
(* The tables of a process on small instances: three names of one bucket,  *)
(* two of which collide, two contexts, three nodes of one name in two      *)
(* processes, and two loaders of one library. The tables do not meet: a    *)
(* behaviour is one of the table it begins with.                           *)
EXTENDS Tables, TLC

CONSTANTS m, n, o, t1, t2, p1, p2, MaxCount

ConstHash == (m :> 0) @@ (n :> 0) @@ (o :> 2)
ConstProcOf == m :> p1 @@ n :> p2 @@ o :> p2
ConstNameOf == [i \in Nodes |-> 0]

VARIABLE table

poolVars == <<free_head_, pool_next, pool_pc, old_head, new_node, object, held,
              free>>
nodeVars == <<node_pc, job, existing, nodes, net, state, gone, faults, warned,
              heard, removed, stamp>>
classVars == <<alive, loads, objs, objLock, live, factory, factories, open,
               openLock, mapped, loader_th, failures, loader_crashed, raced,
               overlapped>>

TablesInit ==
  /\ table \in {"names", "pool", "nodes", "classes"}
  /\ Init /\ Pool!Init /\ Manager!Init /\ Loader!Init

(* Bound: the counter of the head of the free list.                        *)
PoolNext == free_head_.count < MaxCount /\ Pool!Next

(* Two nodes of one process and one name: n is made before o.              *)
NodesNext == Manager!Next /\ (node_pc[n] = "new" => UNCHANGED node_pc[o])

TablesNext ==
  /\ UNCHANGED table
  /\ \/ table = "names" /\ Next /\ UNCHANGED <<poolVars, nodeVars, classVars>>
     \/ table = "pool" /\ PoolNext /\ UNCHANGED <<vars, nodeVars, classVars>>
     \/ table = "nodes" /\ NodesNext /\ UNCHANGED <<vars, poolVars, classVars>>
     \/ table = "classes" /\ Loader!Next /\ UNCHANGED <<vars, poolVars, nodeVars>>

(* The threads that work on the names run.                                 *)
TablesSpec ==
  /\ TablesInit /\ [][TablesNext]_<<table, vars, poolVars, nodeVars, classVars>>
  /\ \A t \in Threads : WF_vars(table = "names" /\ ~crashed /\ Steps(t))
=============================================================================
