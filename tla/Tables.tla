-------------------------------- MODULE Tables --------------------------------
(* What the threads of a process share outside of the data path: the names *)
(* and their ids, the contexts of routines, the nodes of the system and    *)
(* the classes of a library. Each of them is a module of its own; here     *)
(* they have the variables and the properties, by name, that MCTables      *)
(* checks and Tables_proofs proves.                                        *)
EXTENDS NameRegistry

VARIABLES
  free_head_, pool_next, pool_pc, old_head, new_node, object, held, free,
  node_pc, job, existing, nodes, net, state, gone, faults, warned, heard,
  removed, stamp,
  alive, loads, objs, objLock, live, factory, factories, open, openLock, mapped,
  loader_th, failures, loader_crashed, raced, overlapped

CONSTANT capacity
ASSUME PoolAssumption == capacity \in Nat \ {0}
Pool == INSTANCE ObjectPool WITH next <- pool_next, pc <- pool_pc

CONSTANTS Proc, Nodes, ProcOf, NameOf, MaxStamp, MaxNodes, MaxEvents
Manager == INSTANCE NodeManager WITH
  Node <- Nodes, NONE <- NULL, pc <- node_pc
ASSUME NodeConstants == Manager!NodeAssumption

CONSTANTS Loaders, Managed, MaxCalls, MaxFailures
Loader == INSTANCE ClassLoader WITH
  NONE <- NULL, th <- loader_th, crashed <- loader_crashed
ASSUME LoaderConstants == Loader!LoaderAssumption

-----------------------------------------------------------------------------
(* GetObject never returns an object that is still held or on its way back *)
(* (concurrent_object_pool.h).                                             *)
OneOwner == Pool!OneOwner

(* The free list of the pool goes through the free nodes once each and     *)
(* ends, however the exchanges on its head interleave                      *)
(* (concurrent_object_pool.h).                                             *)
ListWhole == Pool!ListWhole

(* A node whose name no other has had is in the map of its own process     *)
(* exactly from its join to its leave (Manager::OnRemoteChange).           *)
OwnNodes == Manager!TypeOK /\ Manager!OwnNodes

(* The process of the newer of two nodes of one name is told so as soon as *)
(* it has disposed both joins, in whatever order (NodeManager::DisposeJoin). *)
DuplicateIsNoticed == Manager!DuplicateIsNoticed

(* Processes that have disposed all changes, of which none was lost, know  *)
(* the same nodes (Manager::Write, NodeManager::Dispose).                  *)
AllAgree == Manager!AllAgree

(* Whoever has an object of a library finds the library mapped and its     *)
(* loader alive, whatever others load and unload meanwhile, as long as no  *)
(* count of the loader missed an object (ClassLoader::UnloadLibrary,       *)
(* utility::UnloadLibrary).                                                *)
ObjectsAreMapped == Loader!ObjectsAreMapped

(* Calls that come one after another keep the counts of all loaders, the   *)
(* owners of the factory and the handle of the library in step             *)
(* (ClassLoader::LoadLibrary and UnloadLibrary).                           *)
InStep == Loader!InStep
=============================================================================
