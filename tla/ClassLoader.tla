----------------------------- MODULE ClassLoader ------------------------------
(***************************************************************************)
(* Classes from shared libraries: class_loader/class_loader.h and .cpp,    *)
(* class_loader_manager.h and .cpp, utility/ and shared_library/.          *)
(*                                                                         *)
(* One library with one class. Its factory, the list of its owners and     *)
(* open_libraries are global; each has its mutex, but the factory is used  *)
(* after the mutex was given back. Any thread may use any loader that is   *)
(* made, as its two mutexes promise. Whatever a thread does under one      *)
(* mutex is a step. The run of a freed factory, loader or unmapped         *)
(* library, and two threads in one list of owners at once, end the model   *)
(* (crashed).                                                              *)
(***************************************************************************)
EXTENDS Integers, FiniteSets

CONSTANTS
  Threads,
  Loaders,      \* addresses of ClassLoader objects
  Managed,      \* loaders that ClassLoaderManager makes and deletes
  MaxCalls,     \* bound: calls of a thread
  MaxFailures,  \* bound: failures of dlopen
  NONE

VARIABLES
  alive,        \* loaders that exist
  loads,        \* loadlib_ref_count_
  objs,         \* classobj_ref_count_
  objLock,      \* classobj_ref_count_mutex_: its holder, over more than a step
  live,         \* objects of each loader that exist
  factory,      \* the factory in the map: [no, owners], or NONE
  factories,    \* number of factories made
  open,         \* the library is in open_libraries
  openLock,     \* open_libraries_mutex: its holder, over more than a step
  mapped,       \* handles to the library that dlopen gave and dlclose took
  th,           \* the threads, see Idle
  failures,
  crashed,
  raced,        \* history: loaders whose classobj_ref_count_ missed an object,
                \* since two changed it at once or one was not yet counted
  overlapped    \* history: a call began while another thread was in one

counts == <<loads, objs, objLock, live>>
global == <<factory, factories, open, openLock, mapped>>
history == <<raced, overlapped>>
vars == <<alive, counts, global, th, failures, crashed, history>>

(* Of a thread: the loader it works on, what it does when the library is   *)
(* loaded or unloaded, the factory and the count it has read.              *)
Idle == [pc |-> "idle", calls |-> 0, loader |-> NONE, then |-> "idle",
         ptr |-> 0, count |-> 0]

Factories == [no : Nat, owners : SUBSET Loaders]

(* What the constants must be; Tables assumes it of the instance.          *)
LoaderAssumption ==
  /\ Managed \subseteq Loaders /\ IsFiniteSet(Threads)
  /\ NONE \notin Loaders \cup Threads /\ NONE \notin Factories

Init ==
  /\ alive = {}
  /\ loads = [l \in Loaders |-> 0]
  /\ objs = [l \in Loaders |-> 0]
  /\ objLock = [l \in Loaders |-> NONE]
  /\ live = [l \in Loaders |-> 0]
  /\ factory = NONE /\ factories = 0
  /\ open = FALSE /\ openLock = NONE /\ mapped = 0
  /\ th = [t \in Threads |-> Idle]
  /\ failures = 0 /\ crashed = FALSE /\ raced = {} /\ overlapped = FALSE

Set(t, r) == th' = [th EXCEPT ![t] = r]
Goto(t, loc) == Set(t, [th[t] EXCEPT !.pc = loc])
Returns(t) ==
  Set(t, IF th[t].then = "find" THEN [th[t] EXCEPT !.pc = "find", !.then = "idle"]
         ELSE [Idle EXCEPT !.calls = th[t].calls])
At(t, loc) == th[t].pc = loc

Begin(t, l, loc, then) ==
  /\ At(t, "idle") /\ th[t].calls < MaxCalls
  /\ Set(t, [Idle EXCEPT !.pc = loc, !.calls = th[t].calls + 1,
                         !.loader = l, !.then = then])
  /\ overlapped' = (overlapped \/ \E u \in Threads : ~At(u, "idle"))
  /\ UNCHANGED raced

IsFreed(ptr) == factory = NONE \/ factory.no # ptr
(* Another thread is appending to the owners of the factory.               *)
Appending(t) == \E u \in Threads \ {t} : At(u, "append")
IsOwnedBy(l) == l \in factory.owners

(* loadlib_ref_count_mutex_ is held throughout LoadLibrary and             *)
(* UnloadLibrary.                                                          *)
InLoad == {"check", "list", "attach", "append", "dlopen", "emplace"}
InUnload == {"destroy", "close", "unloaded"}
LoadMutexFree(l) ==
  \A u \in Threads : th[u].loader = l => th[u].pc \notin InLoad \cup InUnload

(* A user calls a loader after its constructor and before its destructor;  *)
(* who calls the manager may have got the loader before it is deleted.     *)
Usable(l) ==
  /\ l \in alive
  /\ \A u \in Threads : th[u].loader = l =>
       th[u].then # "construct" /\ (th[u].then = "delete" => l \in Managed)

(* Somebody closes the library for the loader or is about to delete it;    *)
(* somebody makes an object with it that it does not count.                *)
Unloading(l) ==
  \E u \in Threads :
    th[u].loader = l /\ (th[u].pc \in InUnload \/ th[u].then = "delete")
Making(l) ==
  \E u \in Threads : th[u].loader = l /\ th[u].pc \in {"make", "count", "counted"}

-----------------------------------------------------------------------------
(* LoadLibrary, also from the constructor and from CreateClassObj          *)

New(t, l) ==
  /\ l \notin alive
  /\ Begin(t, l, "check", "construct")
  /\ alive' = alive \cup {l}
  /\ loads' = [loads EXCEPT ![l] = 1]
  /\ objs' = [objs EXCEPT ![l] = 0]
  /\ UNCHANGED <<objLock, live, global, failures, crashed>>

Construct(t, l) == l \notin Managed /\ New(t, l)
(* The manager makes a loader when it has none for the library.            *)
ManagerLoad(t, l) == l \in Managed /\ New(t, l)

LoadLibrary(t, l) ==
  /\ Usable(l) /\ l \notin Managed
  /\ Begin(t, l, "load", "idle")
  /\ UNCHANGED <<alive, counts, global, failures, crashed>>

CountLoad(t) ==
  LET l == th[t].loader
  IN /\ At(t, "load") /\ LoadMutexFree(l)
     /\ loads' = [loads EXCEPT ![l] = @ + 1]
     /\ Goto(t, "check")
     /\ UNCHANGED <<alive, objs, objLock, live, global, failures, crashed, history>>

CheckLoaded(t) ==
  /\ At(t, "check") /\ openLock = NONE
  /\ Goto(t, IF open THEN "list" ELSE "dlopen")
  /\ UNCHANGED <<alive, counts, global, failures, crashed, history>>

(* Mutant: a loader that finds the library open does not attach itself. *)
ListNoFactory(t) ==
  /\ At(t, "list")
  /\ Returns(t)
  /\ UNCHANGED <<alive, counts, global, failures, crashed, history>>

(* GetAllClassFactoryObjectsOfLibrary *)
ListFactories(t) ==
  /\ At(t, "list")
  /\ IF factory = NONE THEN Returns(t)
     ELSE Set(t, [th[t] EXCEPT !.pc = "attach", !.ptr = factory.no])
  /\ UNCHANGED <<alive, counts, global, failures, crashed, history>>

(* AddOwnedClassLoader, without a lock. *)
Attach(t) ==
  /\ At(t, "attach")
  /\ crashed' = (IsFreed(th[t].ptr) \/ Appending(t))
  /\ Goto(t, "append")
  /\ UNCHANGED <<alive, counts, global, failures, history>>

Append(t) ==
  /\ At(t, "append")
  /\ factory' = [factory EXCEPT !.owners = @ \cup {th[t].loader}]
  /\ Returns(t)
  /\ UNCHANGED <<alive, counts, factories, open, openLock, mapped, failures,
                 crashed, history>>

RegisterClass(l) ==
  /\ factory' = [no |-> factories + 1, owners |-> {l}]
  /\ factories' = factories + 1

(* SharedLibrary::Load under loader_mutex. The static objects of a library *)
(* that was not mapped register its class for the loader that loads it     *)
(* (RegisterClass); those of one that is mapped do not run again.          *)
DlOpen(t) ==
  /\ At(t, "dlopen")
  /\ mapped' = mapped + 1
  /\ IF mapped = 0 THEN RegisterClass(th[t].loader)
                   ELSE UNCHANGED <<factory, factories>>
  /\ Goto(t, "emplace")
  /\ UNCHANGED <<alive, counts, open, openLock, failures, crashed, history>>

DlOpenFails(t) ==
  /\ At(t, "dlopen") /\ failures < MaxFailures
  /\ failures' = failures + 1
  /\ Returns(t)
  /\ UNCHANGED <<alive, counts, global, crashed, history>>

(* A second handle to a library that another thread has opened meanwhile   *)
(* is not kept, nor closed: ~SharedLibrary does nothing.                   *)
Emplace(t) ==
  /\ At(t, "emplace") /\ openLock = NONE
  /\ open' = TRUE
  /\ Returns(t)
  /\ UNCHANGED <<alive, counts, factory, factories, openLock, mapped, failures,
                 crashed, history>>

-----------------------------------------------------------------------------
(* UnloadLibrary, also from the destructor and from the manager            *)

(* Mutant: the objects are not looked at. *)
NeverInUse(l) == FALSE

InUse(l) == objs[l] > 0

Unload(t, l, then) ==
  /\ Usable(l)
  /\ Begin(t, l, "unload", then)
  /\ UNCHANGED <<alive, counts, global, failures, crashed>>

UnloadLibrary(t, l) == l \notin Managed /\ Unload(t, l, "idle")
(* A user deletes a loader when it has released all its objects and nobody *)
(* is in a call of it; the manager's UnloadAllLibraries asks nobody.       *)
Delete(t, l) ==
  /\ l \notin Managed /\ live[l] = 0
  /\ \A u \in Threads : th[u].loader # l
  /\ Unload(t, l, "delete")
ManagerUnload(t, l) == l \in Managed /\ Unload(t, l, "manager")

(* UnloadLibrary has returned. The manager deletes the loader when it      *)
(* returned 0, and ~ClassLoader unloads again; then the loader is freed.   *)
AfterUnload(t, remain) ==
  LET l == th[t].loader
      r == th[t]
  IN /\ Set(t, IF r.then = "manager" /\ remain = 0
               THEN [r EXCEPT !.pc = "unload", !.then = "delete"]
               ELSE [Idle EXCEPT !.calls = r.calls])
     /\ alive' = IF r.then = "delete" THEN alive \ {l} ELSE alive
     /\ crashed' = (r.then = "delete" /\ \E u \in Threads \ {t} : th[u].loader = l)

(* The count is looked at, and says nothing of an object that somebody is  *)
(* making (raced).                                                         *)
CountUnload(t) ==
  LET l == th[t].loader
      closes == ~InUse(l) /\ loads[l] = 1
      remain == IF InUse(l) THEN loads[l]
                ELSE IF loads[l] = 0 THEN 0 ELSE loads[l] - 1
  IN /\ At(t, "unload") /\ LoadMutexFree(l) /\ objLock[l] = NONE
     /\ loads' = [loads EXCEPT ![l] = remain]
     /\ IF closes
        THEN /\ objLock' = [objLock EXCEPT ![l] = t]
             /\ Goto(t, "destroy") /\ UNCHANGED <<alive, crashed>>
        ELSE AfterUnload(t, remain) /\ UNCHANGED objLock
     /\ raced' = IF ~InUse(l) /\ remain = 0 /\ Making(l) THEN raced \cup {l}
                 ELSE raced
     /\ UNCHANGED <<objs, live, global, failures, overlapped>>

(* utility::UnloadLibrary, under open_libraries_mutex. Without an owner    *)
(* the factory is deleted, without a factory the library is closed.        *)
RemoveOwnedClassLoader(l) ==
  IF factory = NONE THEN {} ELSE factory.owners \ {l}

DestroyFactories(t) ==
  LET owners == RemoveOwnedClassLoader(th[t].loader)
  IN /\ At(t, "destroy") /\ openLock = NONE
     /\ IF open
        THEN /\ openLock' = t
             /\ crashed' = (factory # NONE /\ Appending(t))
             /\ factory' = IF owners = {} THEN NONE
                           ELSE [factory EXCEPT !.owners = owners]
        ELSE UNCHANGED <<openLock, crashed, factory>>
     /\ Goto(t, IF open THEN "close" ELSE "unloaded")
     /\ UNCHANGED <<alive, counts, factories, open, mapped, failures, history>>

Close(t) ==
  /\ At(t, "close")
  /\ IF factory = NONE THEN open' = FALSE /\ mapped' = mapped - 1
                       ELSE UNCHANGED <<open, mapped>>
  /\ openLock' = NONE
  /\ Goto(t, "unloaded")
  /\ UNCHANGED <<alive, counts, factory, factories, failures, crashed, history>>

Unloaded(t) ==
  /\ At(t, "unloaded")
  /\ objLock' = [objLock EXCEPT ![th[t].loader] = NONE]
  /\ AfterUnload(t, 0)
  /\ UNCHANGED <<loads, objs, live, global, failures, history>>

-----------------------------------------------------------------------------
(* CreateClassObj, and the release of the object                           *)

CreateClassObj(t, l) ==
  /\ Usable(l) /\ openLock = NONE
  /\ IF open THEN Begin(t, l, "find", "idle") ELSE Begin(t, l, "load", "find")
  /\ UNCHANGED <<alive, counts, global, failures, crashed>>

Find(t) ==
  /\ At(t, "find")
  /\ IF factory = NONE THEN Returns(t)
     ELSE Set(t, [th[t] EXCEPT !.pc = "own", !.ptr = factory.no])
  /\ UNCHANGED <<alive, counts, global, failures, crashed, history>>

(* IsOwnedBy, without a lock, and CreateObj.                               *)
Own(t) ==
  LET l == th[t].loader
      freed == IsFreed(th[t].ptr)
      owned == ~freed /\ IsOwnedBy(l)
  IN /\ At(t, "own")
     /\ crashed' = (freed \/ Appending(t))
     /\ IF owned THEN Goto(t, "make") ELSE Returns(t)
     /\ raced' = IF owned /\ Unloading(l) THEN raced \cup {l} ELSE raced
     /\ UNCHANGED <<alive, counts, global, failures, overlapped>>

Make(t) ==
  /\ At(t, "make")
  /\ crashed' = IsFreed(th[t].ptr)
  /\ live' = [live EXCEPT ![th[t].loader] = @ + 1]
  /\ Goto(t, "count")
  /\ UNCHANGED <<alive, loads, objs, objLock, global, failures, history>>

(* classobj_ref_count_ = classobj_ref_count_ + 1, without the mutex.       *)
CountRead(t) ==
  /\ At(t, "count")
  /\ Set(t, [th[t] EXCEPT !.pc = "counted", !.count = objs[th[t].loader]])
  /\ UNCHANGED <<alive, counts, global, failures, crashed, history>>

CountWrite(t) ==
  LET l == th[t].loader
  IN /\ At(t, "counted")
     /\ objs' = [objs EXCEPT ![l] = th[t].count + 1]
     /\ raced' = IF objs[l] # th[t].count THEN raced \cup {l} ELSE raced
     /\ Returns(t)
     /\ UNCHANGED <<alive, loads, objLock, live, global, failures, crashed,
                    overlapped>>

(* OnClassObjDeleter, on any thread: deletes an object that its user has   *)
(* and counts it off, under the mutex.                                     *)
Made(l) == live[l] - Cardinality({t \in Threads : /\ th[t].loader = l
                                                 /\ th[t].pc \in {"count", "counted"}})

Release(t, l) ==
  /\ Made(l) > 0 /\ objLock[l] = NONE
  /\ Begin(t, l, "release", "idle")
  /\ crashed' = (l \notin alive \/ mapped = 0)
  /\ objLock' = [objLock EXCEPT ![l] = t]
  /\ live' = [live EXCEPT ![l] = @ - 1]
  /\ UNCHANGED <<alive, loads, objs, global, failures>>

ReleaseRead(t) ==
  /\ At(t, "release")
  /\ Set(t, [th[t] EXCEPT !.pc = "released", !.count = objs[th[t].loader]])
  /\ UNCHANGED <<alive, counts, global, failures, crashed, history>>

ReleaseWrite(t) ==
  LET l == th[t].loader
  IN /\ At(t, "released")
     /\ objs' = [objs EXCEPT ![l] = th[t].count - 1]
     /\ raced' = IF objs[l] # th[t].count THEN raced \cup {l} ELSE raced
     /\ objLock' = [objLock EXCEPT ![l] = NONE]
     /\ Returns(t)
     /\ UNCHANGED <<alive, loads, live, global, failures, crashed, overlapped>>

-----------------------------------------------------------------------------
Calls(t, l) ==
  \/ Construct(t, l) \/ ManagerLoad(t, l) \/ LoadLibrary(t, l) \/ CreateClassObj(t, l)
  \/ UnloadLibrary(t, l) \/ Delete(t, l) \/ ManagerUnload(t, l)
  \/ Release(t, l)
Steps(t) ==
  \/ CountLoad(t) \/ CheckLoaded(t) \/ ListFactories(t) \/ Attach(t) \/ Append(t)
  \/ DlOpen(t) \/ DlOpenFails(t) \/ Emplace(t)
  \/ CountUnload(t) \/ DestroyFactories(t) \/ Close(t) \/ Unloaded(t)
  \/ Find(t) \/ Own(t) \/ Make(t) \/ CountRead(t) \/ CountWrite(t)
  \/ ReleaseRead(t) \/ ReleaseWrite(t)

Next ==
  /\ ~crashed
  /\ \E t \in Threads : Steps(t) \/ \E l \in Loaders : Calls(t, l)

Spec == Init /\ [][Next]_vars

-----------------------------------------------------------------------------
(* Properties *)

(* Every variable has its type.                                            *)
Locations == InLoad \cup InUnload \cup
             {"idle", "load", "unload", "find", "own", "make", "count", "counted",
              "release", "released"}
ThreadStates ==
  [pc : Locations, calls : Nat, loader : Loaders \cup {NONE},
   then : {"idle", "construct", "find", "delete", "manager"}, ptr : Nat, count : Int]
TypeOK ==
  /\ alive \subseteq Loaders
  /\ loads \in [Loaders -> Nat] /\ objs \in [Loaders -> Int]
  /\ objLock \in [Loaders -> Threads \cup {NONE}]
  /\ live \in [Loaders -> Nat]
  /\ factory \in Factories \cup {NONE} /\ factories \in Nat
  /\ open \in BOOLEAN /\ openLock \in Threads \cup {NONE} /\ mapped \in Nat
  /\ th \in [Threads -> ThreadStates]
  /\ failures \in Nat
  /\ crashed \in BOOLEAN /\ raced \subseteq Loaders /\ overlapped \in BOOLEAN

Releases(t, l) == th[t].loader = l /\ th[t].pc \in {"release", "released"}

(* An object never outlives the code it runs nor the loader that counts    *)
(* it: whatever any thread loads, makes and unloads meanwhile, whoever has *)
(* an object finds the library mapped (ClassLoader::UnloadLibrary,         *)
(* utility::UnloadLibrary, ClassLoaderManager). That is so as long as the  *)
(* count of the loader told UnloadLibrary the truth: not when two threads  *)
(* have changed it at once, and not when CreateClassObj of the same loader *)
(* had made an object, or found that it may, and not counted it (raced):   *)
(* then the library is closed and CreateClassObj returns the object.       *)
ObjectsAreMapped ==
  /\ TypeOK
  /\ \A l \in Loaders \ raced : live[l] > 0 /\ ~crashed =>
       /\ mapped > 0 /\ l \in alive
       /\ factory # NONE /\ IsOwnedBy(l)
       /\ objs[l] = Made(l) + Cardinality({t \in Threads : Releases(t, l)})

(* Calls that come one after another, from whatever threads, keep the      *)
(* counts of all loaders, the owners of the factory and the one handle of  *)
(* the library in step: the library is mapped while a loader counts a load *)
(* of it, and every such loader can create its class.                      *)
InStep ==
  (~overlapped /\ failures = 0 /\ \A t \in Threads : At(t, "idle")) =>
    LET loaded == {l \in Loaders : loads[l] > 0}
    IN /\ ~crashed
       /\ open <=> loaded # {}
       /\ mapped = IF open THEN 1 ELSE 0
       /\ factory # NONE <=> open
       /\ open => factory.owners = loaded
=============================================================================
