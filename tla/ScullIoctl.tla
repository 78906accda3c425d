------------------------------ MODULE ScullIoctl ------------------------------
(***************************************************************************)
(* The ioctl character device of src/pa4/driver/scull.c.  Every command is *)
(* served by scull_ioctl in the caller's own context, so that calls of     *)
(* different tasks interleave.  Two pieces of state outlive a call:        *)
(*   - the quantum, an int that no lock protects: a command that reads it  *)
(*     and then writes it does so in two steps;                            *)
(*   - the list of the tasks that asked for information about themselves,  *)
(*     kept under mLock and freed when the module is unloaded.             *)
(* The kernel unloads the module only while no task has the device open.   *)
(***************************************************************************)
EXTENDS Integers, Sequences, FiniteSets

CONSTANTS
    Tasks,          \* the callers: pairs of a pid and a tgid
    Quanta,         \* the ints callers pass
    SCULL_QUANTUM,  \* the quantum after a reset
    UserFaults,     \* TRUE when a user address may be bad
    AllocFails,     \* TRUE when kmalloc may fail
    Nobody          \* the owner of a free mutex

ASSUME IoctlAssumption == /\ Nobody \notin Tasks
                          /\ Quanta \subseteq Int
                          /\ SCULL_QUANTUM \in Int
                          /\ UserFaults \in BOOLEAN
                          /\ AllocFails \in BOOLEAN

VARIABLES
    loaded,         \* the module is loaded
    opened,         \* the tasks that have the device open
    quantum,        \* scull_quantum
    list,           \* the tasks in the order of the linked list
    nodes,          \* how many nodes are allocated and not freed
    tail,           \* the node a task found last in the list, by position
    mLock,          \* the owner of the mutex
    pc,             \* where each task stands in its call
    tmp,            \* the local variable tmp
    arg             \* the int a caller passes, by value or by address

vars == <<loaded, opened, quantum, list, nodes, tail, mLock, pc,
          tmp, arg>>
module == <<loaded, opened>>
tasks  == <<list, nodes, tail, mLock>>
frame  == <<tmp, arg>>

Places == {"idle", "x_get", "x_put", "h_store",
           "i_lock", "i_scan", "i_alloc", "i_tail", "i_append", "i_unlock", "i_copy"}
Ints == Quanta \cup {SCULL_QUANTUM, 0}

Goto(t, from, to) == pc[t] = from /\ pc' = [pc EXCEPT ![t] = to]
Enter(t, to)      == t \in opened /\ Goto(t, "idle", to)
AtOnce(t)         == t \in opened /\ pc[t] = "idle" /\ UNCHANGED pc
Listed            == {list[i] : i \in DOMAIN list}

-----------------------------------------------------------------------------
(* Loading, unloading, opening and closing. *)

Load ==
    /\ ~loaded
    /\ loaded' = TRUE
    /\ \E q \in Quanta \cup {SCULL_QUANTUM} : quantum' = q
    /\ list' = <<>>
    /\ UNCHANGED <<opened, nodes, tail, mLock, pc, frame>>

(* Bugs: the loop stops at the last node, or frees one node twice.         *)
UnloadLeavesLast ==
    /\ loaded
    /\ opened = {}
    /\ loaded' = FALSE
    /\ nodes' = IF list = <<>> THEN nodes ELSE nodes - Len(list) + 1
    /\ list' = <<>>
    /\ UNCHANGED <<opened, quantum, tail, mLock, pc, frame>>

UnloadFreesTwice ==
    /\ loaded
    /\ opened = {}
    /\ loaded' = FALSE
    /\ nodes' = IF list = <<>> THEN nodes ELSE nodes - Len(list) - 1
    /\ list' = <<>>
    /\ UNCHANGED <<opened, quantum, tail, mLock, pc, frame>>

(* Bug: without .owner the kernel unloads a module that is in use.         *)
UnloadInUse ==
    /\ loaded
    /\ loaded' = FALSE
    /\ nodes' = nodes - Len(list)
    /\ list' = <<>>
    /\ UNCHANGED <<opened, quantum, tail, mLock, pc, frame>>

(* scull_cleanup_module frees the nodes from head on.                      *)
Unload ==
    /\ loaded
    /\ opened = {}
    /\ loaded' = FALSE
    /\ nodes' = nodes - Len(list)
    /\ list' = <<>>
    /\ UNCHANGED <<opened, quantum, tail, mLock, pc, frame>>

Open(t) ==
    /\ loaded
    /\ t \notin opened
    /\ opened' = opened \cup {t}
    /\ UNCHANGED <<loaded, quantum, tasks, pc, frame>>

Close(t) ==
    /\ AtOnce(t)
    /\ opened' = opened \ {t}
    /\ UNCHANGED <<loaded, quantum, tasks, frame>>
-----------------------------------------------------------------------------
(* Commands that touch the quantum once. *)

Reset(t) ==
    /\ AtOnce(t)
    /\ quantum' = SCULL_QUANTUM
    /\ UNCHANGED <<module, tasks, frame>>

(* Set and Tell.                                                           *)
Set(t) ==
    /\ AtOnce(t)
    /\ \E q \in Quanta : quantum' = q
    /\ UNCHANGED <<module, tasks, frame>>

(* A Set from a bad address: __get_user stores zero and fails.             *)
SetFails(t) ==
    /\ UserFaults
    /\ AtOnce(t)
    /\ quantum' = 0
    /\ UNCHANGED <<module, tasks, frame>>

(* Get and Query hand the quantum out; access_ok may refuse an argument    *)
(* before the command is looked at.  Nothing changes.                      *)
Get(t) ==
    /\ AtOnce(t)
    /\ UNCHANGED <<module, quantum, tasks, frame>>
-----------------------------------------------------------------------------
(* eXchange and sHift: read the quantum, then store the argument. *)

ReadOld(t, to) ==
    /\ Enter(t, to)
    /\ \E q \in Quanta : arg' = [arg EXCEPT ![t] = q]
    /\ tmp' = [tmp EXCEPT ![t] = quantum]
    /\ UNCHANGED <<module, quantum, tasks>>

XBegin(t) == ReadOld(t, "x_get")
HBegin(t) == ReadOld(t, "h_store")

XGet(t) ==
    /\ Goto(t, "x_get", "x_put")
    /\ quantum' = arg[t]
    /\ UNCHANGED <<module, tasks, frame>>

XGetFails(t) ==
    /\ UserFaults
    /\ Goto(t, "x_get", "idle")
    /\ quantum' = 0
    /\ tmp' = [tmp EXCEPT ![t] = 0]
    /\ arg' = [arg EXCEPT ![t] = 0]
    /\ UNCHANGED <<module, tasks>>

GiveOld(t) ==
    /\ tmp' = [tmp EXCEPT ![t] = 0]
    /\ arg' = [arg EXCEPT ![t] = 0]

XPut(t) ==
    /\ Goto(t, "x_put", "idle")
    /\ GiveOld(t)
    /\ UNCHANGED <<module, quantum, tasks>>

HStore(t) ==
    /\ Goto(t, "h_store", "idle")
    /\ quantum' = arg[t]
    /\ GiveOld(t)
    /\ UNCHANGED <<module, tasks>>
-----------------------------------------------------------------------------
(* Information about the calling task. *)

IBegin(t) ==
    /\ Enter(t, "i_lock")
    /\ UNCHANGED <<module, quantum, tasks, frame>>

(* Bug: the list is scanned and extended without the mutex.                *)
ILockMissing(t) ==
    /\ Goto(t, "i_lock", "i_scan")
    /\ mLock' = t
    /\ UNCHANGED <<module, quantum, list, nodes, tail, frame>>

ILock(t) ==
    /\ Goto(t, "i_lock", "i_scan")
    /\ mLock = Nobody
    /\ mLock' = t
    /\ UNCHANGED <<module, quantum, list, nodes, tail, frame>>

(* Bug: the flag is cleared at every node, so that only the last counts.   *)
IScanLastOnly(t) ==
    /\ Goto(t, "i_scan", IF list # <<>> /\ list[Len(list)] = t THEN "i_unlock" ELSE "i_alloc")
    /\ UNCHANGED <<module, quantum, tasks, frame>>

IScan(t) ==
    /\ Goto(t, "i_scan", IF t \in Listed THEN "i_unlock" ELSE "i_alloc")
    /\ UNCHANGED <<module, quantum, tasks, frame>>

IAlloc(t) ==
    /\ Goto(t, "i_alloc", "i_tail")
    /\ nodes' = nodes + 1
    /\ UNCHANGED <<module, quantum, list, tail, mLock, frame>>

(* Bug: a failed allocation returns without mutex_unlock.                  *)
IAllocFailsLocked(t) ==
    /\ AllocFails
    /\ Goto(t, "i_alloc", "idle")
    /\ UNCHANGED <<module, quantum, list, nodes, tail, mLock, frame>>

IAllocFails(t) ==
    /\ AllocFails
    /\ Goto(t, "i_alloc", "idle")
    /\ mLock' = Nobody
    /\ UNCHANGED <<module, quantum, list, nodes, tail, frame>>

(* The walk to the last node, and the link from it to the new one: what    *)
(* may hang there is cut off.                                              *)
ITail(t) ==
    /\ Goto(t, "i_tail", "i_append")
    /\ tail' = [tail EXCEPT ![t] = Len(list)]
    /\ UNCHANGED <<module, quantum, list, nodes, mLock, frame>>

IAppend(t) ==
    /\ Goto(t, "i_append", "i_unlock")
    /\ list' = Append(SubSeq(list, 1, tail[t]), t)
    /\ tail' = [tail EXCEPT ![t] = 0]
    /\ UNCHANGED <<module, quantum, nodes, mLock, frame>>

IUnlock(t) ==
    /\ Goto(t, "i_unlock", "i_copy")
    /\ mLock' = Nobody
    /\ UNCHANGED <<module, quantum, list, nodes, tail, frame>>

(* copy_to_user succeeds or fails; either way the call returns.            *)
ICopy(t) ==
    /\ Goto(t, "i_copy", "idle")
    /\ UNCHANGED <<module, quantum, tasks, frame>>
-----------------------------------------------------------------------------

Init ==
    /\ loaded = FALSE
    /\ opened = {}
    /\ quantum = SCULL_QUANTUM
    /\ list = <<>>
    /\ nodes = 0
    /\ tail = [t \in Tasks |-> 0]
    /\ mLock = Nobody
    /\ pc = [t \in Tasks |-> "idle"]
    /\ tmp = [t \in Tasks |-> 0]
    /\ arg = [t \in Tasks |-> 0]

(* The steps of a call that is under way, at a good address or at a bad    *)
(* one.                                                                    *)
Proceed(t) ==
    \/ XGet(t) \/ XPut(t) \/ HStore(t)
    \/ ILock(t) \/ IScan(t) \/ IAlloc(t) \/ IAllocFails(t) \/ ITail(t)
    \/ IAppend(t) \/ IUnlock(t) \/ ICopy(t)

CallStep(t) == Proceed(t) \/ XGetFails(t)

Command(t) ==
    \/ Reset(t) \/ Set(t) \/ SetFails(t) \/ Get(t)
    \/ XBegin(t) \/ HBegin(t) \/ IBegin(t)

Next ==
    \/ Load \/ Unload
    \/ \E t \in Tasks : Open(t) \/ Close(t) \/ Command(t) \/ CallStep(t)

Spec == Init /\ [][Next]_vars

-----------------------------------------------------------------------------
(* Properties *)

(* The type of every variable.                                             *)
TypeOK ==
    /\ loaded \in BOOLEAN
    /\ opened \subseteq Tasks
    /\ quantum \in Ints
    /\ list \in Seq(Tasks)
    /\ nodes \in Nat
    /\ tail \in [Tasks -> Nat]
    /\ mLock \in Tasks \cup {Nobody}
    /\ pc \in [Tasks -> Places]
    /\ tmp \in [Tasks -> Ints]
    /\ arg \in [Tasks -> Ints]

(* A task is in the list at most once, however its calls and those of      *)
(* other tasks interleave: no append goes by a scan made before it.        *)
TasksUnique == \A i, j \in DOMAIN list : list[i] = list[j] => i = j

(* Every allocated node is in the list or in the hands of a task that is   *)
(* about to append it: no append cuts another one off, and an unloaded     *)
(* module leaves none behind.                                              *)
NoLeak ==
    /\ nodes = Len(list) + Cardinality({t \in Tasks : pc[t] \in {"i_tail", "i_append"}})
    /\ ~loaded => nodes = 0

(* A task that is served information about itself is in the list by then,  *)
(* whatever other tasks append at the same time.                           *)
ServedIsListed == \A t \in Tasks : pc[t] = "i_copy" => t \in Listed

(* "eXchange: switch G and S atomically", "sHift: switch T and Q           *)
(* atomically" (scull.h:48-49): the old value a task takes is the one its  *)
(* own value replaces.                                                     *)
SwitchIsAtomic ==
    [][\A t \in Tasks : pc[t] \in {"x_get", "h_store"} /\ pc'[t] # pc[t]
                            => tmp[t] = quantum]_vars
=============================================================================
