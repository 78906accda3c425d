--------------------------- MODULE ScullIoctlProofs ---------------------------
(***************************************************************************)
(* Theorems about ScullIoctl: for any set of callers, any commands they    *)
(* give, any failing address and allocation, however the calls interleave. *)
(***************************************************************************)
EXTENDS ScullIoctl, FiniteSetTheorems, SequenceTheorems, TLAPS

-----------------------------------------------------------------------------
(* The inductive invariant *)

Critical == {"i_scan", "i_alloc", "i_tail", "i_append", "i_unlock"}
Holding  == {t \in Tasks : pc[t] \in {"i_tail", "i_append"}}

(* A call runs only with the device open, the device is open only while    *)
(* the module is loaded, and an unloaded module has no list.               *)
CallsAreOpen ==
    /\ \A t \in Tasks : pc[t] # "idle" => t \in opened
    /\ opened # {} => loaded
    /\ ~loaded => list = <<>>

(* A task between mutex_lock and mutex_unlock owns the mutex.              *)
OwnsLock == \A t \in Tasks : pc[t] \in Critical => mLock = t

(* What the scan found still holds when the task acts on it.               *)
ScanHolds ==
    /\ \A t \in Tasks : pc[t] \in {"i_alloc", "i_tail", "i_append"} => t \notin Listed
    /\ \A t \in Tasks : pc[t] = "i_append" => tail[t] = Len(list)
    /\ \A t \in Tasks : pc[t] \in {"i_unlock", "i_copy"} => t \in Listed

(* The allocated nodes, counted without a cardinality: at most one is in   *)
(* the hands of a task.                                                    *)
NodesCounted == nodes = Len(list) + (IF Holding = {} THEN 0 ELSE 1)

IInv == TypeOK /\ CallsAreOpen /\ OwnsLock /\ ScanHolds /\ NodesCounted /\ TasksUnique

-----------------------------------------------------------------------------

(* Appending behind the last element keeps the list and adds the task.     *)
LEMMA AppendAtEnd ==
    ASSUME NEW l \in Seq(Tasks), NEW t \in Tasks
    PROVE  LET k == Append(SubSeq(l, 1, Len(l)), t)
           IN  /\ k \in Seq(Tasks) /\ Len(k) = Len(l) + 1
               /\ \A i \in 1 .. Len(l) : k[i] = l[i]
               /\ k[Len(l) + 1] = t
  <1>1. SubSeq(l, 1, Len(l)) = l
    BY SubSeqFull
  <1> QED BY <1>1

(* Only one task can be in the critical section.                           *)
LEMMA OneInside ==
    ASSUME OwnsLock, NEW t \in Tasks, pc[t] \in Critical,
           NEW u \in Tasks, u # t
    PROVE  pc[u] \notin Critical
  BY DEF OwnsLock

LEMMA IInvInit == Init => IInv
  <1> SUFFICES ASSUME Init PROVE IInv
    OBVIOUS
  <1>1. TypeOK
    <2>1. SCULL_QUANTUM \in Ints /\ 0 \in Ints /\ "idle" \in Places
      BY DEF Ints, Places
    <2>2. /\ pc \in [Tasks -> Places] /\ tmp \in [Tasks -> Ints] /\ arg \in [Tasks -> Ints]
          /\ tail \in [Tasks -> Nat]
      BY <2>1 DEF Init
    <2>3. list \in Seq(Tasks) /\ nodes \in Nat
      BY DEF Init
    <2> QED BY <2>1, <2>2, <2>3 DEF Init, TypeOK
  <1>2. Holding = {}
    BY DEF Init, Holding
  <1>3. CallsAreOpen /\ OwnsLock /\ ScanHolds /\ NodesCounted /\ TasksUnique
    BY <1>2 DEF Init, CallsAreOpen, OwnsLock, ScanHolds, NodesCounted, TasksUnique, Critical
  <1> QED BY <1>1, <1>3 DEF IInv

(* A step of one task that leaves the list, the nodes, the mutex and the   *)
(* module alone, and goes between places outside of the critical section.  *)
LEMMA OutsideStep ==
    ASSUME IInv, TypeOK', NEW t \in Tasks, UNCHANGED <<module, tasks>>,
           t \in opened,
           NEW p \in Places \ (Critical \cup {"i_copy"}),
           pc[t] \notin Critical,
           pc' = [pc EXCEPT ![t] = p]
    PROVE  IInv'
  <1> USE DEF IInv, TypeOK, module, tasks
  <1>1. \A u \in Tasks : pc'[u] = IF u = t THEN p ELSE pc[u]
    OBVIOUS
  <1>2. CallsAreOpen'
    BY <1>1 DEF CallsAreOpen
  <1>3. OwnsLock'
    BY <1>1 DEF OwnsLock
  <1>4. ScanHolds'
    BY <1>1 DEF ScanHolds, Listed, Critical
  <1>5. Holding' = Holding
    BY <1>1 DEF Holding, Critical
  <1>6. NodesCounted'
    BY <1>5 DEF NodesCounted
  <1>7. TasksUnique'
    BY DEF TasksUnique
  <1> QED BY <1>2, <1>3, <1>4, <1>6, <1>7

(* Every step keeps the types; that unloading frees as many nodes as there *)
(* are needs the count.                                                    *)
LEMMA TypeStep == IInv /\ Next => TypeOK'
  <1> SUFFICES ASSUME IInv, Next PROVE TypeOK'
    OBVIOUS
  <1> USE DEF TypeOK, module, tasks, frame
  <1>0. TypeOK
    BY DEF IInv
  <1>a. \A q \in Quanta : q \in Ints
    BY DEF Ints
  <1>b. SCULL_QUANTUM \in Ints /\ 0 \in Ints
    BY DEF Ints
  <1>1. CASE Load
    BY <1>0, <1>1, <1>a, <1>b DEF Load
  <1>2. CASE Unload
    <2>1. nodes' \in Nat
      BY <1>0, <1>2 DEF Unload, IInv, NodesCounted
    <2>2. loaded' = FALSE
      BY <1>2 DEF Unload
    <2>3. list' \in Seq(Tasks)
      <3>1. list' = <<>>
        BY <1>2 DEF Unload
      <3>2. <<>> \in Seq(Tasks)
        OBVIOUS
      <3> QED BY <3>1, <3>2
    <2>4. UNCHANGED <<opened, quantum, tail, mLock, pc, frame>>
      BY <1>2 DEF Unload
    <2> QED BY <1>0, <2>1, <2>2, <2>3, <2>4
  <1>3. ASSUME NEW t \in Tasks, Open(t) \/ Close(t) PROVE TypeOK'
    <2>1. UNCHANGED <<loaded, quantum, tasks, pc, frame>>
      BY <1>3 DEF Open, Close, AtOnce
    <2>2. opened' \subseteq Tasks
      BY <1>0, <1>3 DEF Open, Close
    <2> QED BY <1>0, <2>1, <2>2
  <1>4. ASSUME NEW t \in Tasks, Command(t) PROVE TypeOK'
    <2>1. CASE Reset(t) \/ Set(t) \/ SetFails(t) \/ Get(t)
      BY <1>0, <1>a, <1>b, <2>1 DEF Reset, Set, SetFails, Get, AtOnce
    <2>2. CASE XBegin(t)
      BY <1>0, <1>a, <2>2 DEF XBegin, ReadOld, Enter, Goto, Places
    <2>3. CASE HBegin(t)
      BY <1>0, <1>a, <2>3 DEF HBegin, ReadOld, Enter, Goto, Places
    <2>4. CASE IBegin(t)
      BY <1>0, <2>4 DEF IBegin, Enter, Goto, Places
    <2> QED BY <1>4, <2>1, <2>2, <2>3, <2>4 DEF Command
  <1>5. ASSUME NEW t \in Tasks, CallStep(t) PROVE TypeOK'
    <2> USE <1>0 DEF Goto, Places
    <2>1. CASE XGet(t) \/ XGetFails(t)
      <3>1. quantum' \in Ints
        BY <1>b, <2>1 DEF XGet, XGetFails
      <3>2. tmp' \in [Tasks -> Ints] /\ arg' \in [Tasks -> Ints]
        BY <1>b, <2>1, ZenonT(40) DEF XGet, XGetFails
      <3>3. pc' \in [Tasks -> Places]
        BY <2>1 DEF XGet, XGetFails
      <3>4. UNCHANGED <<module, tasks>>
        BY <2>1 DEF XGet, XGetFails
      <3> QED BY <3>1, <3>2, <3>3, <3>4
    <2>2. CASE XPut(t) \/ HStore(t)
      <3>1. tmp' \in [Tasks -> Ints] /\ arg' \in [Tasks -> Ints]
        BY <1>b, <2>2, ZenonT(40) DEF XPut, HStore, GiveOld
      <3>2. quantum' \in Ints
        BY <2>2 DEF XPut, HStore
      <3>3. pc' \in [Tasks -> Places]
        BY <2>2 DEF XPut, HStore
      <3> QED BY <2>2, <3>1, <3>2, <3>3 DEF XPut, HStore
    <2>3. CASE ILock(t) \/ IScan(t) \/ IUnlock(t) \/ ICopy(t)
      BY <2>3 DEF ILock, IScan, IUnlock, ICopy
    <2>4. CASE IAlloc(t) \/ IAllocFails(t)
      <3>1. nodes' \in Nat
        BY <2>4 DEF IAlloc, IAllocFails
      <3>2. pc' \in [Tasks -> Places]
        BY <2>4 DEF IAlloc, IAllocFails
      <3>3. mLock' \in Tasks \cup {Nobody}
        BY <2>4 DEF IAlloc, IAllocFails
      <3>4. UNCHANGED <<module, quantum, list, tail, frame>>
        BY <2>4 DEF IAlloc, IAllocFails
      <3> QED BY <3>1, <3>2, <3>3, <3>4
    <2>5. CASE ITail(t)
      BY <2>5 DEF ITail
    <2>6. CASE IAppend(t)
      <3>1. tail[t] = Len(list)
        BY <2>6 DEF IAppend, IInv, ScanHolds
      <3>2. list' \in Seq(Tasks)
        BY <2>6, <3>1, AppendAtEnd DEF IAppend
      <3> QED BY <2>6, <3>2 DEF IAppend
    <2> QED BY <1>5, <2>1, <2>2, <2>3, <2>4, <2>5, <2>6 DEF CallStep, Proceed
  <1> QED BY <1>1, <1>2, <1>3, <1>4, <1>5 DEF Next

(* Loading, unloading, opening and closing.                                *)
LEMMA ModuleStep ==
    ASSUME IInv, TypeOK',
           Load \/ Unload \/ \E t \in Tasks : Open(t) \/ Close(t)
    PROVE  IInv'
  <1> USE DEF IInv, TypeOK, module, tasks, frame
  <1>1. CASE Load \/ Unload
    <2>1. \A t \in Tasks : pc'[t] = "idle"
      BY <1>1 DEF Load, Unload, CallsAreOpen
    <2>2. Holding = {} /\ Holding' = {}
      BY <1>1, <2>1 DEF Load, Unload, CallsAreOpen, Holding
    <2>3. list' = <<>> /\ nodes' = 0 /\ opened' = {}
      BY <1>1, <2>2 DEF Load, Unload, CallsAreOpen, NodesCounted
    <2> QED BY <2>1, <2>2, <2>3, SMTT(30)
            DEF CallsAreOpen, OwnsLock, ScanHolds, NodesCounted, TasksUnique, Critical
  <1>2. ASSUME NEW t \in Tasks, Open(t) \/ Close(t) PROVE IInv'
    <2>1. UNCHANGED <<loaded, tasks, pc>>
      BY <1>2 DEF Open, Close, AtOnce
    <2>2. CallsAreOpen'
      BY <1>2 DEF Open, Close, AtOnce, CallsAreOpen
    <2>3. OwnsLock' /\ ScanHolds' /\ TasksUnique'
      BY <2>1 DEF OwnsLock, ScanHolds, TasksUnique, Listed
    <2>4. NodesCounted'
      BY <2>1 DEF NodesCounted, Holding
    <2> QED BY <2>2, <2>3, <2>4
  <1> QED BY <1>1, <1>2

(* Commands and steps that do not touch the list.                          *)
LEMMA QuantumStep ==
    ASSUME IInv, TypeOK', NEW t \in Tasks,
           \/ Command(t)
           \/ XGet(t) \/ XGetFails(t) \/ XPut(t) \/ HStore(t)
    PROVE  IInv'
  <1> USE DEF module, tasks, frame
  <1>1. UNCHANGED <<module, tasks>>
    BY DEF Command, Reset, Set, SetFails, Get, XBegin, HBegin, IBegin, ReadOld,
           XGet, XGetFails, XPut, HStore
  <1>2. pc[t] \in {"idle", "x_get", "x_put", "h_store"} /\ t \in opened
    BY DEF Command, Reset, Set, SetFails, Get, XBegin, HBegin, IBegin, ReadOld, AtOnce, Enter,
           XGet, XGetFails, XPut, HStore, Goto, IInv, CallsAreOpen
  <1>3. \E p \in {"idle", "x_get", "x_put", "h_store", "i_lock"} : pc' = [pc EXCEPT ![t] = p]
    <2>1. CASE UNCHANGED pc
      <3>1. pc' = [pc EXCEPT ![t] = pc[t]]
        BY <2>1 DEF IInv, TypeOK
      <3> QED BY <3>1, <1>2
    <2>2. CASE XBegin(t) \/ HBegin(t) \/ IBegin(t)
      BY <2>2 DEF XBegin, HBegin, IBegin, ReadOld, Enter, Goto
    <2>3. CASE XGet(t) \/ XGetFails(t) \/ XPut(t) \/ HStore(t)
      BY <2>3 DEF XGet, XGetFails, XPut, HStore, Goto
    <2> QED BY <2>1, <2>2, <2>3 DEF Command, Reset, Set, SetFails, Get, AtOnce
  <1> QED BY <1>1, <1>2, <1>3, OutsideStep DEF Critical, Places

(* The steps of the command that reads and extends the list.               *)
LEMMA ListStep ==
    ASSUME IInv, TypeOK', NEW t \in Tasks,
           \/ ILock(t) \/ IScan(t) \/ IAlloc(t) \/ IAllocFails(t)
           \/ ITail(t) \/ IAppend(t) \/ IUnlock(t) \/ ICopy(t)
    PROVE  IInv'
  <1> USE DEF module, tasks, frame, Goto
  <1>0. TypeOK /\ CallsAreOpen /\ OwnsLock /\ ScanHolds /\ NodesCounted /\ TasksUnique
    BY DEF IInv
  <1>1. PICK p \in Places : pc' = [pc EXCEPT ![t] = p]
    BY <1>0 DEF ILock, IScan, IAlloc, IAllocFails, ITail, IAppend, IUnlock, ICopy, Places
  <1>2. \A u \in Tasks : pc'[u] = IF u = t THEN p ELSE pc[u]
    BY <1>0, <1>1 DEF TypeOK
  <1>3. UNCHANGED module /\ t \in opened
    BY <1>0 DEF ILock, IScan, IAlloc, IAllocFails, ITail, IAppend, IUnlock, ICopy, CallsAreOpen
  <1>4. CallsAreOpen'
    BY <1>0, <1>2, <1>3 DEF CallsAreOpen
  <1>5. CASE ILock(t)
    <2>1. \A u \in Tasks : pc[u] \notin Critical
      BY <1>0, <1>5, IoctlAssumption DEF ILock, OwnsLock
    <2>2. OwnsLock'
      BY <1>2, <1>5, <2>1 DEF ILock, OwnsLock
    <2>3. ScanHolds' /\ TasksUnique'
      BY <1>0, <1>2, <1>5, <2>1 DEF ILock, ScanHolds, TasksUnique, Listed, Critical
    <2>4. Holding = {} /\ Holding' = {}
      BY <1>2, <1>5, <2>1 DEF ILock, Holding, Critical
    <2>5. NodesCounted'
      BY <1>0, <1>5, <2>4 DEF ILock, NodesCounted
    <2> QED BY <1>4, <2>2, <2>3, <2>5 DEF IInv
  <1>6. ASSUME pc[t] \in Critical
        PROVE  /\ mLock = t
               /\ \A u \in Tasks : u # t => pc[u] \notin Critical /\ pc'[u] = pc[u]
    BY <1>0, <1>2, <1>6, OneInside DEF OwnsLock
  <1>7. CASE IScan(t)
    <2>1. pc[t] \in Critical
      BY <1>7 DEF IScan, Critical
    <2>2. OwnsLock'
      BY <1>0, <1>2, <1>6, <1>7, <2>1 DEF IScan, OwnsLock
    <2>3. ScanHolds' /\ TasksUnique'
      BY <1>0, <1>2, <1>7 DEF IScan, ScanHolds, TasksUnique, Listed, TypeOK
    <2>4. Holding' = Holding
      BY <1>0, <1>2, <1>7 DEF IScan, Holding, TypeOK
    <2>5. NodesCounted'
      BY <1>0, <1>7, <2>4 DEF IScan, NodesCounted
    <2> QED BY <1>4, <2>2, <2>3, <2>5 DEF IInv
  <1>8. CASE IAlloc(t) \/ IAllocFails(t)
    <2>1. pc[t] \in Critical /\ pc[t] = "i_alloc"
      BY <1>8 DEF IAlloc, IAllocFails, Critical
    <2>2. OwnsLock'
      BY <1>0, <1>2, <1>6, <1>8, <2>1 DEF IAlloc, IAllocFails, OwnsLock, TypeOK, Critical
    <2>3. ScanHolds' /\ TasksUnique'
      BY <1>0, <1>2, <1>8 DEF IAlloc, IAllocFails, ScanHolds, TasksUnique, Listed, TypeOK
    <2>4. Holding = {}
      BY <1>6, <2>1 DEF Holding, Critical
    <2>5. NodesCounted'
      <3>1. CASE IAlloc(t)
        <4>1. t \in Holding'
          BY <1>0, <3>1 DEF IAlloc, Holding, TypeOK
        <4> QED BY <1>0, <2>4, <3>1, <4>1 DEF IAlloc, NodesCounted
      <3>2. CASE IAllocFails(t)
        <4>1. Holding' = {}
          BY <1>0, <1>2, <2>4, <3>2 DEF IAllocFails, Holding, TypeOK
        <4> QED BY <1>0, <2>4, <3>2, <4>1 DEF IAllocFails, NodesCounted
      <3> QED BY <1>8, <3>1, <3>2
    <2> QED BY <1>4, <2>2, <2>3, <2>5 DEF IInv
  <1>9. CASE ITail(t)
    <2>1. pc[t] \in Critical
      BY <1>9 DEF ITail, Critical
    <2>2. OwnsLock'
      BY <1>0, <1>2, <1>6, <1>9, <2>1 DEF ITail, OwnsLock
    <2>3. ScanHolds' /\ TasksUnique'
      BY <1>0, <1>2, <1>9 DEF ITail, ScanHolds, TasksUnique, Listed, TypeOK
    <2>4. Holding' = Holding
      BY <1>0, <1>2, <1>9 DEF ITail, Holding, TypeOK
    <2>5. NodesCounted'
      BY <1>0, <1>9, <2>4 DEF ITail, NodesCounted
    <2> QED BY <1>4, <2>2, <2>3, <2>5 DEF IInv
  <1>10. CASE IAppend(t)
    <2>1. pc[t] \in Critical /\ pc[t] = "i_append"
      BY <1>10 DEF IAppend, Critical
    <2>2. OwnsLock'
      BY <1>0, <1>2, <1>6, <1>10, <2>1 DEF IAppend, OwnsLock
    <2>3. /\ Len(list') = Len(list) + 1
          /\ \A i \in 1 .. Len(list) : list'[i] = list[i]
          /\ list'[Len(list) + 1] = t
          /\ list' \in Seq(Tasks) /\ list \in Seq(Tasks)
      BY <1>0, <1>10, AppendAtEnd DEF IAppend, ScanHolds, TypeOK
    <2>4. Listed' = Listed \cup {t}
      BY <2>3 DEF Listed
    <2>5. ScanHolds'
      <3>1. pc'[t] = "i_unlock"
        BY <1>0, <1>10 DEF IAppend, TypeOK
      <3>2. \A u \in Tasks : u # t => pc'[u] \notin {"i_alloc", "i_tail", "i_append", "i_unlock"}
        BY <1>6, <2>1 DEF Critical
      <3> QED BY <1>0, <1>2, <2>4, <3>1, <3>2 DEF ScanHolds
    <2>6. TasksUnique'
      <3>1. t \notin Listed
        BY <1>0, <2>1 DEF ScanHolds
      <3> QED BY <1>0, <2>3, <3>1 DEF TasksUnique, Listed
    <2>7. Holding = {t} /\ Holding' = {}
      BY <1>0, <1>2, <1>6, <1>10, <2>1 DEF IAppend, Holding, Critical, TypeOK
    <2>8. NodesCounted'
      BY <1>0, <1>10, <2>3, <2>7 DEF IAppend, NodesCounted
    <2> QED BY <1>4, <2>2, <2>5, <2>6, <2>8 DEF IInv
  <1>11. CASE IUnlock(t) \/ ICopy(t)
    <2>1. OwnsLock'
      <3>1. CASE IUnlock(t)
        <4>1. pc[t] \in Critical /\ pc'[t] \notin Critical
          BY <1>0, <3>1 DEF IUnlock, Critical, TypeOK
        <4> QED BY <1>2, <1>6, <4>1 DEF OwnsLock
      <3>2. CASE ICopy(t)
        BY <1>0, <1>2, <3>2 DEF ICopy, OwnsLock, Critical, TypeOK
      <3> QED BY <1>11, <3>1, <3>2
    <2>2. ScanHolds' /\ TasksUnique'
      <3>1. UNCHANGED <<list, tail>> /\ Listed' = Listed
        BY <1>11 DEF IUnlock, ICopy, Listed
      <3>2. pc[t] \in {"i_unlock", "i_copy"} /\ pc'[t] \in {"i_copy", "idle"}
        BY <1>0, <1>11 DEF IUnlock, ICopy, TypeOK
      <3> QED BY <1>0, <1>2, <3>1, <3>2 DEF ScanHolds, TasksUnique
    <2>3. Holding' = Holding
      BY <1>0, <1>2, <1>11 DEF IUnlock, ICopy, Holding, TypeOK
    <2>4. NodesCounted'
      BY <1>0, <1>11, <2>3 DEF IUnlock, ICopy, NodesCounted
    <2> QED BY <1>4, <2>1, <2>2, <2>4 DEF IInv
  <1> QED BY <1>5, <1>7, <1>8, <1>9, <1>10, <1>11

LEMMA IInvStep == IInv /\ [Next]_vars => IInv'
  <1> SUFFICES ASSUME IInv, [Next]_vars PROVE IInv'
    OBVIOUS
  <1>1. CASE Next
    <2>1. TypeOK'
      BY <1>1, TypeStep
    <2> QED BY <1>1, <2>1, ModuleStep, QuantumStep, ListStep DEF Next, CallStep, Proceed
  <1>2. CASE UNCHANGED vars
    BY <1>2 DEF vars, IInv, TypeOK, CallsAreOpen, OwnsLock, ScanHolds, NodesCounted,
                TasksUnique, Listed, Holding
  <1> QED BY <1>1, <1>2

LEMMA Invariance == Spec => []IInv
  BY IInvInit, IInvStep, PTL DEF Spec

-----------------------------------------------------------------------------
(* Theorems *)

(* Every variable keeps its type, whatever the callers do: no step frees   *)
(* more nodes than there are.                                              *)
THEOREM IoctlTypes == Spec => []TypeOK
  <1>1. IInv => TypeOK
    BY DEF IInv
  <1> QED BY <1>1, Invariance, PTL

(* However many tasks ask for information about themselves at once,        *)
(* scull_ioctl lists each of them once.                                    *)
THEOREM TasksListedOnce == Spec => []TasksUnique
  <1>1. IInv => TasksUnique
    BY DEF IInv
  <1> QED BY <1>1, Invariance, PTL

(* scull_ioctl answers a task only after the task is in the list.          *)
THEOREM AnswersAreListed == Spec => []ServedIsListed
  <1>1. IInv => ServedIsListed
    BY DEF IInv, ScanHolds, ServedIsListed
  <1> QED BY <1>1, Invariance, PTL

(* No node is lost: every one kmalloc gave is in the list or about to be,  *)
(* and scull_cleanup_module frees them all.                                *)
THEOREM NodesAccounted == Spec => []NoLeak
  <1>1. IInv => NoLeak
    <2> SUFFICES ASSUME IInv PROVE NoLeak
      OBVIOUS
    <2>1. Cardinality(Holding) = IF Holding = {} THEN 0 ELSE 1
      <3>1. CASE Holding = {}
        BY <3>1, FS_EmptySet
      <3>2. ASSUME NEW t \in Holding PROVE Cardinality(Holding) = 1
        <4>1. Holding = {t}
          BY <3>2, OneInside DEF IInv, Holding, Critical
        <4> QED BY <4>1, FS_Singleton
      <3> QED BY <3>1, <3>2
    <2>2. ~loaded => list = <<>> /\ Holding = {}
      BY DEF IInv, CallsAreOpen, Holding
    <2> QED BY <2>1, <2>2 DEF IInv, NodesCounted, NoLeak, Holding, TypeOK
  <1> QED BY <1>1, Invariance, PTL
===============================================================================
