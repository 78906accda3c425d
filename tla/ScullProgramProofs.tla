------------------------- MODULE ScullProgramProofs -------------------------
(***************************************************************************)
(* Theorems about ScullProgram, for tests with any number of workers,      *)
(* whatever forks, allocations and addresses fail.  The program and its    *)
(* workers are callers of the device among others, so that everything      *)
(* proved of ScullIoctl carries over to it; its own theorems are about the *)
(* way the two tests wait for their workers, and about what it prints.     *)
(***************************************************************************)
EXTENDS ScullProgram, ScullIoctlProofs

-----------------------------------------------------------------------------
(* The inductive invariant *)

(* The workers that were made and not yet reaped or joined.                *)
Busy == {w \in Crew : job[w] # "none"}

ProgramTypes ==
    /\ stage \in Stages
    /\ count \in 0 .. Size
    /\ job \in [Crew -> {"none", "run", "ended"}]

(* A worker that runs has the device open, and one that does not run has   *)
(* not.                                                                    *)
WorkersHaveDevice == \A w \in Crew : w \in opened <=> job[w] = "run"

(* Main has it open between do_op and the close.                           *)
MainHasDevice == Main \in opened <=> stage \notin {"out", "open"}

(* Before and after the tests, and in every other command, there are no    *)
(* workers.                                                                *)
NoWorkersYet ==
    /\ stage \in {"out", "open", "close"} => Busy = {}
    /\ stage = "op" /\ cmd \notin Tests => Busy = {}

(* The loop of wait calls: with every call that returned there is one      *)
(* worker less to wait for, or there is none at all.                       *)
WaitsSuffice == stage = "wait" /\ cmd = "p" => Cardinality(Busy) <= Size - count

(* The loop of joins: the threads that were joined are gone.               *)
JoinedAreGone ==
    /\ stage = "wait" => cmd \in Tests
    /\ stage = "wait" /\ cmd = "t" => \A k \in 1 .. count : job[Workers[k]] = "none"

(* Nothing is printed before the device is open.                           *)
NothingPrinted == stage \in {"out", "open"} => count = 0 /\ shown = {}

PInv == /\ ProgramTypes /\ WorkersHaveDevice /\ MainHasDevice /\ NoWorkersYet
        /\ WaitsSuffice /\ JoinedAreGone /\ NothingPrinted /\ PrintedIsListed

-----------------------------------------------------------------------------
(* The crew *)

(* The workers are tasks other than main, all of them among Workers.       *)
LEMMA CrewTasks ==
    /\ Size \in Nat
    /\ \A k \in 1 .. Size : Workers[k] \in Crew
    /\ \A w \in Crew : \E k \in 1 .. Size : w = Workers[k]
    /\ Main \in Tasks /\ Main \notin Crew /\ Crew \subseteq Tasks
    /\ Tasks = Crew \cup {Main}
  <1>1. Workers \in Seq(Tasks)
    BY ProgramAssumption
  <1>2. Size \in Nat /\ DOMAIN Workers = 1 .. Size
    BY <1>1 DEF Size
  <1>3. Crew = {Workers[k] : k \in 1 .. Size}
    BY <1>2 DEF Crew, Range
  <1> QED BY <1>2, <1>3, ProgramAssumption

(* There are no more workers than Size.                                    *)
LEMMA CrewFinite == IsFiniteSet(Crew) /\ Cardinality(Crew) <= Size
  <1>1. Workers \in [1 .. Size -> Crew]
    <2>1. Workers \in Seq(Tasks)
      BY ProgramAssumption
    <2> QED BY <2>1, CrewTasks DEF Size
  <1>2. Workers \in Surjection(1 .. Size, Crew)
    BY <1>1, CrewTasks DEF Surjection
  <1>3. ExistsSurjection(1 .. Size, Crew)
    BY <1>2 DEF ExistsSurjection
  <1>4. IsFiniteSet(Crew)
    BY <1>3, CrewTasks, FS_NatSurjection
  <1> QED BY <1>3, <1>4, CrewTasks, FS_SurjCardinalityBound

(* The busy workers can be counted, and one that is reaped leaves one less.*)
LEMMA BusyCounted ==
    /\ IsFiniteSet(Busy)
    /\ Cardinality(Busy) \in Nat
    /\ Cardinality(Busy) <= Size
    /\ Cardinality(Busy) = 0 => Busy = {}
    /\ \A w \in Busy : Cardinality(Busy \ {w}) = Cardinality(Busy) - 1
  <1>1. Busy \in SUBSET Crew
    BY DEF Busy
  <1>2. IsFiniteSet(Busy) /\ Cardinality(Busy) <= Cardinality(Crew)
    BY <1>1, CrewFinite, FS_Subset
  <1>3. Cardinality(Busy) \in Nat /\ Cardinality(Crew) \in Nat
    BY <1>2, CrewFinite, FS_CardinalityType
  <1>4. Cardinality(Busy) = 0 => Busy = {}
    BY <1>2, FS_EmptySet
  <1>5. \A w \in Busy : Cardinality(Busy \ {w}) = Cardinality(Busy) - 1
    BY <1>2, FS_RemoveElement
  <1> QED BY <1>2, <1>3, <1>4, <1>5, CrewFinite, CrewTasks

-----------------------------------------------------------------------------
(* The program is a caller of the device *)

(* Every step of the program, its workers and the module is a step of      *)
(* ScullIoctl or leaves the device alone.                                  *)
LEMMA ProgramCalls == ProgramTypes /\ [ProgramNext]_pvars => [Next]_vars
  <1> SUFFICES ASSUME ProgramTypes, ProgramNext PROVE [Next]_vars
    BY DEF pvars
  <1>1. Main \in Tasks /\ Crew \subseteq Tasks
    BY CrewTasks
  <1>2. (device' = device) => [Next]_vars
    BY DEF device, vars, module, tasks, frame
  <1>3. CASE parse_arguments
    BY <1>2, <1>3 DEF parse_arguments
  <1>4. CASE MainStep
    <2>1. CASE OpenDevice
      BY <1>1, <2>1 DEF OpenDevice, Next
    <2>2. CASE do_op
      BY <1>1, <2>2 DEF do_op, Asked, Next, Command
    <2>3. CASE CloseDevice
      BY <1>1, <2>3 DEF CloseDevice, Next
    <2>4. CASE Spawn
      <3>1. Workers[count + 1] \in Tasks
        BY <2>4, CrewTasks DEF Spawn, ProgramTypes
      <3> QED BY <2>4, <3>1 DEF Spawn, Next
    <2>5. CASE TeamStep(Main)
      BY <1>1, <2>5 DEF TeamStep, Next, CallStep
    <2>6. CASE OpenFails \/ SpawnFailed \/ Spawned \/ WaitChild \/ JoinThread
               \/ JoinGarbage \/ Waited
      BY <1>2, <2>6 DEF OpenFails, SpawnFailed, Spawned, WaitChild, JoinThread,
                        JoinGarbage, Waited
    <2> QED BY <1>4, <2>1, <2>2, <2>3, <2>4, <2>5, <2>6 DEF MainStep
  <1>5. ASSUME NEW w \in Crew, WorkerStep(w) PROVE [Next]_vars
    BY <1>1, <1>5 DEF WorkerStep, Ask, WorkerEnds, TeamStep, Next, Command, CallStep
  <1>6. CASE (Load \/ Unload) /\ UNCHANGED program
    BY <1>6 DEF Next
  <1> QED BY <1>3, <1>4, <1>5, <1>6 DEF ProgramNext
-----------------------------------------------------------------------------
(* The invariant holds *)

LEMMA PInvInit == ProgramInit => PInv
  <1> SUFFICES ASSUME ProgramInit PROVE PInv
    OBVIOUS
  <1>1. Busy = {}
    BY DEF ProgramInit, Busy
  <1>2. opened = {}
    BY DEF ProgramInit, Init
  <1> QED BY <1>1, <1>2, CrewTasks
       DEF ProgramInit, PInv, ProgramTypes, Stages, WorkersHaveDevice, MainHasDevice, NoWorkersYet,
           WaitsSuffice, JoinedAreGone, NothingPrinted, PrintedIsListed

(* The parts of the invariant that are about main and the workers.         *)
Waits == /\ ProgramTypes /\ WorkersHaveDevice /\ MainHasDevice /\ NoWorkersYet
         /\ WaitsSuffice /\ JoinedAreGone

LEMMA StageStep ==
    ASSUME Waits, TypeOK,
           parse_arguments \/ OpenDevice \/ OpenFails \/ do_op \/ CloseDevice
    PROVE  Waits'
  <1> USE CrewTasks
      DEF Waits, ProgramTypes, Stages, Tests, WorkersHaveDevice, MainHasDevice, NoWorkersYet,
          WaitsSuffice, JoinedAreGone, Busy, device, module, TypeOK
  <1>1. CASE parse_arguments
    BY <1>1 DEF parse_arguments
  <1>2. CASE OpenDevice
    BY <1>2 DEF OpenDevice, Open
  <1>3. CASE OpenFails
    BY <1>3 DEF OpenFails
  <1>4. CASE do_op
    <2>1. cmd \notin Tests /\ UNCHANGED opened
      BY <1>4 DEF do_op, Asked, Reset, Set, Get, XBegin, HBegin, IBegin, ReadOld
    <2> QED BY <1>4, <2>1 DEF do_op
  <1>5. CASE CloseDevice
    <2>1. opened' = opened \ {Main}
      BY <1>5 DEF CloseDevice, Close
    <2>2. \A w \in Crew : w \notin opened
      BY <1>5 DEF CloseDevice
    <2> QED BY <1>5, <2>1, <2>2 DEF CloseDevice
  <1> QED BY <1>1, <1>2, <1>3, <1>4, <1>5

LEMMA SpawnStep ==
    ASSUME Waits, TypeOK, Spawn \/ SpawnFailed \/ Spawned
    PROVE  Waits'
  <1> USE CrewTasks
      DEF Waits, ProgramTypes, Stages, Tests, WorkersHaveDevice, MainHasDevice, NoWorkersYet,
          JoinedAreGone, device, module, TypeOK
  <1>1. CASE Spawn
    BY <1>1 DEF Spawn, Open, Busy, WaitsSuffice
  <1>2. CASE SpawnFailed
    BY <1>2 DEF SpawnFailed, Busy, WaitsSuffice
  <1>3. CASE Spawned
    <2>1. Cardinality(Busy)' <= Size - count'
      BY <1>3, BusyCounted DEF Spawned, Busy
    <2> QED BY <1>3, <2>1 DEF Spawned, WaitsSuffice, Busy
  <1> QED BY <1>1, <1>2, <1>3

LEMMA WaitStep ==
    ASSUME Waits, TypeOK, WaitChild \/ JoinThread \/ JoinGarbage \/ Waited
    PROVE  Waits'
  <1> USE CrewTasks
      DEF Waits, ProgramTypes, Stages, Tests, WorkersHaveDevice, MainHasDevice, NoWorkersYet,
          JoinedAreGone, device, module, TypeOK
  <1>1. CASE WaitChild
    <2>1. /\ stage = "wait" /\ cmd = "p" /\ count < Size /\ count' = count + 1
          /\ opened' = opened /\ stage' = stage /\ cmd' = cmd
      BY <1>1 DEF WaitChild
    <2>2. Cardinality(Busy)' <= Size - count'
      <3>1. CASE \E w \in Crew : job[w] = "ended" /\ job' = [job EXCEPT ![w] = "none"]
        <4>1. PICK w \in Crew : job[w] = "ended" /\ job' = [job EXCEPT ![w] = "none"]
          BY <3>1
        <4>2. w \in Busy /\ Busy' = Busy \ {w}
          BY <4>1 DEF Busy
        <4>3. Cardinality(Busy)' = Cardinality(Busy \ {w})
          BY <4>2
        <4>4. Cardinality(Busy) <= Size - count
          BY <2>1 DEF WaitsSuffice
        <4>5. Cardinality(Busy)' = Cardinality(Busy) - 1 /\ Cardinality(Busy) \in Nat
          BY <4>2, <4>3, BusyCounted
        <4>6. count \in Nat /\ Size \in Nat
          OBVIOUS
        <4> HIDE DEF Busy
        <4> QED BY <2>1, <4>4, <4>5, <4>6
      <3>2. CASE (\A w \in Crew : job[w] = "none") /\ UNCHANGED job
        <4>1. Busy' = {}
          BY <3>2 DEF Busy
        <4> QED BY <2>1, <4>1, FS_EmptySet
      <3> QED BY <1>1, <3>1, <3>2 DEF WaitChild
    <2>3. \A w \in Crew : /\ job'[w] = "run" <=> job[w] = "run"
                          /\ job'[w] \in {"none", "run", "ended"}
      BY <1>1 DEF WaitChild
    <2>4. job' \in [Crew -> {"none", "run", "ended"}]
      BY <1>1 DEF WaitChild
    <2> QED BY <2>1, <2>2, <2>3, <2>4 DEF WaitsSuffice
  <1>2. CASE JoinThread
    BY <1>2 DEF JoinThread, WaitsSuffice
  <1>3. CASE JoinGarbage
    BY <1>3 DEF JoinGarbage, WaitsSuffice
  <1>4. CASE Waited
    <2>1. Busy = {}
      <3>1. CASE cmd = "p"
        BY <1>4, <3>1, BusyCounted DEF Waited, WaitsSuffice
      <3>2. CASE cmd = "t"
        BY <1>4, <3>2 DEF Waited, Busy
      <3> QED BY <1>4, <3>1, <3>2 DEF Waited
    <2> QED BY <1>4, <2>1 DEF Waited, WaitsSuffice, Busy
  <1> QED BY <1>1, <1>2, <1>3, <1>4

LEMMA CrewStep ==
    ASSUME Waits, TypeOK, CallsAreOpen,
           \/ \E w \in Crew : WorkerStep(w)
           \/ TeamStep(Main)
           \/ (Load \/ Unload) /\ UNCHANGED program
    PROVE  Waits'
  <1> USE CrewTasks
      DEF Waits, ProgramTypes, WorkersHaveDevice, MainHasDevice, NoWorkersYet,
          JoinedAreGone, module, program, TypeOK
  <1>1. ASSUME UNCHANGED <<stage, cmd, count, job, opened>> PROVE Waits'
    BY <1>1 DEF WaitsSuffice, Busy
  <1>2. ASSUME NEW t \in Tasks, TeamStep(t) PROVE Waits'
    <2>1. opened' = opened
      BY <1>2 DEF TeamStep, Proceed, XGet, XPut, HStore, ILock, IScan, IAlloc, IAllocFails,
                  ITail, IAppend, IUnlock, ICopy, tasks, frame
    <2> QED BY <1>1, <1>2, <2>1 DEF TeamStep
  <1>3. ASSUME NEW w \in Crew, Ask(w) PROVE Waits'
    BY <1>1, <1>3 DEF Ask, IBegin
  <1>4. ASSUME NEW w \in Crew, WorkerEnds(w) PROVE Waits'
    <2>1. /\ opened' = opened \ {w} /\ job[w] = "run" /\ job' = [job EXCEPT ![w] = "ended"]
          /\ UNCHANGED <<stage, cmd, count>>
      BY <1>4 DEF WorkerEnds, Close
    <2>2. Busy' = Busy
      BY <2>1 DEF Busy
    <2>3. WaitsSuffice'
      BY <2>1, <2>2 DEF WaitsSuffice
    <2>4. job' \in [Crew -> {"none", "run", "ended"}]
      BY <2>1
    <2> QED BY <2>1, <2>2, <2>3, <2>4
  <1>5. CASE (Load \/ Unload) /\ UNCHANGED program
    BY <1>1, <1>5 DEF Load, Unload
  <1> QED BY <1>2, <1>3, <1>4, <1>5 DEF WorkerStep
(* What is printed is listed: the list loses a task only when the module   *)
(* is unloaded, and then nothing that was printed counts any more.         *)
LEMMA PrintedStep ==
    ASSUME PInv, IInv, ProgramNext
    PROVE  NothingPrinted' /\ PrintedIsListed'
  <1> USE CrewTasks
      DEF PInv, NothingPrinted, MainHasDevice
  <1>0. TypeOK /\ CallsAreOpen /\ ScanHolds
    BY DEF IInv
  <1>1. Listed \subseteq Listed' \/ (Unload /\ opened = {})
    <2>1. [Next]_vars
      BY ProgramCalls DEF ProgramTypes, pvars
    <2>2. CASE list' = list
      BY <2>2 DEF Listed
    <2>3. CASE Load
      BY <1>0, <2>3 DEF Load, CallsAreOpen, Listed
    <2>4. CASE Unload
      BY <2>4 DEF Unload
    <2>5. ASSUME NEW t \in Tasks, IAppend(t) PROVE Listed \subseteq Listed'
      <3>1. list \in Seq(Tasks) /\ tail[t] = Len(list)
        BY <1>0, <2>5 DEF TypeOK, ScanHolds, IAppend, Goto
      <3>2. list' = Append(SubSeq(list, 1, Len(list)), t)
        BY <2>5, <3>1 DEF IAppend
      <3>3. /\ Len(list') = Len(list) + 1 /\ list' \in Seq(Tasks)
            /\ \A i \in 1 .. Len(list) : list'[i] = list[i]
        BY <3>1, <3>2, AppendAtEnd
      <3>4. \A i \in DOMAIN list : i \in DOMAIN list' /\ list'[i] = list[i]
        BY <3>1, <3>3
      <3> QED BY <3>4 DEF Listed
    <2>6. CASE Next
      BY <2>2, <2>3, <2>4, <2>5, <2>6
         DEF Next, Open, Close, Command, Reset, Set, SetFails, Get, XBegin, HBegin, IBegin,
             ReadOld, CallStep, Proceed, XGet, XGetFails, XPut, HStore, ILock, IScan, IAlloc,
             IAllocFails, ITail, IUnlock, ICopy, tasks
    <2> QED BY <2>1, <2>2, <2>6 DEF vars
  <1>2. CASE TeamStep(Main) \/ \E w \in Crew : TeamStep(w)
    <2>1. PICK t \in Tasks : TeamStep(t)
      BY <1>2
    <2>2. pc[t] = "i_copy" => t \in Listed
      BY <1>0 DEF ScanHolds
    <2>3. shown' \subseteq Listed /\ pc[t] # "idle"
      BY <2>1, <2>2 DEF TeamStep, PrintedIsListed, Proceed, XGet, XPut, HStore, ILock, IScan,
                        IAlloc, IAllocFails, ITail, IAppend, IUnlock, ICopy, Goto
    <2>4. t \in opened
      BY <1>0, <2>3 DEF CallsAreOpen
    <2>5. stage \notin {"out", "open"}
      BY <2>4 DEF WorkersHaveDevice, NoWorkersYet, Busy
    <2> QED BY <1>1, <2>1, <2>3, <2>4, <2>5 DEF TeamStep, PrintedIsListed
  <1>3. CASE shown' = {} /\ count' = 0
    BY <1>3 DEF PrintedIsListed
  <1>4. CASE UNCHANGED program
    <2>1. Unload => shown = {}
      BY DEF Unload
    <2> QED BY <1>1, <1>4, <2>1 DEF PrintedIsListed, program
  <1>5. CASE parse_arguments \/ OpenFails
    <2>1. shown' = {} /\ count' = 0
      BY <1>5 DEF parse_arguments, OpenFails
    <2> QED BY <1>3, <2>1
  <1>6. CASE \/ OpenDevice \/ do_op \/ Spawn \/ SpawnFailed \/ Spawned \/ WaitChild
             \/ JoinThread \/ JoinGarbage \/ Waited
    <2>1. shown' = shown /\ stage' \notin {"out", "open"}
      BY <1>6 DEF OpenDevice, do_op, Spawn, SpawnFailed, Spawned, WaitChild, JoinThread,
                  JoinGarbage, Waited
    <2>2. Unload => shown = {}
      BY DEF Unload
    <2> QED BY <1>1, <2>1, <2>2 DEF PrintedIsListed
  <1>7. ASSUME NEW w \in Crew, Ask(w) \/ WorkerEnds(w)
        PROVE  NothingPrinted' /\ PrintedIsListed'
    <2>1. shown' = shown /\ stage' = stage /\ count' = count
      BY <1>7 DEF Ask, WorkerEnds
    <2>2. Unload => shown = {}
      BY DEF Unload
    <2> QED BY <1>1, <2>1, <2>2 DEF PrintedIsListed
  <1>8. CASE CloseDevice
    BY <1>3, <1>8 DEF CloseDevice
  <1> QED BY <1>2, <1>4, <1>5, <1>6, <1>7, <1>8 DEF ProgramNext, MainStep, WorkerStep

LEMMA PInvStep == PInv /\ IInv /\ [ProgramNext]_pvars => PInv'
  <1> SUFFICES ASSUME PInv, IInv, [ProgramNext]_pvars PROVE PInv'
    OBVIOUS
  <1>1. CASE ProgramNext
    <2>1. TypeOK /\ CallsAreOpen /\ Waits
      BY DEF IInv, PInv, Waits
    <2>2. Waits'
      BY <1>1, <2>1, StageStep, SpawnStep, WaitStep, CrewStep
         DEF ProgramNext, MainStep, WorkerStep
    <2> QED BY <1>1, <2>2, PrintedStep DEF PInv, Waits
  <1>2. CASE UNCHANGED pvars
    BY <1>2 DEF pvars, vars, program, PInv, ProgramTypes, WorkersHaveDevice, MainHasDevice,
                NoWorkersYet, WaitsSuffice, JoinedAreGone, NothingPrinted, PrintedIsListed,
                Listed, Busy
  <1> QED BY <1>1, <1>2

-----------------------------------------------------------------------------
(* Theorems *)

(* The program, however many children or threads its tests make and        *)
(* whichever of them are never made, uses the device as ScullIoctl says    *)
(* its callers do: main opens it before the first call and closes it after *)
(* the last one.                                                           *)
THEOREM ProgramUsesDevice == ProgramSpec => Spec /\ []PInv
  <1>1. ProgramInit => Init /\ IInv /\ PInv
    BY PInvInit, IInvInit DEF ProgramInit
  <1>2. PInv /\ [ProgramNext]_pvars => [Next]_vars
    BY ProgramCalls DEF PInv
  <1>3. IInv /\ PInv /\ [ProgramNext]_pvars => IInv' /\ PInv'
    BY <1>2, PInvStep, IInvStep
  <1> QED BY <1>1, <1>2, <1>3, PTL DEF ProgramSpec, Spec

(* So what scull_ioctl promises its callers it promises the program: each  *)
(* child or thread is listed once though it asks twice, the answers are    *)
(* about listed tasks, and no node is lost.                                *)
THEOREM ProgramIsServed ==
    ProgramSpec => [](TypeOK /\ TasksUnique /\ NoLeak /\ ServedIsListed)
  BY ProgramUsesDevice, IoctlTypes, TasksListedOnce, NodesAccounted, AnswersAreListed, PTL

(* A child's or thread's calls answer it about itself only when it is in   *)
(* the list, and so what main prints of them.                              *)
THEOREM PrintedTasksAreListed == ProgramSpec => []PrintedIsListed
  <1>1. PInv => PrintedIsListed
    BY DEF PInv
  <1> QED BY <1>1, ProgramUsesDevice, PTL

(* main closes the device only when no child or thread uses it: the loop   *)
(* of waits and the loop of joins are long enough, though neither knows    *)
(* how many forks or pthread_creates failed.                               *)
THEOREM WorkersEndBeforeMain == ProgramSpec => []WorkersEndFirst
  <1>1. PInv => WorkersEndFirst
    BY DEF PInv, NoWorkersYet, WorkersHaveDevice, Busy, WorkersEndFirst
  <1> QED BY <1>1, ProgramUsesDevice, PTL

=============================================================================
