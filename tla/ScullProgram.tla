---------------------------- MODULE ScullProgram ----------------------------
(***************************************************************************)
(* The test program of src/pa4/src/scull.c with the driver it talks to.    *)
(* The program parses one command, opens the device, carries the command   *)
(* out and closes the device.  Two commands are tests: "p" forks children  *)
(* and "t" starts threads, each of which asks twice for information about  *)
(* itself, and the program waits for them.  The program's tasks have the   *)
(* device to themselves: what any other tasks do to it is the subject of   *)
(* ScullIoctl's own behaviours.                                            *)
(*                                                                         *)
(* The i-th child or thread of every test has the same pid: the kernel     *)
(* may give a pid again once its task is gone.                             *)
(***************************************************************************)
EXTENDS ScullIoctl, Functions

CONSTANTS
    Main,           \* the task of the program
    Workers,        \* the tasks a test makes, in their order (four in the code)
    SpawnFails      \* TRUE when fork and pthread_create may fail

Crew == Range(Workers)
Size == Len(Workers)

ASSUME ProgramAssumption == /\ Crew \cup {Main} = Tasks
                            /\ Workers \in Seq(Tasks)
                            /\ \A i, j \in 1 .. Size : Workers[i] = Workers[j] => i = j
                            /\ Main \notin Crew
                            /\ SpawnFails \in BOOLEAN

VARIABLES
    stage,          \* where main stands
    cmd,            \* the command
    count,          \* how many workers were tried, or waited for
    job,            \* each worker: "none", "run" or "ended"
    left,           \* the calls a worker still has to make
    shown           \* the tasks whose information this run has printed

program == <<stage, cmd, count, job, left, shown>>
device  == <<module, quantum, tasks, frame, pc>>
pvars   == <<vars, program>>

Tests  == {"p", "t"}
Stages == {"out", "open", "op", "wait", "close", "crash", "hung"}
-----------------------------------------------------------------------------
(* The program from its start to its end. *)

(* Arguments that are not a command end the program at once.               *)
parse_arguments ==
    /\ stage = "out"
    /\ \E c \in {"R", "S", "T", "G", "Q", "X", "H", "i"} \cup Tests : cmd' = c
    /\ stage' = "open"
    /\ UNCHANGED <<device, count, job, left, shown>>

OpenDevice ==
    /\ stage = "open"
    /\ Open(Main)
    /\ stage' = "op"
    /\ UNCHANGED <<cmd, count, job, left, shown>>

OpenFails ==
    /\ stage = "open"
    /\ ~loaded
    /\ stage' = "out"
    /\ cmd' = "none"
    /\ UNCHANGED <<device, count, job, left, shown>>

Asked ==
    \/ cmd = "R" /\ Reset(Main)
    \/ cmd \in {"S", "T"} /\ Set(Main)
    \/ cmd \in {"G", "Q"} /\ Get(Main)
    \/ cmd = "X" /\ XBegin(Main)
    \/ cmd = "H" /\ HBegin(Main)
    \/ cmd = "i" /\ IBegin(Main)

do_op ==
    /\ stage = "op"
    /\ Asked
    /\ stage' = "close"
    /\ UNCHANGED <<cmd, count, job, left, shown>>

(* The close follows when the command's call has returned.  A program      *)
(* that crashed leaves the device when its last thread is gone.            *)
CloseDevice ==
    /\ \/ stage = "close"
       \/ stage = "crash" /\ \A w \in Crew : job[w] # "run"
    /\ Close(Main)
    /\ stage' = "out"
    /\ shown' = {}
    /\ count' = 0
    /\ job' = [w \in Crew |-> "none"]
    /\ cmd' = "none"
    /\ UNCHANGED left
-----------------------------------------------------------------------------
(* The tests. *)

(* fork gives the child the parent's file, as pthread_create does.         *)
Spawn ==
    LET w == Workers[count + 1] IN
    /\ stage = "op"
    /\ cmd \in Tests
    /\ count < Size
    /\ Open(w)
    /\ job' = [job EXCEPT ![w] = "run"]
    /\ left' = [left EXCEPT ![w] = 2]
    /\ count' = count + 1
    /\ UNCHANGED <<stage, cmd, shown>>

(* A fork that fails returns -1: the caller goes on as the parent.  The    *)
(* result of pthread_create is not looked at.                              *)
SpawnFailed ==
    /\ SpawnFails
    /\ stage = "op"
    /\ cmd \in Tests
    /\ count < Size
    /\ count' = count + 1
    /\ UNCHANGED <<device, stage, cmd, job, left, shown>>

Spawned ==
    /\ stage = "op"
    /\ cmd \in Tests
    /\ count = Size
    /\ stage' = "wait"
    /\ count' = 0
    /\ UNCHANGED <<device, cmd, job, left, shown>>

(* Bug: wait is believed to return at once only for a child that ended.    *)
WaitChildOnly ==
    /\ stage = "wait"
    /\ cmd = "p"
    /\ count < Size
    /\ \E w \in Crew : job[w] = "ended" /\ job' = [job EXCEPT ![w] = "none"]
    /\ count' = count + 1
    /\ UNCHANGED <<device, stage, cmd, left, shown>>

(* wait reaps a child that ended, or fails when there is no child.         *)
WaitChild ==
    /\ stage = "wait"
    /\ cmd = "p"
    /\ count < Size
    /\ \/ \E w \in Crew : job[w] = "ended" /\ job' = [job EXCEPT ![w] = "none"]
       \/ (\A w \in Crew : job[w] = "none") /\ UNCHANGED job
    /\ count' = count + 1
    /\ UNCHANGED <<device, stage, cmd, left, shown>>

JoinThread ==
    LET w == Workers[count + 1] IN
    /\ stage = "wait"
    /\ cmd = "t"
    /\ count < Size
    /\ job[w] = "ended"
    /\ job' = [job EXCEPT ![w] = "none"]
    /\ count' = count + 1
    /\ UNCHANGED <<device, stage, cmd, left, shown>>

(* The join of a thread that was never created reads an uninitialized      *)
(* pthread_t: it may fail, crash the program or never return.              *)
JoinGarbage ==
    /\ stage = "wait"
    /\ cmd = "t"
    /\ count < Size
    /\ job[Workers[count + 1]] = "none"
    /\ \/ count' = count + 1 /\ UNCHANGED stage
       \/ stage' \in {"crash", "hung"} /\ UNCHANGED count
    /\ UNCHANGED <<device, cmd, job, left, shown>>

(* Bug: the loop waits once too little.                                    *)
WaitedOneShort ==
    /\ stage = "wait"
    /\ count = Size - 1
    /\ stage' = "close"
    /\ UNCHANGED <<device, cmd, count, job, left, shown>>

Waited ==
    /\ stage = "wait"
    /\ count = Size
    /\ stage' = "close"
    /\ count' = 0
    /\ UNCHANGED <<device, cmd, job, left, shown>>
-----------------------------------------------------------------------------
(* A worker: two calls, then exit(0) or pthread_exit(0). *)

Ask(w) ==
    /\ job[w] = "run"
    /\ left[w] > 0
    /\ stage # "crash"
    /\ IBegin(w)
    /\ left' = [left EXCEPT ![w] = @ - 1]
    /\ UNCHANGED <<stage, cmd, count, job, shown>>

(* A crash ends a thread when its call returns.                            *)
WorkerEnds(w) ==
    /\ job[w] = "run"
    /\ left[w] = 0 \/ stage = "crash"
    /\ Close(w)
    /\ job' = [job EXCEPT ![w] = "ended"]
    /\ left' = [left EXCEPT ![w] = 0]
    /\ UNCHANGED <<stage, cmd, count, shown>>

(* A step of a call of the program's own tasks.  What an Info call answers *)
(* is printed.                                                             *)
TeamStep(t) ==
    /\ Proceed(t)
    /\ shown' = IF pc[t] = "i_copy" THEN shown \cup {t} ELSE shown
    /\ UNCHANGED <<stage, cmd, count, job, left>>
-----------------------------------------------------------------------------

ProgramInit ==
    /\ Init
    /\ stage = "out"
    /\ cmd = "none"
    /\ count = 0
    /\ job = [w \in Crew |-> "none"]
    /\ left = [w \in Crew |-> 0]
    /\ shown = {}

MainStep ==
    \/ OpenDevice \/ OpenFails \/ do_op \/ CloseDevice
    \/ Spawn \/ SpawnFailed \/ Spawned
    \/ WaitChild \/ JoinThread \/ JoinGarbage \/ Waited
    \/ TeamStep(Main)

WorkerStep(w) == Ask(w) \/ WorkerEnds(w) \/ TeamStep(w)

ProgramNext ==
    \/ parse_arguments \/ MainStep
    \/ \E w \in Crew : WorkerStep(w)
    \/ (Load \/ Unload) /\ UNCHANGED program

(* A started program, its workers and every call run on; the mutex is      *)
(* handed to its waiters in turn.                                          *)
ProgramSpec ==
    /\ ProgramInit /\ [][ProgramNext]_pvars
    /\ WF_pvars(MainStep)
    /\ \A w \in Crew : WF_pvars(WorkerStep(w))
    /\ \A t \in Tasks : SF_pvars(ILock(t) /\ UNCHANGED program)
-----------------------------------------------------------------------------
(* Properties *)

(* Information the program printed is about tasks that are in the driver's *)
(* list, as long as the program has the device open: the list of an        *)
(* unloaded module's last life never goes by it.                           *)
PrintedIsListed == shown \subseteq Listed

(* The device is closed, and do_op's fd gone, only after the last child or *)
(* thread that uses it has ended, also when some were never made.          *)
WorkersEndFirst == stage \in {"close", "out"} => \A w \in Crew : job[w] # "run" /\ w \notin opened

(* The program ends, whatever forks fail, and although a failed allocation *)
(* returns from inside the critical section ("cannot forget or else        *)
(* deadlock", driver/scull.c:165), unless it hangs in the join of a thread *)
(* it never created.                                                       *)
ProgramEnds == stage # "out" ~> stage \in {"out", "hung"}
=============================================================================
