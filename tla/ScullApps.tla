------------------------------ MODULE ScullApps ------------------------------
(***************************************************************************)
(* The two programs of src/rmiller-pa5/src run against the FIFO device:    *)
(* producer.c forks children that write one message each, consumer.c forks *)
(* children that read one element each, and each parent waits for as many  *)
(* children as it could fork.  A child's system call takes the steps of    *)
(* ScullFifo; a child makes one call and exits.  The driver's module is    *)
(* loaded and unloaded at any time, also while the programs run: a program *)
(* that opens the device while scull_init_module is between cdev_add and   *)
(* sema_init reaches a driver without a FIFO.  Each program is run once.   *)
(***************************************************************************)
EXTENDS ScullModule

CONSTANTS
    ForkMayFail,    \* TRUE when fork may fail
    MAX_CONCURRENCY

ASSUME AppsAssumption == /\ ForkMayFail \in BOOLEAN
                         /\ ReadCounts = {ElemSz}   \* what scull_ioctl says
                         /\ MAX_CONCURRENCY \in Nat
                         /\ MAX_CONCURRENCY <= Cardinality(Readers)
                         /\ MAX_CONCURRENCY <= Cardinality(Writers)

Programs == {"producer", "consumer"}
Children(q) == IF q = "producer" THEN Writers ELSE Readers

VARIABLES
    concurrency,    \* g_concurrency of each program
    parent,         \* what each parent is doing
    i,              \* the loop counter of each parent
    ret,            \* what do_procs is going to return
    child,          \* the life of each child
    wiped           \* the module has been unloaded since a program opened the device

appVars == <<concurrency, parent, i, ret, child, wiped>>
allVars == <<vars, moduleVars, appVars>>

Moves(q, from, to) == parent[q] = from /\ parent' = [parent EXCEPT ![q] = to]

\* Those who have the device open.
Users == {q \in Programs : parent[q] \in {"forking", "waiting", "closing"}}
         \cup {c \in Procs : child[c] \in {"born", "called"}}

-----------------------------------------------------------------------------
(* The module around the programs. *)

LoadStep == /\ Register \/ CdevAdd \/ CdevAddFails \/ KmallocFails
            /\ UNCHANGED <<vars, appVars>>

LoadDone == SetUp /\ UNCHANGED appVars

Rmmod == /\ Unload(Users)
         /\ wiped' = (wiped \/ \E q \in Programs : parent[q] # "new")
         /\ UNCHANGED <<vars, concurrency, parent, i, ret, child>>

-----------------------------------------------------------------------------
(* The parents: parse_arguments, main and do_procs. *)

(* An argument that is missing, no number or out of range ends the program *)
(* before it has done anything.                                            *)
Parse(q) ==
    /\ \E n \in 0 .. MAX_CONCURRENCY + 1 :
          /\ concurrency' = [concurrency EXCEPT ![q] = n]
          /\ Moves(q, "new", IF n \in 1 .. MAX_CONCURRENCY THEN "opening" ELSE "failed")
    /\ UNCHANGED <<vars, moduleVars, i, ret, child, wiped>>

Open(q) ==
    /\ Moves(q, "opening", IF "cdev" \in held THEN "forking" ELSE "failed")
    /\ UNCHANGED <<vars, moduleVars, concurrency, i, ret, child, wiped>>

Fork(q) ==
    /\ parent[q] = "forking"
    /\ i[q] < concurrency[q]
    /\ \E c \in Children(q) : /\ child[c] = "unborn"
                              /\ child' = [child EXCEPT ![c] = "born"]
    /\ i' = [i EXCEPT ![q] = @ + 1]
    /\ UNCHANGED <<vars, moduleVars, concurrency, parent, ret, wiped>>

ForkFails(q) ==
    /\ ForkMayFail
    /\ parent[q] = "forking"
    /\ i[q] < concurrency[q]
    /\ parent' = [parent EXCEPT ![q] = "waiting"]
    /\ ret' = [ret EXCEPT ![q] = -1]
    /\ UNCHANGED <<vars, moduleVars, concurrency, i, child, wiped>>

ForksDone(q) ==
    /\ parent[q] = "forking"
    /\ i[q] = concurrency[q]
    /\ parent' = [parent EXCEPT ![q] = "waiting"]
    /\ UNCHANGED <<vars, moduleVars, concurrency, i, ret, child, wiped>>

Wait(q) ==
    /\ parent[q] = "waiting"
    /\ i[q] > 0
    /\ \E c \in Children(q) : /\ child[c] = "exited"
                              /\ child' = [child EXCEPT ![c] = "reaped"]
    /\ i' = [i EXCEPT ![q] = @ - 1]
    /\ UNCHANGED <<vars, moduleVars, concurrency, parent, ret, wiped>>

(* Bug: --i > 0 for i-- > 0.                                               *)
FinishEarly(q) ==
    /\ parent[q] = "waiting"
    /\ i[q] <= 1
    /\ parent' = [parent EXCEPT ![q] = "closing"]
    /\ UNCHANGED <<vars, moduleVars, concurrency, i, ret, child, wiped>>

Finish(q) ==
    /\ parent[q] = "waiting"
    /\ i[q] = 0
    /\ parent' = [parent EXCEPT ![q] = "closing"]
    /\ UNCHANGED <<vars, moduleVars, concurrency, i, ret, child, wiped>>

Close(q) ==
    /\ Moves(q, "closing", IF ret[q] = 0 THEN "done" ELSE "failed")
    /\ UNCHANGED <<vars, moduleVars, concurrency, i, ret, child, wiped>>
-----------------------------------------------------------------------------
(* The children. *)

Call(c) ==
    /\ driver = "ready"
    /\ child[c] = "born"
    /\ child' = [child EXCEPT ![c] = "called"]
    /\ IF c \in Readers THEN RBegin(c) ELSE WBegin(c)
    /\ UNCHANGED <<moduleVars, concurrency, parent, i, ret, wiped>>

(* The call finds start and the semaphores as the loader left them, zero:  *)
(* a read follows start, a write ends in the semaphore's empty list of     *)
(* sleepers, and the kernel ends the process.  The case that goes well, a  *)
(* write that reads end before the FIFO is set up and is interrupted after *)
(* that, is left out.                                                      *)
CallFaults(c) ==
    /\ child[c] = "born"
    /\ child' = [child EXCEPT ![c] = "exited"]
    /\ NullDeref
    /\ UNCHANGED <<vars, concurrency, parent, i, ret, wiped>>

DriverStep(c) ==
    /\ child[c] = "called"
    /\ IF c \in Readers THEN ReadStep(c) ELSE WriteStep(c)
    /\ UNCHANGED <<moduleVars, appVars>>

DriverFault(c) ==
    /\ child[c] = "called"
    /\ IF c \in Readers THEN ReadFault(c) ELSE WriteFault(c)
    /\ UNCHANGED <<moduleVars, appVars>>

(* A consumer's child puts '\0' behind what read returned and prints it;   *)
(* that, in front of the buffer when read returned -1, is left out.        *)
Exit(c) ==
    /\ child[c] = "called"
    /\ pc[c] = "idle"
    /\ child' = [child EXCEPT ![c] = "exited"]
    /\ UNCHANGED <<vars, moduleVars, concurrency, parent, i, ret, wiped>>
-----------------------------------------------------------------------------

AppsInit ==
    /\ Init
    /\ ModuleInit
    /\ concurrency = [q \in Programs |-> 0]
    /\ parent = [q \in Programs |-> "new"]
    /\ i = [q \in Programs |-> 0]
    /\ ret = [q \in Programs |-> 0]
    /\ child = [c \in Procs |-> "unborn"]
    /\ wiped = FALSE

ParentStep(q) == Open(q) \/ Fork(q) \/ ForksDone(q) \/ Wait(q) \/ Finish(q) \/ Close(q)
ChildStep(c)  == Call(c) \/ CallFaults(c) \/ DriverStep(c) \/ Exit(c)

AppsNext == \/ LoadStep \/ LoadDone \/ Rmmod
            \/ \E q \in Programs : Parse(q) \/ ParentStep(q) \/ ForkFails(q)
            \/ \E c \in Procs : ChildStep(c) \/ DriverFault(c)

AppsSpec == /\ AppsInit
            /\ [][AppsNext]_allVars
            /\ \A q \in Programs : WF_allVars(ParentStep(q))
            /\ \A c \in Procs : WF_allVars(ChildStep(c))

-----------------------------------------------------------------------------
(* Properties *)

Forked(q) == {c \in Children(q) : child[c] # "unborn"}
Forking   == \E q \in Programs : parent[q] \in {"opening", "forking"}

(* A parent closes the device only when every child it forked has exited   *)
(* and has been reaped, also when fork failed halfway: the wait loop       *)
(* counts what the fork loop made.  It reports success only if it made all *)
(* that were asked for.                                                    *)
ParentsOutliveChildren ==
    \A q \in Programs :
        /\ parent[q] \in {"closing", "done", "failed"} =>
              \A c \in Forked(q) : child[c] = "reaped"
        /\ parent[q] = "done" => Cardinality(Forked(q)) = concurrency[q]

(* A call that has begun on a FIFO keeps it until it returns, and whoever  *)
(* has the device open keeps the module in the kernel: neither rmmod nor   *)
(* another insmod comes between, in whatever stage of loading the device   *)
(* was opened.                                                             *)
CallsKeepFifo ==
    /\ \A c \in Procs : child[c] = "called" => driver = "ready" /\ held = Resources
    /\ Users # {} => driver \notin {"out", "registered"}

(* No call reaches the driver without a FIFO: what "allocate FIFO          *)
(* correctly here" in scull_init_module, and its errors, which all go to   *)
(* fail, are there for.                                                    *)
CallsFindFifo == driver # "oops"

(* The calls that were not cut short by a signal.                          *)
Lasting(q) == {c \in Forked(q) : ~(pc[c] = "idle" /\ returned[c] = -1)}

(* Let forking be over, and let there be no more consumers than producers, *)
(* and no more producers than consumers and elements of the ring together, *)
(* not counting the calls a signal cut short, and let no unloading throw   *)
(* elements away.  Then both programs end: nobody sleeps for ever on a     *)
(* semaphore or on a child, and no interrupted call takes the ticket of    *)
(* another one with it.                                                    *)
Balanced ==
    LET p == Cardinality(Lasting("producer"))
        c == Cardinality(Lasting("consumer"))
    IN  ~Forking /\ ~wiped /\ c <= p /\ p <= c + FifoSize
AllDone == \A q \in Programs : parent[q] \in {"new", "done", "failed"}
=============================================================================
