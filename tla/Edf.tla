--------------------------------- MODULE Edf ---------------------------------
(***************************************************************************)
(* The earliest-deadline-first simulator of src/pa3/edf.c.                 *)
(*                                                                         *)
(* The program keeps the jobs in an array it sorts whenever a job arrives, *)
(* runs the first one, and keeps a copy of that one in a variable of its   *)
(* own.  It adds up waiting times when a job starts or starts again, from  *)
(* the time the job was released or was last preempted.                    *)
(*                                                                         *)
(* The input, the processes' CPU times and periods, is chosen in Init.     *)
(***************************************************************************)
EXTENDS Integers, Sequences, FiniteSets

CONSTANTS MaxProcs, MaxCPU, MaxPeriod       \* bounds of the input

ASSUME EdfAssumption == /\ MaxProcs \in Nat \ {0}
                        /\ MaxCPU \in Nat \ {0}
                        /\ MaxPeriod \in Nat \ {0}

VARIABLES
    process,        \* the input
    max_Time,       \* the least common multiple of the periods
    current_Time,   \* the loop counter of main
    schedule,       \* the array of jobs
    max_Size,       \* how many jobs the array has room for
    running,        \* the copy of the job that runs; pid 0 when none does
    procs_created,
    waited,
    printed,        \* the jobs printSchedule last printed, in order
    finished,       \* main has printed its summary
    waitedTicks     \* ticks jobs spent waiting, counted one by one

vars == <<process, max_Time, current_Time, schedule, max_Size, running,
          procs_created, waited, printed, finished, waitedTicks>>

num_proc == Len(process)

-----------------------------------------------------------------------------
(* Helpers of edf.c *)

\* A for loop: Body(state, k) for k = 1, 2 .. n, each on what the one before left.
Loop(Body(_, _), start, n) ==
    LET after[k \in 0 .. n] == IF k = 0 THEN start ELSE Body(after[k-1], k)
    IN  after[n]

NewJob(i, t) == [pid |-> i, CPU_Time |-> process[i].cpu, period |-> process[i].period,
                 deadline |-> t + process[i].period,
                 remaining_Time |-> process[i].cpu, preempted |-> 0, age |-> t]

SwapAt(s, i) == [s EXCEPT ![i] = s[i+1], ![i+1] = s[i]]

(* The body of the two loops of deadline_Sort: three tests in a row, each  *)
(* on what the one before left.                                            *)
SortStep(s, i) ==
    LET a == IF s[i].deadline > s[i+1].deadline THEN SwapAt(s, i) ELSE s
        b == IF a[i].deadline = a[i+1].deadline /\ a[i].age > a[i+1].age
             THEN SwapAt(a, i) ELSE a
    IN  IF /\ b[i].deadline = b[i+1].deadline
           /\ b[i].age = b[i+1].age
           /\ b[i].pid > b[i+1].pid
        THEN SwapAt(b, i) ELSE b

\* Pass j stops j short of the end.
SortPass(s, n) == Loop(SortStep, s, n)
deadline_Sort(s) == Loop(LAMBDA t, j : SortPass(t, Len(s) - j), s, Len(s) - 1)

setPreempt(s, wasRunning) ==
    [k \in DOMAIN s |-> IF s[k] = wasRunning THEN [s[k] EXCEPT !.preempted = current_Time]
                        ELSE s[k]]

(* printSchedule: by age, then by process, then in the order of the array. *)
PrintJob(s, age, pid, out, i) ==
    IF s[i].pid = pid /\ s[i].age = age THEN Append(out, s[i]) ELSE out
PrintProcess(s, age, out, pid) ==
    Loop(LAMBDA o, i : PrintJob(s, age, pid, o, i), out, Len(s))
PrintAge(s, out, age) == Loop(LAMBDA o, pid : PrintProcess(s, age, o, pid), out, num_proc)

(* Bug: the last age is left out.                                          *)
printAllButLastAge(s) == Loop(LAMBDA o, k : PrintAge(s, o, k-1), <<>>, current_Time)

printSchedule(s) == Loop(LAMBDA o, k : PrintAge(s, o, k-1), <<>>, current_Time + 1)

(* How long a job that starts has waited.                                  *)
WaitsSince(job) == IF job.preempted = 0 THEN job.age ELSE job.preempted
Waited(job) == current_Time - WaitsSince(job)

least_common_multiple(a, b) ==
    CHOOSE m \in {a * k : k \in 1..b} :
        /\ m % b = 0
        /\ \A k \in 1..b : (a * k) % b = 0 => m <= a * k

-----------------------------------------------------------------------------
(* main, up to the scheduling loop.                                        *)
Init ==
    /\ \E n \in 1..MaxProcs :
          process \in [1..n -> [cpu : 1..MaxCPU, period : 1..MaxPeriod]]
    /\ max_Time = Loop(LAMBDA m, i : least_common_multiple(m, process[i+1].period),
                       process[1].period, num_proc - 1)
    /\ current_Time = 0
    /\ schedule = deadline_Sort([i \in 1..num_proc |-> NewJob(i, 0)])
    /\ max_Size = num_proc
    /\ running = schedule[1]
    /\ procs_created = num_proc
    /\ waited = 0
    /\ printed = <<>>
    /\ finished = FALSE
    /\ waitedTicks = 0

(* Bug: the tick is taken from the array only.                             *)
RunForInArray(s, r) ==
    /\ schedule' = IF s = <<>> THEN s ELSE [s EXCEPT ![1].remaining_Time = @ - 1]
    /\ running' = r
    /\ waitedTicks' = IF s = <<>> THEN waitedTicks ELSE waitedTicks + Len(s) - 1
    /\ current_Time' = current_Time + 1
    /\ UNCHANGED <<process, max_Time, finished>>

(* One tick less for the running job, in the array and in the copy.        *)
RunFor(s, r) ==
    /\ schedule' = IF s = <<>> THEN s ELSE [s EXCEPT ![1].remaining_Time = @ - 1]
    /\ running' = IF s = <<>> THEN r ELSE [r EXCEPT !.remaining_Time = @ - 1]
    /\ waitedTicks' = IF s = <<>> THEN waitedTicks ELSE waitedTicks + Len(s) - 1
    /\ current_Time' = current_Time + 1
    /\ UNCHANGED <<process, max_Time, finished>>

(* check_Event at time 0.                                                  *)
FirstEvent ==
    /\ current_Time = 0
    /\ printed' = printSchedule(schedule)
    /\ RunFor(schedule, running)
    /\ UNCHANGED <<max_Size, procs_created, waited>>

(* check_Event at the end of the simulation leaves everything as it is.    *)
LastEvent ==
    /\ current_Time # 0
    /\ current_Time = max_Time
    /\ current_Time' = current_Time + 1
    /\ UNCHANGED <<process, max_Time, schedule, max_Size, running, procs_created,
                   waited, printed, finished, waitedTicks>>

-----------------------------------------------------------------------------
(* check_Event in between: the end of the running job, then                *)
(* check_Deadlines.                                                        *)

Ends == running.pid # 0 /\ running.remaining_Time = 0
Left == IF Ends THEN Tail(schedule) ELSE schedule
Resting == IF Ends THEN [running EXCEPT !.pid = 0] ELSE running

IsLate(job) == current_Time % job.period = 0 /\ job.deadline = current_Time
Extended(job) == IF IsLate(job) THEN [job EXCEPT !.deadline = current_Time + job.period]
                 ELSE job

\* A new job of every process whose period is over.
Arrived(new, i) ==
    IF current_Time % process[i].period = 0 THEN Append(new, NewJob(i, current_Time)) ELSE new
Arrivals == Loop(Arrived, <<>>, num_proc)

(* The array after the arrivals, and the room in it: it doubles when an    *)
(* arrival finds it full.                                                  *)
Extension == [k \in DOMAIN Left |-> Extended(Left[k])] \o Arrivals
RoomForTooLate(size, room) == IF size > room THEN 2 * room ELSE room    \* bug
RoomFor(size, room) == IF size = room THEN 2 * room ELSE room
Grown == Loop(LAMBDA room, k : RoomFor(Len(Left) + k - 1, room), max_Size, Len(Arrivals))

(* Bug: the copy keeps the deadline the job has missed.                    *)
WasRunningStale == Resting

(* The copy of the running job that check_Deadlines keeps for comparison.  *)
WasRunning == IF Left # <<>> /\ IsLate(Left[1])
              THEN [Resting EXCEPT !.deadline = current_Time + Left[1].period]
              ELSE Resting

Arrive == /\ max_Size' = Grown
          /\ procs_created' = procs_created + Len(Arrivals)
MiddleEvent == current_Time # 0 /\ current_Time < max_Time

(* Nothing arrived and a job runs on, or there is no job at all.           *)
Continue ==
    /\ MiddleEvent
    /\ Extension = <<>> \/ (Arrivals = <<>> /\ Resting.pid # 0)
    /\ Arrive
    /\ RunFor(Extension, Resting)
    /\ UNCHANGED <<waited, printed>>

(* Jobs arrived while one was running: it goes on or is preempted.         *)
Reconsider ==
    LET sorted == deadline_Sort(Extension)
        first  == sorted[1]
    IN  /\ MiddleEvent
        /\ Arrivals # <<>>
        /\ Resting.pid # 0
        /\ Arrive
        /\ printed' = printSchedule(Extension)
        /\ \/ /\ first = WasRunning
              /\ RunFor(sorted, first)
              /\ UNCHANGED waited
           \/ /\ first # WasRunning
              /\ RunFor(setPreempt(sorted, WasRunning), first)
              /\ waited' = waited + Waited(first)

(* Nothing was running and there is a job to start.                        *)
StartNext ==
    LET sorted == deadline_Sort(Extension)
    IN  /\ MiddleEvent
        /\ Extension # <<>>
        /\ Resting.pid = 0
        /\ Arrive
        /\ printed' = IF Arrivals = <<>> THEN printed ELSE printSchedule(sorted)
        /\ RunFor(sorted, sorted[1])
        /\ waited' = waited + Waited(sorted[1])
-----------------------------------------------------------------------------

(* main, after the loop: the jobs still waiting count until max_Time.      *)
Summary ==
    /\ current_Time > max_Time
    /\ ~finished
    /\ finished' = TRUE
    /\ waited' = Loop(LAMBDA sum, i : sum + max_Time - WaitsSince(schedule[i+1]), waited,
                      IF schedule = <<>> THEN 0 ELSE Len(schedule) - 1)
    /\ UNCHANGED <<process, max_Time, current_Time, schedule, max_Size, running,
                   procs_created, printed, waitedTicks>>

Next == FirstEvent \/ LastEvent \/ Continue \/ Reconsider \/ StartNext \/ Summary

Spec == Init /\ [][Next]_vars

-----------------------------------------------------------------------------
(* Properties *)

Jobs == {schedule[k] : k \in DOMAIN schedule}

(* The copy of the running job never drifts from the job it copies, though *)
(* deadlines, remaining times and preemptions are written in two places;   *)
(* and the copy is empty only when there is nothing to run.                *)
CopyAgrees ==
    IF schedule = <<>> THEN current_Time > 0 /\ running.pid = 0
                       ELSE running = schedule[1]

(* The array never holds more jobs than it has room for.                   *)
NeverOverfull == Len(schedule) <= max_Size

(* Every job in the array was printed exactly once when the array was last *)
(* printed, less the jobs that have ended since.                           *)
PrintedOnce ==
    current_Time > 0 =>
        /\ \A j \in Jobs : Cardinality({k \in DOMAIN printed :
                printed[k].pid = j.pid /\ printed[k].age = j.age}) = 1
        /\ \A k, m \in DOMAIN printed :
                k < m => \/ printed[k].age < printed[m].age
                         \/ printed[k].age = printed[m].age /\ printed[k].pid < printed[m].pid

(* The simulator runs the earliest deadline first, postpones each missed   *)
(* deadline, loses no job, and the sum of waiting times it prints, put     *)
(* together from starts and preemptions, is the sum over all ticks of the  *)
(* jobs that waited then.                                                  *)
Least(a, b) == IF a < b THEN a ELSE b
Policy == INSTANCE EdfPolicy WITH
    horizon <- max_Time,
    now     <- Least(current_Time, max_Time),
    jobs    <- {[pid |-> j.pid, age |-> j.age, deadline |-> j.deadline,
                 remaining |-> j.remaining_Time] : j \in Jobs},
    current <- IF current_Time = 0 \/ running.pid = 0 THEN [pid |-> 0, age |-> 0]
               ELSE [pid |-> running.pid, age |-> running.age],
    waiting <- waitedTicks,
    report  <- IF finished THEN waited ELSE 0
ImplementsPolicy == Policy!Spec
=============================================================================
