------------------------------ MODULE EdfPolicy ------------------------------
(***************************************************************************)
(* Earliest deadline first as a policy on a set of jobs: at every tick the *)
(* finished job leaves, jobs that missed their deadline get another period,*)
(* every process whose period begins releases a job, and one job with the  *)
(* earliest deadline of all runs for a tick while the others wait.         *)
(***************************************************************************)
EXTENDS Integers, FiniteSets

VARIABLES
    process,        \* process[p]: its cpu time and its period
    horizon,        \* the time at which the simulation ends
    now,
    jobs,           \* the jobs that are not finished before now
    current,        \* the job that runs, named by pid and release time
    waiting,        \* the ticks jobs have waited until now, summed
    report          \* the waiting time reported at the end

policyVars == <<process, horizon, now, jobs, current, waiting, report>>

NoJob == [pid |-> 0, age |-> 0]
Name(j) == [pid |-> j.pid, age |-> j.age]

Release(p, t) == [pid |-> p, age |-> t, deadline |-> t + process[p].period,
                  remaining |-> process[p].cpu]
Released(t) == {Release(p, t) : p \in {q \in DOMAIN process : t % process[q].period = 0}}
Postponed(S) == {IF j.deadline = now
                 THEN [j EXCEPT !.deadline = now + process[j.pid].period] ELSE j : j \in S}
Ready == Postponed({j \in jobs : j.remaining > 0})
            \cup (IF now = 0 THEN {} ELSE Released(now))

Init == /\ now = 0
        /\ jobs = Released(0)
        /\ current = NoJob
        /\ waiting = 0
        /\ report = 0

Idle == /\ Ready = {}
        /\ jobs' = {}
        /\ current' = NoJob
        /\ UNCHANGED waiting

Run == \E j \in Ready :
          /\ \A k \in Ready : j.deadline <= k.deadline
          /\ jobs' = (Ready \ {j}) \cup {[j EXCEPT !.remaining = @ - 1]}
          /\ current' = Name(j)
          /\ waiting' = waiting + Cardinality(Ready) - 1

Tick == /\ now < horizon
        /\ Idle \/ Run
        /\ now' = now + 1
        /\ UNCHANGED <<process, horizon, report>>

End == /\ now = horizon
       /\ report' = waiting
       /\ UNCHANGED <<process, horizon, now, jobs, current, waiting>>

Spec == Init /\ [][Tick \/ End]_policyVars
=============================================================================
