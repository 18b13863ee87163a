------------------------------ MODULE Monitor ------------------------------
(***************************************************************************)
(* kern/sync/monitor.c (lab8): a Hoare monitor made of semaphores.  The    *)
(* signaller gives the monitor to the thread it wakes and sleeps on next   *)
(* until that thread waits again or leaves.  A step ends at each semaphore *)
(* call; mpc is where a thread is in cond_signal, cond_wait or in the      *)
(* entry and exit code that check_sync.c puts around a monitor procedure.  *)
(***************************************************************************)
EXTENDS Integers, Sequences, FiniteSets

CONSTANTS Thread, Cond    \* the threads and the condition variables

VARIABLES
    value, wait_queue, blocked,  \* the semaphores mutex, next, cv[c].sem
    next_count,                  \* signallers that sleep on next
    count,                       \* cv[c].count
    mpc,                         \* where the thread is in the monitor code
    cv                           \* the condition variable it is busy with

\* The semaphores of the monitor_t.
mutex == <<"mutex">>
next  == <<"next">>
cvsem(c) == <<"cv", c>>
Sem == {mutex, next} \cup {cvsem(c) : c \in Cond}

S == INSTANCE SemOps

monvars == <<value, wait_queue, blocked, next_count, count, mpc, cv>>

monitor_init ==
    /\ S!sem_init([s \in Sem |-> IF s = mutex THEN 1 ELSE 0])
    /\ next_count = 0
    /\ count = [c \in Cond |-> 0]
    /\ mpc = [t \in Thread |-> "out"]
    /\ cv \in [Thread -> Cond]

At(t, label) == mpc[t] = label /\ ~blocked[t]
Goto(t, label) == mpc' = [mpc EXCEPT ![t] = label]

\* down(&(mtp->mutex)) at the head of a monitor procedure.
enter(t) ==
    /\ At(t, "out")
    /\ S!down(t, mutex)
    /\ Goto(t, "in")
    /\ UNCHANGED <<next_count, count, cv>>

\* up(next) for a signaller that waits, else up(mutex).
HandOver == IF next_count > 0 THEN S!up(next) ELSE S!up(mutex)

\* The end of a monitor procedure.
leave(t) ==
    /\ At(t, "in")
    /\ HandOver
    /\ Goto(t, "out")
    /\ UNCHANGED <<next_count, count, cv>>

\* cond_signal(c): nothing without a waiter, else up(cv.sem) ...
cond_signal(t, c) ==
    /\ At(t, "in")
    /\ IF count[c] > 0
       THEN /\ next_count' = next_count + 1
            /\ S!up(cvsem(c))
            /\ Goto(t, "sig_down")
       ELSE UNCHANGED <<next_count, value, wait_queue, blocked, mpc>>
    /\ UNCHANGED <<count, cv>>

\* Mutant: the signaller goes on without waiting.
signal_goes_on(t) ==
    /\ At(t, "sig_down")
    /\ Goto(t, "sig_back")
    /\ UNCHANGED <<value, wait_queue, blocked, next_count, count, cv>>

\* ... then down(next) ...
signal_down(t) ==
    /\ At(t, "sig_down")
    /\ S!down(t, next)
    /\ Goto(t, "sig_back")
    /\ UNCHANGED <<next_count, count, cv>>

\* ... and, back in the monitor, next_count--.
signal_back(t) ==
    /\ At(t, "sig_back")
    /\ next_count' = next_count - 1
    /\ Goto(t, "in")
    /\ UNCHANGED <<value, wait_queue, blocked, count, cv>>

\* cond_wait(c): give the monitor away ...
cond_wait(t, c) ==
    /\ At(t, "in")
    /\ count' = [count EXCEPT ![c] = @ + 1]
    /\ HandOver
    /\ cv' = [cv EXCEPT ![t] = c]
    /\ Goto(t, "wait_down")
    /\ UNCHANGED next_count

\* ... then down(cv.sem) ...
wait_down(t) ==
    /\ At(t, "wait_down")
    /\ S!down(t, cvsem(cv[t]))
    /\ Goto(t, "wait_back")
    /\ UNCHANGED <<next_count, count, cv>>

\* Mutant: cv.count is not taken back.
wait_back_counted(t) ==
    /\ At(t, "wait_back")
    /\ Goto(t, "in")
    /\ UNCHANGED <<value, wait_queue, blocked, next_count, count, cv>>

\* ... and, back in the monitor, cv.count--.
wait_back(t) ==
    /\ At(t, "wait_back")
    /\ count' = [count EXCEPT ![cv[t]] = @ - 1]
    /\ Goto(t, "in")
    /\ UNCHANGED <<value, wait_queue, blocked, next_count, cv>>

\* The steps a thread has no choice about.
MonStep(t) == signal_down(t) \/ signal_back(t) \/ wait_down(t) \/ wait_back(t)

----------------------------------------------------------------------------
(***************************************************************************)
(* A thread that runs monitor code, outside the windows in which it has    *)
(* given the monitor away (after cond_wait's up, after cond_signal's up).  *)
(***************************************************************************)
Active(t) == mpc[t] \in {"in", "sig_back", "wait_back"} /\ ~blocked[t]

\* A permit on its way to a thread that has not yet called down for it.
InTransit(s) == value[s] > 0

(***************************************************************************)
(* The monitor is in one pair of hands: exactly one of these holds: mutex  *)
(* is free, one thread is active, or a permit waits for the thread that    *)
(* was signalled or that signalled.                                        *)
(***************************************************************************)
OneInMonitor ==
    /\ Cardinality({t \in Thread : Active(t)}) +
       Cardinality({s \in Sem : InTransit(s)}) = 1
    /\ \A s \in Sem : value[s] \in {0, 1}

(***************************************************************************)
(* The counters that cond_signal, cond_wait and the exit code branch on    *)
(* are right when they are read, that is when a thread is active in the    *)
(* monitor: next_count is the number of signallers that sleep, cv[c].count *)
(* the number of threads in cond_wait(c).                                  *)
(***************************************************************************)
CountersExact ==
    /\ next_count = Cardinality({t \in Thread : mpc[t] \in {"sig_down", "sig_back"}})
    /\ \A c \in Cond : count[c] =
          Cardinality({t \in Thread : mpc[t] \in {"wait_down", "wait_back"} /\ cv[t] = c})
=============================================================================
