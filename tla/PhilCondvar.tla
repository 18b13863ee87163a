---------------------------- MODULE PhilCondvar ----------------------------
(***************************************************************************)
(* The dining philosophers of kern/sync/check_sync.c with the monitor.     *)
(***************************************************************************)
EXTENDS Monitor

CONSTANTS N,      \* number of philosophers
          TIMES   \* meals of each

ASSUME PhilAssumption == N \in Nat \ {0, 1} /\ TIMES \in Nat

ASSUME PhilsAreThreads == Thread = 0 .. N - 1 /\ Cond = 0 .. N - 1

Phil == 0 .. N - 1
LEFT(i) == (i + N - 1) % N
RIGHT(i) == (i + 1) % N

VARIABLES
    state_condvar,  \* THINKING, HUNGRY or EATING
    pc,             \* where the philosopher goes on when mpc is "in" or "out"
    iter            \* meals begun

vars == <<value, wait_queue, blocked, next_count, count, mpc, cv,
          state_condvar, pc, iter>>

Init ==
    /\ monitor_init
    /\ cv = [i \in Phil |-> i]
    /\ state_condvar = [i \in Phil |-> "THINKING"]
    /\ pc = [i \in Phil |-> "think"]
    /\ iter = [i \in Phil |-> 0]

Ready(i, label, where) == pc[i] = label /\ At(i, where)
PhilGoto(i, label) == pc' = [pc EXCEPT ![i] = label]

\* Mutant: only the left fork is looked at.
CanEatLeft(i, st) == st[i] = "HUNGRY" /\ st[LEFT(i)] # "EATING"

\* The condition of phi_test_condvar.
CanEat(i, st) ==
    st[i] = "HUNGRY" /\ st[LEFT(i)] # "EATING" /\ st[RIGHT(i)] # "EATING"

\* Mutant: the philosopher is signalled whatever the test says.
phi_test_signals(i, j, st) ==
    /\ state_condvar' = IF CanEat(j, st) THEN [st EXCEPT ![j] = "EATING"] ELSE st
    /\ cond_signal(i, j)

\* phi_test_condvar(j), called by i in a state st: mark j and signal it.
phi_test_condvar(i, j, st) ==
    IF CanEat(j, st)
    THEN /\ state_condvar' = [st EXCEPT ![j] = "EATING"]
         /\ cond_signal(i, j)
    ELSE /\ state_condvar' = st
         /\ UNCHANGED monvars

\* while(iter++<TIMES).
Wants(i) == iter[i] < TIMES

\* Thinking ends: phi_take_forks_condvar.
Take(i) ==
    /\ Ready(i, "think", "out") /\ Wants(i)
    /\ enter(i)
    /\ iter' = [iter EXCEPT ![i] = @ + 1]
    /\ PhilGoto(i, "hungry")
    /\ UNCHANGED state_condvar

Hungry(i) ==
    /\ Ready(i, "hungry", "in")
    /\ phi_test_condvar(i, i, [state_condvar EXCEPT ![i] = "HUNGRY"])
    /\ PhilGoto(i, "while")
    /\ UNCHANGED iter

\* while (state_condvar[i] != EATING) cond_wait(...), and the exit code.
While(i) ==
    /\ Ready(i, "while", "in")
    /\ IF state_condvar[i] # "EATING"
       THEN /\ cond_wait(i, i)
            /\ PhilGoto(i, "waited")
       ELSE /\ leave(i)
            /\ PhilGoto(i, "eat")
    /\ UNCHANGED <<state_condvar, iter>>

\* cond_wait has returned: the loop condition is looked at again.
Waited(i) ==
    /\ Ready(i, "waited", "in")
    /\ PhilGoto(i, "while")
    /\ UNCHANGED <<value, wait_queue, blocked, next_count, count, mpc, cv,
                   state_condvar, iter>>

\* Eating ends: phi_put_forks_condvar.
Put(i) ==
    /\ Ready(i, "eat", "out")
    /\ enter(i)
    /\ PhilGoto(i, "left")
    /\ UNCHANGED <<state_condvar, iter>>

TestLeft(i) ==
    /\ Ready(i, "left", "in")
    /\ phi_test_condvar(i, LEFT(i), [state_condvar EXCEPT ![i] = "THINKING"])
    /\ PhilGoto(i, "right")
    /\ UNCHANGED iter

\* Mutant: the left neighbour is tested again.
TestLeftAgain(i) ==
    /\ Ready(i, "right", "in")
    /\ phi_test_condvar(i, LEFT(i), state_condvar)
    /\ PhilGoto(i, "exit")
    /\ UNCHANGED iter

TestRight(i) ==
    /\ Ready(i, "right", "in")
    /\ phi_test_condvar(i, RIGHT(i), state_condvar)
    /\ PhilGoto(i, "exit")
    /\ UNCHANGED iter

Exit(i) ==
    /\ Ready(i, "exit", "in")
    /\ leave(i)
    /\ PhilGoto(i, "think")
    /\ UNCHANGED <<state_condvar, iter>>

InMonitorCode(i) == MonStep(i) /\ UNCHANGED <<state_condvar, pc, iter>>

Step(i) == \/ Take(i) \/ Hungry(i) \/ While(i) \/ Waited(i)
           \/ Put(i) \/ TestLeft(i) \/ TestRight(i) \/ Exit(i)
           \/ InMonitorCode(i)

Next == \E i \in Phil : Step(i)

\* Every philosopher goes on: its do_sleep ends and it gets the CPU.
Spec == Init /\ [][Next]_vars /\ \A i \in Phil : WF_vars(Step(i))

----------------------------------------------------------------------------
Quit(i) == pc[i] = "think" /\ mpc[i] = "out" /\ iter[i] = TIMES

(***************************************************************************)
(* A fork is never in two hands, and who eats has been marked.             *)
(***************************************************************************)
ForksExclusive ==
    \A i \in Phil :
        /\ state_condvar[i] = "EATING" => state_condvar[RIGHT(i)] # "EATING"
        /\ pc[i] = "eat" => state_condvar[i] = "EATING"

(***************************************************************************)
(* Hoare's rule: when cond_wait returns, what the signaller saw still      *)
(* holds, so the while around it never turns twice.                        *)
(***************************************************************************)
ConditionHoldsOnReturn ==
    \A i \in Phil : pc[i] = "waited" /\ At(i, "in") => state_condvar[i] = "EATING"

(***************************************************************************)
(* Every philosopher eats TIMES times and quits.                           *)
(***************************************************************************)
AllQuit == <>(\A i \in Phil : Quit(i))
=============================================================================
