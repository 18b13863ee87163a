------------------------------- MODULE SemOps -------------------------------
(***************************************************************************)
(* What a kernel semaphore (lab8 kern/sync/sem.c) is to the code that uses *)
(* it: a counter and a FIFO queue of threads.  up() with a waiter does not *)
(* touch the counter, it hands the permit to the first waiter.  Module     *)
(* Semaphore models sem.c and wait.c in full and is shown to behave so.    *)
(***************************************************************************)
EXTENDS Integers, Sequences

CONSTANTS Thread,  \* the threads that use semaphores
          Sem      \* the semaphores

VARIABLES value,       \* sem->value
          wait_queue,  \* sem->wait_queue, the sleeping threads in order
          blocked      \* the thread sleeps in down()

semvars == <<value, wait_queue, blocked>>

\* sem_init of every semaphore.
sem_init(val) ==
    /\ value = val
    /\ wait_queue = [s \in Sem |-> <<>>]
    /\ blocked = [t \in Thread |-> FALSE]

\* down: take a permit or queue up and sleep.
down(t, s) ==
    IF value[s] > 0
    THEN /\ value' = [value EXCEPT ![s] = @ - 1]
         /\ UNCHANGED <<wait_queue, blocked>>
    ELSE /\ wait_queue' = [wait_queue EXCEPT ![s] = Append(@, t)]
         /\ blocked' = [blocked EXCEPT ![t] = TRUE]
         /\ UNCHANGED value

\* up: wake the first waiter, or count the permit when nobody waits.
up(s) ==
    IF wait_queue[s] = <<>>
    THEN /\ value' = [value EXCEPT ![s] = @ + 1]
         /\ UNCHANGED <<wait_queue, blocked>>
    ELSE /\ wait_queue' = [wait_queue EXCEPT ![s] = Tail(@)]
         /\ blocked' = [blocked EXCEPT ![Head(wait_queue[s])] = FALSE]
         /\ UNCHANGED value
=============================================================================
