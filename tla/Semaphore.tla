----------------------------- MODULE Semaphore -----------------------------
(***************************************************************************)
(* kern/sync/sem.c over kern/sync/wait.c (lab8): __down queues a wait_t    *)
(* that lives in its own frame and sleeps uninterruptibly; __up unlinks    *)
(* the first wait_t and wakes its thread; do_kill tries to wake any thread *)
(* whose wait may be interrupted.  A step is a section with interrupts     *)
(* off; between two sections any other thread may run.                     *)
(***************************************************************************)
EXTENDS Integers, Sequences, FiniteSets

CONSTANTS Thread,   \* the threads
          Permits   \* the value given to sem_init

ASSUME SemAssumption == IsFiniteSet(Thread) /\ Permits \in Nat

VARIABLES
    value,         \* sem->value
    wait_queue,    \* sem->wait_queue: the threads of the linked wait_t
    state,         \* proc->state
    wait_state,    \* proc->wait_state
    wakeup_flags,  \* wait->wakeup_flags of the thread's wait_t
    killed,        \* PF_EXITING
    pc,            \* "out", "sleep" (in __down's schedule()) or "in"
    panic          \* an assertion of sem.c or wait.c has failed

vars == <<value, wait_queue, state, wait_state, wakeup_flags, killed, pc, panic>>

\* Mutant: a wait on a semaphore may be interrupted.
InterruptibleAll == {"WT_CHILD", "WT_TIMER", "WT_KBD", "WT_KSEM"}

\* proc.h: the wait states that do_kill may end.  WT_KSEM is not one.
Interruptible == {"WT_CHILD", "WT_TIMER", "WT_KBD"}

TypeOK ==
    /\ value \in Nat
    /\ wait_queue \in Seq(Thread)
    /\ state \in [Thread -> {"RUNNABLE", "SLEEPING"}]
    /\ wait_state \in [Thread -> {"0", "WT_KSEM"}]
    /\ wakeup_flags \in [Thread -> {"WT_INTERRUPTED", "WT_KSEM"}]
    /\ killed \in [Thread -> BOOLEAN]
    /\ pc \in [Thread -> {"out", "sleep", "in"}]
    /\ panic \in BOOLEAN

Init ==
    /\ value = Permits
    /\ wait_queue = <<>>
    /\ state = [t \in Thread |-> "RUNNABLE"]
    /\ wait_state = [t \in Thread |-> "0"]
    /\ wakeup_flags = [t \in Thread |-> "WT_INTERRUPTED"]
    /\ killed = [t \in Thread |-> FALSE]
    /\ pc = [t \in Thread |-> "out"]
    /\ panic = FALSE

Linked(t) == \E i \in 1 .. Len(wait_queue) : wait_queue[i] = t

\* wakeup_proc (the run queue is module Process's business).
wakeup_proc(t) ==
    /\ state' = [state EXCEPT ![t] = "RUNNABLE"]
    /\ wait_state' = [wait_state EXCEPT ![t] = "0"]

\* Mutant: the wait_t is linked at the head of the queue.
LinkFirst(t) == <<t>> \o wait_queue

\* wait_queue_add: list_add_before the head, that is, at the end.
LinkLast(t) == Append(wait_queue, t)

\* wait_current_set: wait_init, go to sleep, link the wait_t at the end.
wait_current_set(t, ws) ==
    /\ panic' = (panic \/ Linked(t))
    /\ wakeup_flags' = [wakeup_flags EXCEPT ![t] = "WT_INTERRUPTED"]
    /\ state' = [state EXCEPT ![t] = "SLEEPING"]
    /\ wait_state' = [wait_state EXCEPT ![t] = ws]
    /\ wait_queue' = LinkLast(t)

\* __down and try_down take a permit when there is one.
Available == value > 0

\* __down up to its schedule(), or all of it when a permit is free.
down(t) ==
    /\ pc[t] = "out"
    /\ IF Available
       THEN /\ value' = value - 1
            /\ pc' = [pc EXCEPT ![t] = "in"]
            /\ UNCHANGED <<wait_queue, state, wait_state, wakeup_flags, panic>>
       ELSE /\ wait_current_set(t, "WT_KSEM")
            /\ pc' = [pc EXCEPT ![t] = "sleep"]
            /\ UNCHANGED value
    /\ UNCHANGED killed

\* __down after schedule(): unlink the wait_t if it still is linked; down()
\* asserts that it was woken by up().
down_resume(t) ==
    /\ pc[t] = "sleep" /\ state[t] = "RUNNABLE"
    /\ wait_queue' = IF Linked(t) THEN SelectSeq(wait_queue, LAMBDA u : u # t)
                                  ELSE wait_queue
    /\ panic' = (panic \/ wakeup_flags[t] # "WT_KSEM")
    /\ pc' = [pc EXCEPT ![t] = "in"]
    /\ UNCHANGED <<value, state, wait_state, wakeup_flags, killed>>

try_down(t) ==
    /\ pc[t] = "out"
    /\ Available
    /\ value' = value - 1
    /\ pc' = [pc EXCEPT ![t] = "in"]
    /\ UNCHANGED <<wait_queue, state, wait_state, wakeup_flags, killed, panic>>

\* Mutant: the permit is counted even when it is handed to a waiter.
CountedAlways == value + 1

\* What __up does to the counter when a thread waits: nothing.
CountedOnHandOver == value

\* Mutant: the permit is counted and nobody is woken.
NobodyWaits == TRUE

\* wait_queue_first(...) == NULL.
wait_queue_empty == wait_queue = <<>>

\* __up: count the permit, or unlink the first wait_t and wake its thread.
up(t) ==
    /\ pc[t] = "in"
    /\ pc' = [pc EXCEPT ![t] = "out"]
    /\ IF wait_queue_empty
       THEN /\ value' = value + 1
            /\ UNCHANGED <<wait_queue, state, wait_state, wakeup_flags, panic>>
       ELSE LET w == Head(wait_queue)
            IN  /\ panic' = (panic \/ wait_state[w] # "WT_KSEM")
                /\ wait_queue' = Tail(wait_queue)
                /\ wakeup_flags' = [wakeup_flags EXCEPT ![w] = "WT_KSEM"]
                /\ wakeup_proc(w)
                /\ value' = CountedOnHandOver
    /\ UNCHANGED killed

\* do_kill of t, by anyone.
do_kill(t) ==
    /\ ~killed[t]
    /\ killed' = [killed EXCEPT ![t] = TRUE]
    /\ IF wait_state[t] \in Interruptible
       THEN wakeup_proc(t)
       ELSE UNCHANGED <<state, wait_state>>
    /\ UNCHANGED <<value, wait_queue, wakeup_flags, pc, panic>>

Next == \E t \in Thread :
           \/ down(t) \/ down_resume(t) \/ try_down(t) \/ up(t) \/ do_kill(t)

Spec == Init /\ [][Next]_vars

----------------------------------------------------------------------------
\* A thread that owns a permit: it is inside, or up() has given it one and
\* it has not run yet.
Owner(t) == pc[t] = "in" \/ (pc[t] = "sleep" /\ ~Linked(t))

(***************************************************************************)
(* No permit is lost or made: the free permits and the owners add up to    *)
(* the value of sem_init, so never more than Permits threads are inside.   *)
(* up() counts, or hands over, never both.                                 *)
(***************************************************************************)
PermitsConserved ==
    value + Cardinality({t \in Thread : Owner(t)}) = Permits

(***************************************************************************)
(* A permit is never free while a thread sleeps for one, and a thread that *)
(* sleeps is linked in the queue, so that an up() will find it.            *)
(***************************************************************************)
NoStrandedWaiter ==
    /\ wait_queue # <<>> => value = 0
    /\ \A t \in Thread : state[t] = "SLEEPING" <=> Linked(t)

(***************************************************************************)
(* The assertions hold: down() returns only because of up(), also for a    *)
(* thread that is killed while it sleeps; __up finds only sleepers on the  *)
(* semaphore; a wait_t is never linked twice.                              *)
(***************************************************************************)
AssertionsHold == ~panic

(***************************************************************************)
(* First come, first served: while threads wait, a newcomer is not let in  *)
(* and the queue loses nobody but its head.                                *)
(***************************************************************************)
NoOvertaking ==
    [][wait_queue # <<>> =>
          /\ \A t \in Thread : pc[t] = "out" => pc'[t] # "in"
          /\ \/ \E t \in Thread : wait_queue' = Append(wait_queue, t)
             \/ wait_queue' = Tail(wait_queue)
             \/ wait_queue' = wait_queue]_vars

\* The contract that the users of semaphores rely on.
Contract == INSTANCE SemClient WITH
    Sem <- {"s"}, S <- "s",
    value <- [s \in {"s"} |-> value],
    wait_queue <- [s \in {"s"} |-> wait_queue],
    blocked <- [t \in Thread |-> state[t] = "SLEEPING"],
    inside <- [t \in Thread |-> pc[t] # "out"]

(***************************************************************************)
(* sem.c implements the contract: kill, the wake-up flags and the late     *)
(* unlinking in __down are invisible to its users.                         *)
(***************************************************************************)
ImplementsContract == Contract!ClientSpec

\* The CPU goes on with a thread that is ready, and who is inside leaves.
Fairness == \A t \in Thread : WF_vars(down_resume(t)) /\ WF_vars(up(t))

FairSpec == Spec /\ Fairness

(***************************************************************************)
(* Every down() returns.                                                   *)
(***************************************************************************)
DownReturns == \A t \in Thread : pc[t] = "sleep" ~> pc[t] = "in"
=============================================================================
