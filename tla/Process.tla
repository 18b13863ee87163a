------------------------------ MODULE Process ------------------------------
(***************************************************************************)
(* The life of a process in the ucore kernel (lab8): fork, exit, wait,     *)
(* kill, sleep, yield, the timer interrupt and the core scheduler.         *)
(*   kern/process/proc.c   do_fork, do_exit, do_wait, do_kill, do_sleep,   *)
(*                         do_yield, init_main, cpu_idle, proc_init        *)
(*   kern/schedule/sched.c wakeup_proc, schedule, run_timer_list           *)
(*   kern/trap/trap.c      trap, the IRQ_S_TIMER case                      *)
(*   kern/fs/devs/dev_stdin.c  where a reader sleeps and what wakes it     *)
(*                                                                         *)
(* One CPU.  A trap clears sstatus.SIE and no handler sets it again, so a  *)
(* system call of a user process runs alone from its entry to the next     *)
(* schedule(); a kernel thread runs with interrupts on, and the timer      *)
(* interrupt may hit it between any two of its steps, but trap() switches  *)
(* away only from user mode.  A handler is therefore one step up to its    *)
(* call of schedule(), schedule() is one step, and pc says where a process *)
(* is in between.                                                          *)
(*                                                                         *)
(* Abstractions.  A pid is the process itself (pids are unique).  A timer  *)
(* is the number of ticks left.  The run pool is a bag with an arbitrary   *)
(* choice, so every sched_class is covered.  The children of a process are *)
(* the processes whose parent it is.  Memory is plentiful, except that     *)
(* alloc_proc may fail.  Whether a read of stdin finds enough keys is      *)
(* arbitrary here; the keys and their buffer are in Stdin.                 *)
(***************************************************************************)
EXTENDS Integers, FiniteSets

CONSTANTS
    Proc,            \* the proc_structs that can be allocated
    initproc,        \* the process that runs init_main
    idleproc,        \* the boot thread, never in the run queue
    MAX_PROCESS,     \* proc.h: bound of nr_process in do_fork
    MAX_TIME_SLICE,  \* sched.h: ticks a process may run
    MaxSleep         \* bound: the longest sleep a program asks for

ASSUME ProcAssumption ==
    /\ initproc \in Proc
    /\ idleproc \notin Proc
    /\ IsFiniteSet(Proc)
    /\ MAX_PROCESS \in Nat
    /\ MAX_TIME_SLICE \in Nat \ {0}
    /\ MaxSleep \in Nat

Thread == Proc \cup {idleproc}

VARIABLES
    current,       \* the thread on the CPU
    state,         \* proc->state, "FREE" when there is no such proc_struct
    wait_state,    \* proc->wait_state
    exiting,       \* proc->flags & PF_EXITING
    parent,        \* proc->parent
    mode,          \* "user" when a trap comes from user mode, else "kernel"
    pc,            \* where the thread is, see PC
    waitfor,       \* the pid do_wait is called with, idleproc for 0 (any child)
    rq,            \* how many times the process is in the run pool
    time_slice,    \* proc->time_slice
    need_resched,  \* proc->need_resched
    timer,         \* ticks left of the timer in do_sleep's frame, 0: none
    wakeup_flags,  \* of the wait_t in dev_stdin_read's frame, "none": none
    panic          \* "no", or why the kernel stopped

vars == <<current, state, wait_state, exiting, parent, mode, pc, waitfor,
          rq, time_slice, need_resched, timer, wakeup_flags, panic>>

(***************************************************************************)
(* run: in its own code (user code or the body of a kernel thread)         *)
(* tail: in trap() after trap_dispatch; wait: at do_wait's label repeat    *)
(* s_x: about to call schedule() in x; r_x: that call has to return        *)
(***************************************************************************)
PC == {"none", "run", "tail", "wait",
       "s_wait", "r_wait", "s_sleep", "r_sleep", "s_read", "r_read",
       "s_loop", "s_exit", "dead"}

\* proc.h: the wait states whose WT_INTERRUPTED bit is set.
WT_INTERRUPTED == {"WT_CHILD", "WT_TIMER", "WT_KBD"}

TypeOK ==
    /\ current \in Thread
    /\ state \in [Thread -> {"FREE", "SLEEPING", "RUNNABLE", "ZOMBIE"}]
    /\ wait_state \in [Thread -> {"0"} \cup WT_INTERRUPTED]
    /\ exiting \in [Thread -> BOOLEAN]
    /\ parent \in [Proc -> Thread]
    /\ mode \in [Thread -> {"user", "kernel"}]
    /\ pc \in [Thread -> PC]
    /\ waitfor \in [Thread -> Thread]
    /\ rq \in [Proc -> Nat]
    /\ time_slice \in [Thread -> 0 .. MAX_TIME_SLICE]
    /\ need_resched \in [Thread -> BOOLEAN]
    /\ timer \in [Proc -> 0 .. MaxSleep]
    /\ wakeup_flags \in [Proc -> {"none", "WT_INTERRUPTED", "WT_KBD"}]
    /\ panic \in {"no", "initproc_exit", "assert"}

\* The state proc_init leaves: idle on the CPU, init_main forked and ready.
Init ==
    /\ current = idleproc
    /\ state = [t \in Thread |->
                  IF t \in {idleproc, initproc} THEN "RUNNABLE" ELSE "FREE"]
    /\ wait_state = [t \in Thread |-> "0"]
    /\ exiting = [t \in Thread |-> FALSE]
    /\ parent = [p \in Proc |-> idleproc]
    /\ mode = [t \in Thread |-> "kernel"]
    /\ pc = [t \in Thread |->
                  IF t \in {idleproc, initproc} THEN "run" ELSE "none"]
    /\ waitfor = [t \in Thread |-> idleproc]
    /\ rq = [p \in Proc |-> IF p = initproc THEN 1 ELSE 0]
    /\ time_slice = [t \in Thread |->
                  IF t = initproc THEN MAX_TIME_SLICE ELSE 0]
    /\ need_resched = [t \in Thread |-> t = idleproc]
    /\ timer = [p \in Proc |-> 0]
    /\ wakeup_flags = [p \in Proc |-> "none"]
    /\ panic = "no"

----------------------------------------------------------------------------
(* The core scheduler.                                                     *)

\* stride_enqueue: a process enters the pool with a time slice.
Refreshed(n) == IF n = 0 \/ n > MAX_TIME_SLICE THEN MAX_TIME_SLICE ELSE n

\* Mutant: every woken process is enqueued.
EnqueuedCurrentToo(woken) == woken

\* wakeup_proc does not enqueue the thread on the CPU: schedule() will.
Enqueued(woken) == woken \ {current}

(***************************************************************************)
(* wakeup_proc on every process of W, in a handler that has made the       *)
(* states st and the time slices ts.  A runnable one is only warned about, *)
(* a zombie fails the assertion, and the one on the CPU is not enqueued.   *)
(***************************************************************************)
wakeup_procs(W, st, ts) ==
    LET woken == {q \in W : st[q] # "RUNNABLE"}
        added == Enqueued(woken)
    IN  /\ state' = [t \in Thread |-> IF t \in woken THEN "RUNNABLE" ELSE st[t]]
        /\ wait_state' = [t \in Thread |->
                             IF t \in woken THEN "0" ELSE wait_state[t]]
        /\ rq' = [p \in Proc |-> IF p \in added THEN rq[p] + 1 ELSE rq[p]]
        /\ time_slice' = [t \in Thread |->
                             IF t \in added THEN Refreshed(ts[t]) ELSE ts[t]]

\* The assertion at the head of wakeup_proc fails for some process of W.
WakesZombie(W, st) == \E q \in W : st[q] = "ZOMBIE"

\* Mutant: only a sleeping thread is left out of the pool.
GoesBackUnlessAsleep == state[current] # "SLEEPING" /\ current # idleproc

\* schedule() puts the current thread back if it is ready (idle never is in).
GoesBack == state[current] = "RUNNABLE" /\ current # idleproc

(***************************************************************************)
(* schedule() called by the current thread, which goes on at ret when it   *)
(* is chosen again.  A thread that may go on is put back into the pool     *)
(* (sched_class_enqueue skips idle); an empty pool means idle.             *)
(***************************************************************************)
schedule(ret) ==
    LET pool == [p \in Proc |-> IF GoesBack /\ p = current THEN rq[p] + 1
                                                            ELSE rq[p]]
    IN  /\ need_resched' = [need_resched EXCEPT ![current] = FALSE]
        /\ time_slice' = [time_slice EXCEPT ![current] =
                             IF GoesBack THEN Refreshed(@) ELSE @]
        /\ pc' = [pc EXCEPT ![current] = ret]
        /\ \/ \E next \in Proc :
                 /\ pool[next] > 0
                 /\ rq' = [pool EXCEPT ![next] = @ - 1]
                 /\ current' = next
           \/ /\ \A p \in Proc : pool[p] = 0
              /\ rq' = pool
              /\ current' = idleproc
        /\ UNCHANGED <<state, wait_state, exiting, parent, mode, waitfor,
                       timer, wakeup_flags, panic>>

----------------------------------------------------------------------------
(* System calls and kernel-thread steps of the current thread.             *)

Running(p) == panic = "no" /\ current = p /\ pc[p] = "run"

\* Where a handler returns to: user processes leave through trap()'s tail.
Return(p) == [pc EXCEPT ![p] = IF mode[p] = "user" THEN "tail" ELSE "run"]

nr_process == Cardinality({t \in Thread : state[t] # "FREE"})

\* Mutant: only exited children count.
CandidatesExited(p) == {q \in Proc : /\ state[q] = "ZOMBIE"
                                     /\ parent[q] = p
                                     /\ waitfor[p] \in {idleproc, q}}

\* Children as do_wait sees them: one pid, or all when the pid is 0.
Candidates(p) == {q \in Proc : /\ state[q] # "FREE"
                               /\ parent[q] = p
                               /\ waitfor[p] \in {idleproc, q}}

(***************************************************************************)
(* do_fork: the child is linked, made runnable and put into the run pool;  *)
(* next is where the caller goes on.                                       *)
(***************************************************************************)
do_fork(p, child, next) ==
    /\ nr_process < MAX_PROCESS
    /\ state[child] = "FREE"
    /\ wakeup_procs({child}, state, time_slice)
    /\ parent' = [parent EXCEPT ![child] = p]
    /\ mode' = [mode EXCEPT ![child] = mode[p]]
    /\ pc' = [next EXCEPT ![child] = "run"]
    /\ panic' = IF wait_state[p] # "0" THEN "assert" ELSE panic
    /\ UNCHANGED <<current, exiting, waitfor, need_resched, timer, wakeup_flags>>

sys_fork(p) ==
    /\ Running(p)
    /\ mode[p] = "user"
    /\ \E child \in Proc : do_fork(p, child, Return(p))

Children(p) == {q \in Proc : state[q] # "FREE" /\ parent[q] = p}

\* Mutant: init is woken for orphans, the parent is not.
ExitWakesInit(p) == {q \in {initproc} : /\ wait_state[q] = "WT_CHILD"
                                        /\ \E o \in Children(p) : state[o] = "ZOMBIE"}

\* The threads do_exit wakes: a parent in do_wait, and init in do_wait when
\* it is given a child that has exited.
ExitWakes(p) ==
    {q \in {parent[p]} : wait_state[q] = "WT_CHILD"} \cup
    {q \in {initproc} : /\ wait_state[q] = "WT_CHILD"
                        /\ \E o \in Children(p) : state[o] = "ZOMBIE"}

\* Mutant: the children keep their parent.
NotReparented(p) == parent

\* do_exit gives the children to init.
Reparented(p) == [q \in Proc |-> IF q \in Children(p) THEN initproc ELSE parent[q]]

(***************************************************************************)
(* do_exit up to its schedule(): become a zombie, wake a parent that waits *)
(* for children, give the children to init and wake init when one of them  *)
(* is a zombie it may be waiting for.                                      *)
(***************************************************************************)
do_exit(p) ==
    LET st == [state EXCEPT ![p] = "ZOMBIE"]
        W  == ExitWakes(p)
    IN  IF p = initproc
        THEN /\ panic' = "initproc_exit"
             /\ UNCHANGED <<current, state, wait_state, exiting, parent, mode,
                            pc, waitfor, rq, time_slice, need_resched,
                            timer, wakeup_flags>>
        ELSE /\ wakeup_procs(W, st, time_slice)
             /\ parent' = Reparented(p)
             /\ pc' = [pc EXCEPT ![p] = "s_exit"]
             /\ waitfor' = [waitfor EXCEPT ![p] = idleproc]
             /\ panic' = IF WakesZombie(W, st) THEN "assert" ELSE panic
             /\ UNCHANGED <<current, exiting, mode, need_resched,
                            timer, wakeup_flags>>

\* sys_exit, or the function of a kernel thread returns (kernel_thread_entry).
sys_exit(p) ==
    /\ Running(p)
    /\ p # initproc
    /\ do_exit(p)

\* sys_wait: enter do_wait with a pid, or with 0 for any child.
sys_wait(p) ==
    /\ Running(p)
    /\ mode[p] = "user"
    /\ \E t \in Thread : waitfor' = [waitfor EXCEPT ![p] = t]
    /\ pc' = [pc EXCEPT ![p] = "wait"]
    /\ UNCHANGED <<current, state, wait_state, exiting, parent, mode, rq,
                   time_slice, need_resched, timer, wakeup_flags, panic>>

\* Mutant: a child that sleeps is taken for one that has exited.
FoundNotRunnable(q) == state[q] # "RUNNABLE"

\* The test that ends do_wait's search.
Found(q) == state[q] = "ZOMBIE"

\* do_wait finds a zombie: unlink it, free its stack and its proc_struct (the
\* fields of a slot without a proc_struct keep the values of a new one).
do_wait_found(p) ==
    /\ panic = "no"
    /\ current = p /\ pc[p] = "wait"
    /\ \E q \in Candidates(p) :
          /\ Found(q)
          /\ state' = [state EXCEPT ![q] = "FREE"]
          /\ exiting' = [exiting EXCEPT ![q] = FALSE]
          /\ parent' = [parent EXCEPT ![q] = idleproc]
          /\ mode' = [mode EXCEPT ![q] = "kernel"]
          /\ time_slice' = [time_slice EXCEPT ![q] = 0]
          /\ need_resched' = [need_resched EXCEPT ![q] = FALSE]
          /\ pc' = [(IF p = initproc THEN [pc EXCEPT ![p] = "s_loop"]
                                     ELSE Return(p)) EXCEPT ![q] = "none"]
    /\ waitfor' = [waitfor EXCEPT ![p] = idleproc]
    /\ UNCHANGED <<current, wait_state, rq, timer, wakeup_flags, panic>>

\* do_wait has children to wait for but none has exited: sleep.
do_wait_sleep(p) ==
    /\ panic = "no"
    /\ current = p /\ pc[p] = "wait"
    /\ Candidates(p) # {}
    /\ \A q \in Candidates(p) : ~Found(q)
    /\ state' = [state EXCEPT ![p] = "SLEEPING"]
    /\ wait_state' = [wait_state EXCEPT ![p] = "WT_CHILD"]
    /\ pc' = [pc EXCEPT ![p] = "s_wait"]
    /\ UNCHANGED <<current, exiting, parent, mode, waitfor, rq, time_slice,
                   need_resched, timer, wakeup_flags, panic>>

(***************************************************************************)
(* do_wait has no child to wait for and returns -E_BAD_PROC.  That ends    *)
(* init_main: it checks that nobody is left, returns, and do_exit panics.  *)
(***************************************************************************)
do_wait_nokid(p) ==
    /\ panic = "no"
    /\ current = p /\ pc[p] = "wait"
    /\ Candidates(p) = {}
    /\ IF p = initproc
       THEN /\ panic' = IF nr_process = 2 THEN "initproc_exit" ELSE "assert"
            /\ UNCHANGED pc
       ELSE /\ pc' = Return(p)
            /\ UNCHANGED panic
    /\ waitfor' = [waitfor EXCEPT ![p] = idleproc]
    /\ UNCHANGED <<current, state, wait_state, exiting, parent, mode,
                   rq, time_slice, need_resched, timer, wakeup_flags>>

\* Mutant: PF_EXITING is not looked at.
do_wait_resume_deaf(p) ==
    /\ panic = "no"
    /\ current = p /\ pc[p] = "r_wait"
    /\ pc' = [pc EXCEPT ![p] = "wait"]
    /\ UNCHANGED <<current, state, wait_state, exiting, parent, mode,
                   waitfor, rq, time_slice, need_resched,
                   timer, wakeup_flags, panic>>

\* Back from schedule() in do_wait: give up when killed, else look again.
do_wait_resume(p) ==
    /\ panic = "no"
    /\ current = p /\ pc[p] = "r_wait"
    /\ \/ exiting[p] /\ do_exit(p)
       \/ /\ ~exiting[p]
          /\ pc' = [pc EXCEPT ![p] = "wait"]
          /\ UNCHANGED <<current, state, wait_state, exiting, parent, mode,
                         waitfor, rq, time_slice, need_resched,
                         timer, wakeup_flags, panic>>

\* do_kill: mark the process and wake it if its wait may be interrupted.
sys_kill(p) ==
    /\ Running(p)
    /\ mode[p] = "user"
    /\ \E q \in Proc :
          /\ state[q] # "FREE"
          /\ LET W == {t \in {q} : ~exiting[t] /\ wait_state[t] \in WT_INTERRUPTED}
             IN  /\ wakeup_procs(W, state, time_slice)
                 /\ panic' = IF WakesZombie(W, state) THEN "assert" ELSE panic
          /\ exiting' = [exiting EXCEPT ![q] = TRUE]
    /\ pc' = Return(p)
    /\ UNCHANGED <<current, parent, mode, waitfor, need_resched,
                   timer, wakeup_flags>>

\* do_sleep up to its schedule(): arm a timer and sleep on it.
do_sleep(p) ==
    /\ Running(p)
    /\ p # initproc
    /\ \E time \in 1 .. MaxSleep : timer' = [timer EXCEPT ![p] = time]
    /\ state' = [state EXCEPT ![p] = "SLEEPING"]
    /\ wait_state' = [wait_state EXCEPT ![p] = "WT_TIMER"]
    /\ pc' = [pc EXCEPT ![p] = "s_sleep"]
    /\ UNCHANGED <<current, exiting, parent, mode, waitfor, rq, time_slice,
                   need_resched, wakeup_flags, panic>>

\* Mutant: the timer stays in the list.
TimerKept(p) == timer

\* del_timer.
TimerDeleted(p) == [timer EXCEPT ![p] = 0]

\* Back from schedule() in do_sleep: del_timer, whoever woke the process.
do_sleep_resume(p) ==
    /\ panic = "no"
    /\ current = p /\ pc[p] = "r_sleep"
    /\ timer' = TimerDeleted(p)
    /\ pc' = Return(p)
    /\ UNCHANGED <<current, state, wait_state, exiting, parent, mode, waitfor,
                   rq, time_slice, need_resched, wakeup_flags, panic>>

\* wait_current_set in dev_stdin_read: sleep on the queue of stdin.
sleep_for_key(p) ==
    /\ state' = [state EXCEPT ![p] = "SLEEPING"]
    /\ wait_state' = [wait_state EXCEPT ![p] = "WT_KBD"]
    /\ wakeup_flags' = [wakeup_flags EXCEPT ![p] = "WT_INTERRUPTED"]
    /\ pc' = [pc EXCEPT ![p] = "s_read"]

\* sys_read of stdin that finds too few keys (sys_other is one that does not).
sys_read(p) ==
    /\ Running(p)
    /\ mode[p] = "user"
    /\ sleep_for_key(p)
    /\ UNCHANGED <<current, exiting, parent, mode, waitfor, rq, time_slice,
                   need_resched, timer, panic>>

(***************************************************************************)
(* Back from schedule() in dev_stdin_read: wait_current_del.  A reader     *)
(* that a key has woken tries again and may find too few keys again,       *)
(* killed or not; another one returns.                                     *)
(***************************************************************************)
sys_read_resume(p) ==
    /\ panic = "no"
    /\ current = p /\ pc[p] = "r_read"
    /\ \/ /\ wakeup_flags[p] = "WT_KBD"
          /\ sleep_for_key(p)
       \/ /\ wakeup_flags' = [wakeup_flags EXCEPT ![p] = "none"]
          /\ pc' = Return(p)
          /\ UNCHANGED <<state, wait_state>>
    /\ UNCHANGED <<current, exiting, parent, mode, waitfor, rq, time_slice,
                   need_resched, timer, panic>>

\* sys_yield.
do_yield(p) ==
    /\ Running(p)
    /\ mode[p] = "user"
    /\ need_resched' = [need_resched EXCEPT ![p] = TRUE]
    /\ pc' = Return(p)
    /\ UNCHANGED <<current, state, wait_state, exiting, parent, mode, waitfor,
                   rq, time_slice, timer, wakeup_flags, panic>>

\* A call that leaves this state alone: getpid, sleep(0), kill of a pid that
\* does not exist, a fork that finds no memory or no free process, a read that
\* finds its keys, the other file calls (the disk is memory), ...
sys_other(p) ==
    /\ Running(p)
    /\ mode[p] = "user"
    /\ pc' = Return(p)
    /\ UNCHANGED <<current, state, wait_state, exiting, parent, mode, waitfor,
                   rq, time_slice, need_resched, timer, wakeup_flags, panic>>

\* user_main: kernel_execve turns the kernel thread into a user process.
kernel_execve(p) ==
    /\ Running(p)
    /\ p # initproc /\ mode[p] = "kernel"
    /\ mode' = [mode EXCEPT ![p] = "user"]
    /\ UNCHANGED <<current, state, wait_state, exiting, parent, pc, waitfor,
                   rq, time_slice, need_resched, timer, wakeup_flags, panic>>

\* init_main: create user_main, then wait for any child until there is none.
init_main(p) ==
    /\ Running(p)
    /\ p = initproc
    /\ \E child \in Proc : do_fork(p, child, [pc EXCEPT ![p] = "wait"])

----------------------------------------------------------------------------
(* Switches, the end of a trap, and the timer interrupt.                   *)

\* The places that call schedule() and the points they go on at.
Resume == [s_wait |-> "r_wait", s_sleep |-> "r_sleep", s_read |-> "r_read",
           s_loop |-> "wait", s_exit |-> "dead"]

call_schedule(p) ==
    /\ panic = "no"
    /\ current = p /\ pc[p] \in DOMAIN Resume
    /\ schedule(Resume[pc[p]])

\* cpu_idle.
cpu_idle ==
    /\ panic = "no"
    /\ current = idleproc /\ need_resched[idleproc]
    /\ schedule("run")

\* Mutant: PF_EXITING is not looked at.
trap_return_deaf(p) ==
    /\ panic = "no"
    /\ current = p /\ pc[p] = "tail"
    /\ \/ need_resched[p] /\ schedule("run")
       \/ /\ ~need_resched[p]
          /\ pc' = [pc EXCEPT ![p] = "run"]
          /\ UNCHANGED <<current, state, wait_state, exiting, parent, mode,
                         waitfor, rq, time_slice, need_resched,
                         timer, wakeup_flags, panic>>

(***************************************************************************)
(* The end of trap() for a trap from user mode: exit when killed, else     *)
(* reschedule when asked to.  PF_EXITING is not looked at again after      *)
(* schedule().                                                             *)
(***************************************************************************)
trap_return(p) ==
    /\ panic = "no"
    /\ current = p /\ pc[p] = "tail"
    /\ \/ exiting[p] /\ do_exit(p)
       \/ ~exiting[p] /\ need_resched[p] /\ schedule("run")
       \/ /\ ~exiting[p] /\ ~need_resched[p]
          /\ pc' = [pc EXCEPT ![p] = "run"]
          /\ UNCHANGED <<current, state, wait_state, exiting, parent, mode,
                         waitfor, rq, time_slice, need_resched,
                         timer, wakeup_flags, panic>>

IntrEnabled == mode[current] = "kernel" \/ pc[current] = "run"

\* Mutant: a timer of the thread on the CPU wakes nobody.
ExpiredOfOthers == {q \in Proc : timer[q] = 1 /\ q # current}

\* The processes whose timers run_timer_list takes to 0.
Expired == {q \in Proc : timer[q] = 1}

\* The readers in the queue of stdin.  wakeup_queue, at the next key, takes all
\* of them out; one that was killed stays in until it runs.
wait_queue == {q \in Proc : wakeup_flags[q] = "WT_INTERRUPTED"}

\* stride_proc_tick takes a tick off the time slice.
Charged(n) == IF n > 0 THEN n - 1 ELSE n

(***************************************************************************)
(* IRQ_S_TIMER: run_timer_list takes a tick off every timer, wakes the     *)
(* owners of those that expire and charges the tick to the current thread; *)
(* dev_stdin_write wakes the readers if a key was typed.  From user mode   *)
(* the end of trap() follows.                                              *)
(***************************************************************************)
tick(typed) ==
    LET fired == Expired
        woken == fired \cup (IF typed THEN wait_queue ELSE {})
        slice == IF current = idleproc THEN 0 ELSE Charged(time_slice[current])
    IN  /\ panic = "no"
        /\ IntrEnabled
        /\ timer' = [q \in Proc |-> IF timer[q] > 0 THEN timer[q] - 1 ELSE 0]
        /\ wakeup_flags' = [q \in Proc |-> IF typed /\ q \in wait_queue THEN "WT_KBD"
                                           ELSE wakeup_flags[q]]
        /\ wakeup_procs(woken, state, [time_slice EXCEPT ![current] = slice])
        /\ need_resched' = [need_resched EXCEPT ![current] = @ \/ slice = 0]
        /\ panic' = IF \/ WakesZombie(woken, state)
                       \/ \E q \in fired : wait_state[q] \notin {"0"} \cup WT_INTERRUPTED
                    THEN "assert" ELSE panic
        /\ pc' = IF mode[current] = "user" THEN [pc EXCEPT ![current] = "tail"]
                                           ELSE pc
        /\ UNCHANGED <<current, exiting, parent, mode, waitfor>>

timer_interrupt == \E typed \in BOOLEAN : tick(typed)

Step(p) == \/ sys_fork(p) \/ sys_exit(p) \/ sys_wait(p) \/ sys_kill(p)
           \/ do_wait_found(p) \/ do_wait_sleep(p) \/ do_wait_nokid(p)
           \/ do_wait_resume(p) \/ do_sleep(p) \/ do_sleep_resume(p)
           \/ sys_read(p) \/ sys_read_resume(p)
           \/ do_yield(p) \/ sys_other(p) \/ kernel_execve(p) \/ init_main(p)
           \/ call_schedule(p) \/ trap_return(p)

Next == (\E p \in Proc : Step(p)) \/ cpu_idle \/ timer_interrupt

Spec == Init /\ [][Next]_vars
----------------------------------------------------------------------------
(* Safety.                                                                 *)

(***************************************************************************)
(* The run pool holds each process that is ready and not on the CPU, once, *)
(* and nothing else.  A second insertion of a proc_struct ties a knot into *)
(* the skew heap, a missing one is a process that never runs again; the    *)
(* test proc != current in wakeup_proc and the re-insertion in schedule()  *)
(* have to balance, also when the timer fires between do_sleep's           *)
(* local_intr_restore and its schedule().                                  *)
(***************************************************************************)
RunPoolExact ==
    \A p \in Proc :
        rq[p] = IF state[p] = "RUNNABLE" /\ p # current THEN 1 ELSE 0

(***************************************************************************)
(* Whoever sleeps has somebody to wake it: a running timer; in do_wait, a  *)
(* child that it waits for and that has not exited yet (an exit before the *)
(* parent slept would be a lost wake-up); or the keyboard, in whose queue  *)
(* it is.                                                                  *)
(***************************************************************************)
SleeperHasWaker ==
    \A p \in Proc :
        state[p] = "SLEEPING" =>
            \/ wait_state[p] = "WT_TIMER" /\ timer[p] > 0
            \/ wait_state[p] = "WT_KBD" /\ p \in wait_queue
            \/ /\ wait_state[p] = "WT_CHILD"
               /\ Candidates(p) # {}
               /\ \A q \in Candidates(p) : state[q] # "ZOMBIE"

(***************************************************************************)
(* Nothing refers to a proc_struct that do_wait has freed: it is not on    *)
(* the CPU, not in the run pool, nobody's parent, and the timer and the    *)
(* wait_t in frames on the kernel stack freed with it are gone.            *)
(***************************************************************************)
NoUseAfterFree ==
    \A p \in Proc :
        state[p] = "FREE" =>
            /\ current # p
            /\ rq[p] = 0
            /\ timer[p] = 0 /\ p \notin wait_queue
            /\ \A q \in Proc : state[q] # "FREE" => parent[q] # p

(***************************************************************************)
(* A timer in the timer list lies in the frame of a do_sleep that has not  *)
(* returned, on a stack that still exists, and a process that has exited   *)
(* owns none.                                                              *)
(***************************************************************************)
TimerInFrame ==
    \A p \in Proc : timer[p] > 0 => /\ pc[p] \in {"s_sleep", "r_sleep"}
                                    /\ state[p] \in {"SLEEPING", "RUNNABLE"}

(***************************************************************************)
(* No assertion of wakeup_proc, run_timer_list, do_fork and init_main      *)
(* fails, and the kernel stops with "initproc exit" only when init was     *)
(* killed or no process but idle and init is left.                         *)
(***************************************************************************)
StopsCleanly ==
    /\ panic # "assert"
    /\ panic = "initproc_exit" =>
          exiting[initproc] \/ \A p \in Proc \ {initproc} : state[p] = "FREE"

(***************************************************************************)
(* Every process has a parent that can still wait for it: the parent of a  *)
(* process other than init exists and has not exited.                      *)
(***************************************************************************)
ParentAlive ==
    \A p \in Proc \ {initproc} :
        state[p] # "FREE" => parent[p] \in Proc /\ state[parent[p]] \in {"SLEEPING", "RUNNABLE"}

(***************************************************************************)
(* A process that has exited never comes back: it stays a zombie until its *)
(* parent, in do_wait, frees it, and once schedule() has left it, it is    *)
(* not on the CPU again (the panic at the end of do_exit is not reached).  *)
(***************************************************************************)
ZombieOnlyReaped ==
    [][\A p \in Proc :
          state[p] = "ZOMBIE" =>
             /\ \/ state'[p] = "ZOMBIE"
                \/ /\ state'[p] = "FREE"
                   /\ current = parent[p] /\ pc[current] = "wait"
             /\ current # p => current' # p]_vars

----------------------------------------------------------------------------
(* Liveness.                                                               *)

(***************************************************************************)
(* What the machine and the kernel give: a pending timer interrupt is      *)
(* taken when interrupts are on again and again; the CPU goes on with      *)
(* kernel code, the code of kernel threads included; the scheduler chooses *)
(* a process that is in the pool again and again.  A user program may do   *)
(* what it likes, or nothing, forever.                                     *)
(***************************************************************************)
KernelStep(p) == /\ mode[p] = "kernel" \/ pc[p] # "run"
                 /\ Step(p)

ChosenNext(p) == /\ cpu_idle \/ \E q \in Proc : call_schedule(q) \/ trap_return(q)
                 /\ current # p
                 /\ current' = p

Fairness ==
    /\ SF_vars(timer_interrupt)
    /\ WF_vars(cpu_idle)
    /\ \A p \in Proc : WF_vars(KernelStep(p)) /\ SF_vars(ChosenNext(p))

FairSpec == Spec /\ Fairness

Stopped == panic # "no"

(***************************************************************************)
(* Every do_sleep returns, in user processes and in kernel threads.        *)
(***************************************************************************)
SleepReturns ==
    \A p \in Proc :
        pc[p] \in {"s_sleep", "r_sleep"} ~>
            pc[p] \notin {"s_sleep", "r_sleep"} \/ Stopped

(***************************************************************************)
(* A user process that is killed while it sleeps in do_sleep, do_wait or   *)
(* dev_stdin_read exits: the wake-up of do_kill is not lost and each way   *)
(* back to user mode looks at PF_EXITING.  The exception is a reader for   *)
(* which a key is typed before it runs: it takes the kill for a key.       *)
(***************************************************************************)
KilledSleeperExits ==
    \A p \in Proc :
        (exiting[p] /\ pc[p] \in {"r_wait", "r_sleep", "r_read"} /\ mode[p] = "user"
           /\ state[p] = "RUNNABLE")
        ~> \/ state[p] \in {"ZOMBIE", "FREE"}
           \/ pc[p] = "r_read" /\ wakeup_flags[p] = "WT_KBD"
           \/ Stopped

(***************************************************************************)
(* A user process that is killed while it runs or is ready dies at its     *)
(* next trap, unless that trap is a system call that sleeps, for a child,  *)
(* a timer or a key: then it sleeps on, because do_kill has already looked *)
(* (see the README).                                                       *)
(***************************************************************************)
KilledRunnerNoticed ==
    \A p \in Proc :
        (exiting[p] /\ pc[p] \in {"run", "tail"} /\ mode[p] = "user")
        ~> \/ state[p] \in {"ZOMBIE", "FREE"}
           \/ pc[p] \in {"s_wait", "s_sleep", "s_read"}
           \/ Stopped

(***************************************************************************)
(* A wait for a child that has exited returns, whatever other children do. *)
(***************************************************************************)
WaitReturns ==
    \A p \in Proc :
        (/\ pc[p] \in {"wait", "s_wait", "r_wait"}
         /\ \E q \in Candidates(p) : state[q] = "ZOMBIE")
        ~> pc[p] \notin {"wait", "s_wait", "r_wait"} \/ Stopped
=============================================================================
