--------------------------- MODULE ProcessProofs ---------------------------
(***************************************************************************)
(* Proofs about module Process: its safety properties hold for every       *)
(* finite set of process slots, every MAX_PROCESS, every time slice and    *)
(* every length of sleep, and for every scheduling class.                  *)
(***************************************************************************)
EXTENDS Process, FiniteSetTheorems, TLAPS

\* idle and init never end; init is a kernel thread that waits for any child.
Immortals ==
    /\ state[idleproc] = "RUNNABLE" /\ wait_state[idleproc] = "0"
    /\ pc[idleproc] = "run" /\ mode[idleproc] = "kernel"
    /\ state[initproc] \in {"SLEEPING", "RUNNABLE"}
    /\ mode[initproc] = "kernel"
    /\ waitfor[initproc] = idleproc
    /\ parent[initproc] = idleproc

\* What the place of a process in the code says about its other fields.
Shape ==
    \A p \in Proc :
        /\ pc[p] = "none" <=> state[p] = "FREE"
        /\ pc[p] \in {"s_exit", "dead"} <=> state[p] = "ZOMBIE"
        /\ state[p] = "SLEEPING" =>
              \/ pc[p] \in {"s_wait", "r_wait"} /\ wait_state[p] = "WT_CHILD"
              \/ /\ pc[p] \in {"s_sleep", "r_sleep"} /\ wait_state[p] = "WT_TIMER"
                 /\ timer[p] > 0
              \/ /\ pc[p] \in {"s_read", "r_read"} /\ wait_state[p] = "WT_KBD"
                 /\ wakeup_flags[p] = "WT_INTERRUPTED"
        /\ state[p] # "SLEEPING" => wait_state[p] = "0"
        /\ timer[p] > 0 => pc[p] \in {"s_sleep", "r_sleep"}
        /\ wakeup_flags[p] # "none" => pc[p] \in {"s_read", "r_read"}

\* A process on the CPU has not been left for good, and sleeps only where it
\* is about to call schedule().
OnCpu ==
    \A p \in Proc : current = p =>
        /\ pc[p] \notin {"none", "dead"}
        /\ state[p] = "SLEEPING" => pc[p] \in {"s_wait", "s_sleep", "s_read"}

\* There is no cycle of parents: each set of processes without init has a
\* member whose parent is outside.
Rooted ==
    \A S \in SUBSET (Proc \ {initproc}) :
        S # {} /\ (\A p \in S : state[p] # "FREE") => \E p \in S : parent[p] \notin S

\* The part of SleeperHasWaker that is about do_wait.
WaiterHasChild ==
    \A p \in Proc :
        wait_state[p] = "WT_CHILD" =>
            /\ Candidates(p) # {}
            /\ \A q \in Candidates(p) : state[q] # "ZOMBIE"

\* The inductive invariant.
ProcInv ==
    /\ TypeOK /\ Immortals /\ Shape /\ OnCpu
    /\ RunPoolExact /\ ParentAlive /\ Rooted
    /\ WaiterHasChild /\ StopsCleanly

----------------------------------------------------------------------------
(* Types.                                                                  *)

States == {"FREE", "SLEEPING", "RUNNABLE", "ZOMBIE"}

(***************************************************************************)
(* wakeup_proc keeps the types of what it changes.                         *)
(***************************************************************************)
LEMMA WakeupType ==
  ASSUME TypeOK, NEW W \in SUBSET Thread,
         NEW st \in [Thread -> States],
         NEW ts \in [Thread -> 0 .. MAX_TIME_SLICE],
         wakeup_procs(W, st, ts)
  PROVE  /\ state' \in [Thread -> States]
         /\ wait_state' \in [Thread -> {"0"} \cup WT_INTERRUPTED]
         /\ rq' \in [Proc -> Nat]
         /\ time_slice' \in [Thread -> 0 .. MAX_TIME_SLICE]
<1>1. \A n \in 0 .. MAX_TIME_SLICE : Refreshed(n) \in 0 .. MAX_TIME_SLICE
  BY ProcAssumption DEF Refreshed
<1> QED BY <1>1 DEF wakeup_procs, Enqueued, TypeOK, States

(***************************************************************************)
(* schedule() keeps all types.                                             *)
(***************************************************************************)
LEMMA ScheduleType ==
  ASSUME TypeOK, NEW ret \in PC, schedule(ret)
  PROVE  TypeOK'
<1> DEFINE pool == [p \in Proc |-> IF GoesBack /\ p = current THEN rq[p] + 1 ELSE rq[p]]
<1>1. \A n \in 0 .. MAX_TIME_SLICE : Refreshed(n) \in 0 .. MAX_TIME_SLICE
  BY ProcAssumption DEF Refreshed
<1>2. pool \in [Proc -> Nat]
  BY DEF TypeOK
<1>3. rq' \in [Proc -> Nat] /\ current' \in Thread
  <2>1. CASE \E next \in Proc : /\ pool[next] > 0
                               /\ rq' = [pool EXCEPT ![next] = @ - 1]
                               /\ current' = next
    BY <1>2, <2>1 DEF Thread
  <2>2. CASE rq' = pool /\ current' = idleproc
    BY <1>2, <2>2 DEF Thread
  <2> QED BY <2>1, <2>2 DEF schedule
<1>4. time_slice' \in [Thread -> 0 .. MAX_TIME_SLICE]
  BY <1>1 DEF schedule, TypeOK
<1>5. need_resched' \in [Thread -> BOOLEAN]
  BY DEF schedule, TypeOK
<1>6. pc' \in [Thread -> PC]
  BY DEF schedule, TypeOK
<1> QED BY <1>3, <1>4, <1>5, <1>6 DEF schedule, TypeOK

(***************************************************************************)
(* do_fork keeps all types.                                                *)
(***************************************************************************)
LEMMA ForkType ==
  ASSUME TypeOK, NEW p \in Proc, NEW child \in Proc, NEW next \in [Thread -> PC],
         do_fork(p, child, next)
  PROVE  TypeOK'
<1>1. /\ state' \in [Thread -> States]
      /\ wait_state' \in [Thread -> {"0"} \cup WT_INTERRUPTED]
      /\ rq' \in [Proc -> Nat]
      /\ time_slice' \in [Thread -> 0 .. MAX_TIME_SLICE]
  BY WakeupType DEF do_fork, TypeOK, States, Thread
<1>2. parent' \in [Proc -> Thread] /\ mode' \in [Thread -> {"user", "kernel"}]
  BY DEF do_fork, TypeOK, Thread
<1>3. pc' \in [Thread -> PC]
  BY DEF do_fork, PC
<1>4. panic' \in {"no", "initproc_exit", "assert"}
  BY DEF do_fork, TypeOK
<1> QED BY <1>1, <1>2, <1>3, <1>4 DEF do_fork, TypeOK, States

(***************************************************************************)
(* do_exit keeps all types.                                                *)
(***************************************************************************)
LEMMA ExitType ==
  ASSUME TypeOK, NEW p \in Proc, do_exit(p)
  PROVE  TypeOK'
<1> DEFINE st == [state EXCEPT ![p] = "ZOMBIE"]
<1>1. CASE p = initproc
  BY <1>1 DEF do_exit, TypeOK
<1>2. CASE p # initproc
  <2>1. ExitWakes(p) \in SUBSET Thread /\ st \in [Thread -> States]
    BY ProcAssumption DEF ExitWakes, TypeOK, Thread, States
  <2>2. wakeup_procs(ExitWakes(p), st, time_slice)
    BY <1>2 DEF do_exit
  <2>3. /\ state' \in [Thread -> States]
        /\ wait_state' \in [Thread -> {"0"} \cup WT_INTERRUPTED]
        /\ rq' \in [Proc -> Nat]
        /\ time_slice' \in [Thread -> 0 .. MAX_TIME_SLICE]
    <3> HIDE DEF st
    <3> QED BY <2>1, <2>2, WakeupType DEF TypeOK
  <2>4. parent' \in [Proc -> Thread]
    BY <1>2, ProcAssumption DEF do_exit, Reparented, TypeOK, Thread
  <2>5. pc' \in [Thread -> PC] /\ waitfor' \in [Thread -> Thread]
    BY <1>2 DEF do_exit, TypeOK, PC, Thread
  <2>6. panic' \in {"no", "initproc_exit", "assert"}
    BY <1>2 DEF do_exit, TypeOK
  <2> QED BY <1>2, <2>3, <2>4, <2>5, <2>6 DEF do_exit, TypeOK, States
<1> QED BY <1>1, <1>2

(***************************************************************************)
(* Every step keeps all types.                                             *)
(***************************************************************************)
LEMMA TypeStep == TypeOK /\ [Next]_vars => TypeOK'
<1> SUFFICES ASSUME TypeOK, [Next]_vars PROVE TypeOK'
    OBVIOUS
<1>0. ASSUME NEW p \in Proc PROVE p \in Thread /\ Return(p) \in [Thread -> PC]
  BY DEF Return, TypeOK, PC, Thread
<1>1. ASSUME NEW p \in Proc, sys_fork(p) PROVE TypeOK'
  BY <1>0, <1>1, ForkType DEF sys_fork
<1>2. ASSUME NEW p \in Proc, sys_exit(p) PROVE TypeOK'
  BY <1>2, ExitType DEF sys_exit
<1>3. ASSUME NEW p \in Proc, sys_wait(p) PROVE TypeOK'
  <2>1. waitfor' \in [Thread -> Thread]
    BY <1>3 DEF sys_wait, TypeOK
  <2>2. pc' \in [Thread -> PC]
    BY <1>3 DEF sys_wait, TypeOK, PC
  <2> QED BY <1>3, <2>1, <2>2 DEF sys_wait, TypeOK
<1>4. ASSUME NEW p \in Proc, sys_kill(p) PROVE TypeOK'
  <2>1. PICK q \in Proc :
          /\ LET W == {t \in {q} : ~exiting[t] /\ wait_state[t] \in WT_INTERRUPTED}
             IN  /\ wakeup_procs(W, state, time_slice)
                 /\ panic' = IF WakesZombie(W, state) THEN "assert" ELSE panic
          /\ exiting' = [exiting EXCEPT ![q] = TRUE]
    BY <1>4 DEF sys_kill
  <2> DEFINE W == {t \in {q} : ~exiting[t] /\ wait_state[t] \in WT_INTERRUPTED}
  <2>2. W \in SUBSET Thread /\ wakeup_procs(W, state, time_slice)
    BY <2>1 DEF Thread
  <2>3. /\ state' \in [Thread -> States]
        /\ wait_state' \in [Thread -> {"0"} \cup WT_INTERRUPTED]
        /\ rq' \in [Proc -> Nat]
        /\ time_slice' \in [Thread -> 0 .. MAX_TIME_SLICE]
    <3> HIDE DEF W
    <3> QED BY <2>2, WakeupType DEF TypeOK, States
  <2>4. exiting' \in [Thread -> BOOLEAN] /\ panic' \in {"no", "initproc_exit", "assert"}
    BY <2>1 DEF TypeOK
  <2>5. pc' \in [Thread -> PC]
    BY <1>0, <1>4 DEF sys_kill
  <2> QED BY <1>4, <2>3, <2>4, <2>5 DEF sys_kill, TypeOK, States
<1>5. ASSUME NEW p \in Proc, do_wait_found(p) PROVE TypeOK'
  <2>1. PICK q \in Proc :
          /\ state' = [state EXCEPT ![q] = "FREE"]
          /\ exiting' = [exiting EXCEPT ![q] = FALSE]
          /\ parent' = [parent EXCEPT ![q] = idleproc]
          /\ mode' = [mode EXCEPT ![q] = "kernel"]
          /\ time_slice' = [time_slice EXCEPT ![q] = 0]
          /\ need_resched' = [need_resched EXCEPT ![q] = FALSE]
          /\ pc' = [(IF p = initproc THEN [pc EXCEPT ![p] = "s_loop"]
                                     ELSE Return(p)) EXCEPT ![q] = "none"]
    BY <1>5 DEF do_wait_found, Candidates
  <2>2. pc' \in [Thread -> PC]
    BY <1>0, <2>1 DEF TypeOK, PC
  <2>3. time_slice' \in [Thread -> 0 .. MAX_TIME_SLICE]
    <3>1. 0 \in 0 .. MAX_TIME_SLICE
      BY ProcAssumption
    <3> QED BY <2>1, <3>1 DEF TypeOK
  <2>4. exiting' \in [Thread -> BOOLEAN] /\ need_resched' \in [Thread -> BOOLEAN]
    BY <2>1 DEF TypeOK
  <2>5. /\ state' \in [Thread -> States] /\ mode' \in [Thread -> {"user", "kernel"}]
        /\ parent' \in [Proc -> Thread]
    BY <2>1 DEF TypeOK, States, Thread
  <2>6. waitfor' \in [Thread -> Thread]
    BY <1>5 DEF do_wait_found, TypeOK, Thread
  <2> QED BY <1>5, <2>2, <2>3, <2>4, <2>5, <2>6 DEF do_wait_found, TypeOK, States
<1>6. ASSUME NEW p \in Proc, do_wait_sleep(p) PROVE TypeOK'
  BY <1>6 DEF do_wait_sleep, TypeOK, PC, WT_INTERRUPTED
<1>7. ASSUME NEW p \in Proc, do_wait_nokid(p) PROVE TypeOK'
  BY <1>0, <1>7 DEF do_wait_nokid, TypeOK, Thread
<1>8. ASSUME NEW p \in Proc, do_wait_resume(p) PROVE TypeOK'
  <2>1. CASE exiting[p] /\ do_exit(p)
    BY <2>1, ExitType
  <2>2. CASE ~exiting[p]
    BY <1>8, <2>2 DEF do_wait_resume, TypeOK, PC
  <2> QED BY <1>8, <2>1, <2>2 DEF do_wait_resume
<1>9. ASSUME NEW p \in Proc, do_sleep(p) PROVE TypeOK'
  <2>1. timer' \in [Proc -> 0 .. MaxSleep]
    BY <1>9, ProcAssumption DEF do_sleep, TypeOK
  <2> QED BY <1>9, <2>1 DEF do_sleep, TypeOK, PC, WT_INTERRUPTED
<1>10. ASSUME NEW p \in Proc, do_sleep_resume(p) PROVE TypeOK'
  BY <1>0, <1>10, ProcAssumption DEF do_sleep_resume, TimerDeleted, TypeOK
<1>20. ASSUME NEW p \in Proc, sleep_for_key(p)
       PROVE  /\ state' \in [Thread -> States]
              /\ wait_state' \in [Thread -> {"0"} \cup WT_INTERRUPTED]
              /\ wakeup_flags' \in [Proc -> {"none", "WT_INTERRUPTED", "WT_KBD"}]
              /\ pc' \in [Thread -> PC]
  BY <1>20 DEF sleep_for_key, TypeOK, PC, WT_INTERRUPTED, States
<1>21. ASSUME NEW p \in Proc, sys_read(p) PROVE TypeOK'
  BY <1>20, <1>21 DEF sys_read, TypeOK, States
<1>22. ASSUME NEW p \in Proc, sys_read_resume(p) PROVE TypeOK'
  <2>1. CASE sleep_for_key(p)
    BY <1>20, <1>22, <2>1 DEF sys_read_resume, TypeOK, States
  <2>2. CASE /\ wakeup_flags' = [wakeup_flags EXCEPT ![p] = "none"]
             /\ pc' = Return(p)
             /\ UNCHANGED <<state, wait_state>>
    BY <1>0, <1>22, <2>2 DEF sys_read_resume, TypeOK
  <2> QED BY <1>22, <2>1, <2>2 DEF sys_read_resume
<1>11. ASSUME NEW p \in Proc, do_yield(p) PROVE TypeOK'
  BY <1>0, <1>11 DEF do_yield, TypeOK
<1>12. ASSUME NEW p \in Proc, sys_other(p) PROVE TypeOK'
  BY <1>0, <1>12 DEF sys_other, TypeOK
<1>13. ASSUME NEW p \in Proc, kernel_execve(p) PROVE TypeOK'
  BY <1>13 DEF kernel_execve, TypeOK
<1>14. ASSUME NEW p \in Proc, init_main(p) PROVE TypeOK'
  <2>1. [pc EXCEPT ![p] = "wait"] \in [Thread -> PC]
    BY DEF TypeOK, PC
  <2> QED BY <1>14, <2>1, ForkType DEF init_main
<1>15. ASSUME NEW p \in Proc, call_schedule(p) PROVE TypeOK'
  <2>1. Resume[pc[p]] \in PC
    BY <1>15 DEF call_schedule, Resume, PC
  <2> QED BY <1>15, <2>1, ScheduleType DEF call_schedule
<1>16. ASSUME NEW p \in Proc, trap_return(p) PROVE TypeOK'
  <2>1. CASE exiting[p] /\ do_exit(p)
    BY <2>1, ExitType
  <2>2. CASE schedule("run")
    BY <2>2, ScheduleType DEF PC
  <2>3. CASE ~exiting[p] /\ ~need_resched[p]
    BY <1>16, <2>3 DEF trap_return, TypeOK, PC
  <2> QED BY <1>16, <2>1, <2>2, <2>3 DEF trap_return
<1>17. CASE cpu_idle
  BY <1>17, ScheduleType DEF cpu_idle, PC
<1>18. CASE timer_interrupt
  <2> DEFINE slice == IF current = idleproc THEN 0 ELSE Charged(time_slice[current])
             ts == [time_slice EXCEPT ![current] = slice]
  <2>1. slice \in 0 .. MAX_TIME_SLICE
    BY ProcAssumption DEF Charged, TypeOK
  <2>2. ts \in [Thread -> 0 .. MAX_TIME_SLICE]
    BY <2>1 DEF TypeOK
  <2>3. PICK typed \in BOOLEAN : tick(typed)
    BY <1>18 DEF timer_interrupt
  <2> DEFINE W == Expired \cup (IF typed THEN wait_queue ELSE {})
  <2>4. W \in SUBSET Thread /\ wakeup_procs(W, state, ts)
    BY <2>3 DEF tick, Expired, wait_queue, Thread
  <2>5. /\ state' \in [Thread -> States]
        /\ wait_state' \in [Thread -> {"0"} \cup WT_INTERRUPTED]
        /\ rq' \in [Proc -> Nat]
        /\ time_slice' \in [Thread -> 0 .. MAX_TIME_SLICE]
    <3> HIDE DEF ts, W
    <3> QED BY <2>2, <2>4, WakeupType DEF TypeOK, States
  <2>6. timer' \in [Proc -> 0 .. MaxSleep]
    BY <2>3, ProcAssumption DEF tick, TypeOK
  <2>7. wakeup_flags' \in [Proc -> {"none", "WT_INTERRUPTED", "WT_KBD"}]
    BY <2>3 DEF tick, TypeOK
  <2>8. need_resched' \in [Thread -> BOOLEAN]
    BY <2>3 DEF tick, TypeOK
  <2>9. pc' \in [Thread -> PC] /\ panic' \in {"no", "initproc_exit", "assert"}
    BY <2>3 DEF tick, TypeOK, PC
  <2> QED BY <2>3, <2>5, <2>6, <2>7, <2>8, <2>9 DEF tick, TypeOK, States
<1>19. CASE UNCHANGED vars
  BY <1>19 DEF vars, TypeOK
<1> QED BY <1>1, <1>2, <1>3, <1>4, <1>5, <1>6, <1>7, <1>8, <1>9, <1>10, <1>11,
           <1>12, <1>13, <1>14, <1>15, <1>16, <1>17, <1>18, <1>19, <1>21, <1>22
        DEF Next, Step

----------------------------------------------------------------------------
(* What the building blocks of the steps do.                               *)

(***************************************************************************)
(* wakeup_proc makes everybody in W runnable, clears the wait state of the *)
(* ones that were not, and adds those to the pool, the current one apart.  *)
(***************************************************************************)
LEMMA WakeupEffect ==
  ASSUME TypeOK, NEW W \in SUBSET Thread,
         NEW st \in [Thread -> States], NEW ts, wakeup_procs(W, st, ts)
  PROVE  /\ \A t \in Thread : state'[t] = IF t \in W THEN "RUNNABLE" ELSE st[t]
         /\ \A t \in Thread : wait_state'[t] =
               IF t \in W /\ st[t] # "RUNNABLE" THEN "0" ELSE wait_state[t]
         /\ \A p \in Proc : rq'[p] =
               IF p \in W /\ st[p] # "RUNNABLE" /\ p # current THEN rq[p] + 1 ELSE rq[p]
  BY DEF wakeup_procs, Enqueued, TypeOK

(***************************************************************************)
(* schedule() keeps the pool exact and leaves the CPU to idle or to a      *)
(* process that is ready: what it puts back and what it takes out balance. *)
(***************************************************************************)
LEMMA ScheduleEffect ==
  ASSUME TypeOK, RunPoolExact, NEW ret, schedule(ret)
  PROVE  /\ RunPoolExact'
         /\ current' \in Proc => state[current'] = "RUNNABLE"
         /\ state' = state
<1> DEFINE pool == [p \in Proc |-> IF GoesBack /\ p = current THEN rq[p] + 1 ELSE rq[p]]
<1>1. \A p \in Proc : pool[p] = IF state[p] = "RUNNABLE" THEN 1 ELSE 0
  BY ProcAssumption DEF GoesBack, RunPoolExact, TypeOK
<1>2. state' = state
  BY DEF schedule
<1>3. CASE \E next \in Proc : /\ pool[next] > 0
                             /\ rq' = [pool EXCEPT ![next] = @ - 1]
                             /\ current' = next
  <2>1. PICK next \in Proc : /\ pool[next] > 0
                           /\ rq' = [pool EXCEPT ![next] = @ - 1]
                           /\ current' = next
    BY <1>3
  <2> HIDE DEF pool
  <2>2. state[next] = "RUNNABLE" /\ pool[next] = 1
    BY <1>1, <2>1
  <2>3. \A p \in Proc : rq'[p] = IF p = next THEN 0 ELSE pool[p]
    BY <2>1, <2>2 DEF pool
  <2> QED BY <1>1, <1>2, <2>1, <2>2, <2>3 DEF RunPoolExact
<1>4. CASE (\A p \in Proc : pool[p] = 0) /\ rq' = pool /\ current' = idleproc
  <2>1. \A p \in Proc : rq'[p] = 0 /\ state'[p] # "RUNNABLE"
    BY <1>1, <1>2, <1>4
  <2> QED BY <1>2, <1>4, <2>1, ProcAssumption DEF RunPoolExact
<1> QED BY <1>2, <1>3, <1>4 DEF schedule

(***************************************************************************)
(* A process that runs its own code, or handler code after a switch, is    *)
(* ready and waits for nothing.                                            *)
(***************************************************************************)
LEMMA CurrentReady ==
  ASSUME ProcInv, NEW p \in Proc, current = p,
         pc[p] \in {"run", "tail", "wait", "r_wait", "r_sleep", "r_read", "s_loop"}
  PROVE  state[p] = "RUNNABLE" /\ wait_state[p] = "0"
  BY DEF ProcInv, TypeOK, Shape, OnCpu, Thread

(***************************************************************************)
(* The family properties outlive a step that moves no parent pointer,      *)
(* makes and frees nobody, ends nobody, and sends nobody into do_wait.     *)
(***************************************************************************)
LEMMA FamilySame ==
  ASSUME ProcInv, TypeOK', parent' = parent,
         \A p \in Proc : /\ state'[p] = "FREE" <=> state[p] = "FREE"
                         /\ state'[p] = "ZOMBIE" <=> state[p] = "ZOMBIE"
                         /\ wait_state'[p] = "WT_CHILD" =>
                               wait_state[p] = "WT_CHILD" /\ waitfor'[p] = waitfor[p]
  PROVE  ParentAlive' /\ Rooted' /\ WaiterHasChild'
<1>1. ParentAlive'
  BY DEF ProcInv, TypeOK, ParentAlive, Thread
<1>2. Rooted'
  BY DEF ProcInv, Rooted
<1>3. \A p \in Proc : wait_state'[p] = "WT_CHILD" => Candidates(p)' = Candidates(p)
  BY DEF Candidates
<1>4. WaiterHasChild'
  BY <1>3 DEF ProcInv, WaiterHasChild, Candidates
<1> QED BY <1>1, <1>2, <1>4

(***************************************************************************)
(* A step that only moves the current process on in its code.              *)
(***************************************************************************)
LEMMA QuietStep ==
  ASSUME ProcInv, TypeOK', NEW p \in Proc, current = p, panic = "no",
         pc[p] \in {"run", "tail", "wait", "r_wait", "r_sleep", "r_read"},
         NEW x \in {"run", "tail", "wait"},
         pc' = [pc EXCEPT ![p] = x],
         timer' = timer \/ timer' = [timer EXCEPT ![p] = 0],
         pc[p] = "r_sleep" => timer'[p] = 0,
         \/ wakeup_flags' = wakeup_flags
         \/ wakeup_flags' = [wakeup_flags EXCEPT ![p] = "none"],
         pc[p] = "r_read" => wakeup_flags'[p] = "none",
         mode'[idleproc] = mode[idleproc], mode'[initproc] = mode[initproc],
         waitfor'[initproc] = idleproc, \A q \in Proc \ {p} : waitfor'[q] = waitfor[q],
         UNCHANGED <<current, state, wait_state, parent, rq, panic>>
  PROVE  ProcInv'
<1>1. state[p] = "RUNNABLE" /\ wait_state[p] = "0"
  BY CurrentReady
<1>2. Immortals'
  BY ProcAssumption DEF ProcInv, Immortals, TypeOK, Thread
<1>3. timer'[p] = 0 /\ \A q \in Proc \ {p} : timer'[q] = timer[q]
  BY ProcAssumption DEF ProcInv, Shape, TypeOK
<1>9. wakeup_flags'[p] = "none" /\ \A q \in Proc \ {p} : wakeup_flags'[q] = wakeup_flags[q]
  BY DEF ProcInv, Shape, TypeOK
<1>4. Shape'
  BY <1>1, <1>3, <1>9 DEF ProcInv, Shape, TypeOK, Thread
<1>5. OnCpu'
  BY <1>1 DEF ProcInv, OnCpu, TypeOK, Thread
<1>6. RunPoolExact'
  BY DEF ProcInv, RunPoolExact
<1>7. ParentAlive' /\ Rooted' /\ WaiterHasChild'
  <2>1. \A q \in Proc : wait_state'[q] = "WT_CHILD" => waitfor'[q] = waitfor[q]
    BY <1>1
  <2> QED BY <2>1, FamilySame
<1>8. StopsCleanly'
  BY DEF StopsCleanly
<1> QED BY <1>2, <1>4, <1>5, <1>6, <1>7, <1>8 DEF ProcInv

\* Where schedule() is called and where its caller goes on.
Returns == {<<"s_wait", "r_wait">>, <<"s_sleep", "r_sleep">>, <<"s_read", "r_read">>,
            <<"s_loop", "wait">>, <<"s_exit", "dead">>, <<"tail", "run">>}

(***************************************************************************)
(* schedule() keeps ProcInv: a sleeper and a zombie are left, and not      *)
(* chosen.                                                                 *)
(***************************************************************************)
LEMMA ScheduleStep ==
  ASSUME ProcInv, TypeOK', panic = "no", NEW ret, schedule(ret),
         \/ current = idleproc /\ ret = "run"
         \/ current \in Proc /\ <<pc[current], ret>> \in Returns
  PROVE  ProcInv'
<1>1. /\ RunPoolExact' /\ state' = state
      /\ current' \in Proc => state[current'] = "RUNNABLE"
  BY ScheduleEffect DEF ProcInv
<1>2. /\ pc' = [pc EXCEPT ![current] = ret]
      /\ UNCHANGED <<wait_state, exiting, parent, mode, waitfor, timer, wakeup_flags, panic>>
  BY DEF schedule
<1>3. \/ current = idleproc
      \/ current \in Proc /\ current # idleproc
  BY ProcAssumption DEF ProcInv, TypeOK, Thread
<1>4. Immortals'
  BY <1>1, <1>2, <1>3, ProcAssumption DEF ProcInv, Immortals, TypeOK, Thread
<1>5. Shape'
  <2>1. CASE current = idleproc
    BY <1>1, <1>2, <2>1, ProcAssumption DEF ProcInv, Shape, TypeOK, Thread
  <2>2. CASE current \in Proc
    <3>1. \/ pc[current] = "s_wait" /\ ret = "r_wait"
          \/ pc[current] = "s_sleep" /\ ret = "r_sleep"
          \/ pc[current] = "s_read" /\ ret = "r_read"
          \/ pc[current] = "s_loop" /\ ret = "wait"
          \/ pc[current] = "s_exit" /\ ret = "dead"
          \/ pc[current] = "tail" /\ ret = "run"
      BY <1>3, <2>2, ProcAssumption DEF Returns
    <3>2. \A p \in Proc : pc'[p] = IF p = current THEN ret ELSE pc[p]
      BY <1>2, <2>2 DEF ProcInv, TypeOK, Thread
    <3> QED BY <1>1, <1>2, <2>2, <3>1, <3>2 DEF ProcInv, Shape
  <2> QED BY <1>3, <2>1, <2>2
<1>6. OnCpu'
  BY <1>1, <1>5, ProcAssumption DEF OnCpu, Shape
<1>7. ParentAlive' /\ Rooted' /\ WaiterHasChild'
  BY <1>1, <1>2, FamilySame
<1>8. StopsCleanly'
  BY <1>2 DEF StopsCleanly
<1> QED BY <1>1, <1>4, <1>5, <1>6, <1>7, <1>8 DEF ProcInv

(***************************************************************************)
(* do_fork keeps ProcInv: the slot was referred to by nobody.              *)
(***************************************************************************)
LEMMA ForkStep ==
  ASSUME ProcInv, TypeOK', NEW p \in Proc, NEW child \in Proc, current = p,
         panic = "no", pc[p] = "run", NEW x \in {"run", "tail", "wait"},
         do_fork(p, child, [pc EXCEPT ![p] = x])
  PROVE  ProcInv'
<1>1. state[p] = "RUNNABLE" /\ wait_state[p] = "0"
  BY CurrentReady
<1>2. state[child] = "FREE" /\ child # p /\ child # initproc
  BY <1>1 DEF do_fork, ProcInv, Immortals
<1>3. /\ wakeup_procs({child}, state, time_slice)
      /\ parent' = [parent EXCEPT ![child] = p]
      /\ mode' = [mode EXCEPT ![child] = mode[p]]
      /\ pc' = [[pc EXCEPT ![p] = x] EXCEPT ![child] = "run"]
      /\ UNCHANGED <<current, exiting, waitfor, need_resched, timer, wakeup_flags, panic>>
  BY <1>1 DEF do_fork
<1>4. /\ \A t \in Thread : state'[t] = IF t = child THEN "RUNNABLE" ELSE state[t]
      /\ \A t \in Thread : wait_state'[t] = IF t = child THEN "0" ELSE wait_state[t]
      /\ \A q \in Proc : rq'[q] = IF q = child THEN rq[q] + 1 ELSE rq[q]
  <2>1. {child} \in SUBSET Thread /\ state \in [Thread -> States]
    BY DEF ProcInv, TypeOK, Thread, States
  <2>2. state[child] # "RUNNABLE" /\ child # current
    BY <1>2
  <2>3. wakeup_procs({child}, state, time_slice) /\ TypeOK
    BY <1>3 DEF ProcInv
  <2> DEFINE W == {child}
  <2> HIDE DEF W
  <2>4. /\ \A t \in Thread : state'[t] = IF t \in W THEN "RUNNABLE" ELSE state[t]
        /\ \A t \in Thread : wait_state'[t] =
              IF t \in W /\ state[t] # "RUNNABLE" THEN "0" ELSE wait_state[t]
        /\ \A q \in Proc : rq'[q] =
              IF q \in W /\ state[q] # "RUNNABLE" /\ q # current THEN rq[q] + 1 ELSE rq[q]
    <3>1. W \in SUBSET Thread /\ wakeup_procs(W, state, time_slice)
      BY <2>1, <2>3 DEF W
    <3> QED BY <2>1, <2>3, <3>1, WakeupEffect
  <2>5. \A t : t \in W <=> t = child
    BY DEF W
  <2> QED BY <2>2, <2>4, <2>5
<1>5. idleproc \in Thread /\ child # idleproc /\ p # idleproc /\ Proc \subseteq Thread
  BY ProcAssumption DEF Thread
<1>6. \A t \in Thread : pc'[t] = IF t = child THEN "run" ELSE IF t = p THEN x ELSE pc[t]
  BY <1>3, <1>5 DEF ProcInv, TypeOK
<1>7. Immortals'
  BY <1>2, <1>3, <1>4, <1>5, <1>6, ProcAssumption DEF ProcInv, Immortals, TypeOK
<1>8. Shape'
  BY <1>1, <1>2, <1>3, <1>4, <1>5, <1>6 DEF ProcInv, Shape, TypeOK
<1>9. OnCpu'
  BY <1>1, <1>2, <1>3, <1>4, <1>5, <1>6 DEF ProcInv, OnCpu
<1>10. RunPoolExact'
  BY <1>1, <1>2, <1>3, <1>4, <1>5 DEF ProcInv, RunPoolExact
<1>11. \A q \in Proc : parent'[q] = IF q = child THEN p ELSE parent[q]
  BY <1>3 DEF ProcInv, TypeOK
<1>12. \A q \in Proc \ {initproc} : state[q] # "FREE" => parent[q] # child
  BY <1>2 DEF ProcInv, ParentAlive
<1>13. ParentAlive'
  BY <1>1, <1>2, <1>4, <1>5, <1>11 DEF ProcInv, ParentAlive
<1>14. Rooted'
  <2> SUFFICES ASSUME NEW S \in SUBSET (Proc \ {initproc}), S # {},
                      \A q \in S : state'[q] # "FREE"
               PROVE  \E q \in S : parent'[q] \notin S
      BY DEF Rooted
  <2>1. CASE S \ {child} = {}
    BY <1>2, <1>11, <2>1
  <2>2. CASE S \ {child} # {}
    <3>1. \A q \in S \ {child} : state[q] # "FREE"
      BY <1>4, <1>5
    <3>2. PICK q \in S \ {child} : parent[q] \notin S \ {child}
      BY <2>2, <3>1 DEF ProcInv, Rooted
    <3> QED BY <1>11, <1>12, <3>1, <3>2
  <2> QED BY <2>1, <2>2
<1>15. WaiterHasChild'
  <2> SUFFICES ASSUME NEW w \in Proc, wait_state'[w] = "WT_CHILD"
               PROVE  Candidates(w)' # {} /\ \A q \in Candidates(w)' : state'[q] # "ZOMBIE"
      BY DEF WaiterHasChild
  <2>1. w # p /\ w # child /\ wait_state[w] = "WT_CHILD"
    BY <1>1, <1>4, <1>5
  <2>2. Candidates(w)' = Candidates(w)
    BY <1>2, <1>3, <1>4, <1>5, <1>11, <2>1 DEF Candidates
  <2>3. \A q \in Candidates(w) : state'[q] = state[q]
    BY <1>2, <1>4, <1>5 DEF Candidates
  <2> QED BY <2>1, <2>2, <2>3 DEF ProcInv, WaiterHasChild
<1>16. StopsCleanly'
  BY <1>3 DEF StopsCleanly
<1> QED BY <1>7, <1>8, <1>9, <1>10, <1>13, <1>14, <1>15, <1>16 DEF ProcInv

(***************************************************************************)
(* do_exit keeps ProcInv: whoever waited for the process is woken, and so  *)
(* is init when it inherits a zombie; nobody keeps a dead parent.          *)
(***************************************************************************)
LEMMA ExitStep ==
  ASSUME ProcInv, TypeOK', NEW p \in Proc, current = p, panic = "no",
         pc[p] \in {"run", "tail", "r_wait"}, p = initproc => exiting[p],
         do_exit(p)
  PROVE  ProcInv'
<1>1. CASE p = initproc
  <2>1. panic' = "initproc_exit" /\ exiting'[initproc]
        /\ UNCHANGED <<current, state, wait_state, exiting, parent, mode,
                       pc, waitfor, rq, time_slice, need_resched, timer, wakeup_flags>>
    BY <1>1 DEF do_exit
  <2>2. ParentAlive' /\ Rooted' /\ WaiterHasChild'
    BY <2>1, FamilySame
  <2>3. Immortals' /\ Shape' /\ OnCpu' /\ RunPoolExact'
    BY <2>1 DEF ProcInv, Immortals, Shape, OnCpu, RunPoolExact
  <2>4. StopsCleanly'
    BY <2>1 DEF StopsCleanly
  <2> QED BY <2>2, <2>3, <2>4 DEF ProcInv
<1>2. CASE p # initproc
  <2> DEFINE st == [state EXCEPT ![p] = "ZOMBIE"]
             W  == ExitWakes(p)
  <2>1. state[p] = "RUNNABLE" /\ wait_state[p] = "0"
    BY CurrentReady
  <2>2. Proc \subseteq Thread /\ idleproc \in Thread /\ p # idleproc
    BY ProcAssumption DEF Thread
  <2>3. /\ wakeup_procs(W, st, time_slice)
        /\ parent' = Reparented(p)
        /\ pc' = [pc EXCEPT ![p] = "s_exit"]
        /\ waitfor' = [waitfor EXCEPT ![p] = idleproc]
        /\ panic' = IF WakesZombie(W, st) THEN "assert" ELSE panic
        /\ UNCHANGED <<current, exiting, mode, need_resched, timer, wakeup_flags>>
    BY <1>2 DEF do_exit
  <2>4. \A t \in Thread : st[t] = IF t = p THEN "ZOMBIE" ELSE state[t]
    BY DEF ProcInv, TypeOK
  <2>5. W \in SUBSET Thread /\ st \in [Thread -> States]
    BY <2>2, ProcAssumption DEF ProcInv, TypeOK, ExitWakes, States
  <2>6. \A t \in W : wait_state[t] = "WT_CHILD" /\ t # p /\ t # idleproc /\ st[t] = "SLEEPING"
    <3>1. \A t \in W : wait_state[t] = "WT_CHILD"
      BY DEF ExitWakes
    <3>2. \A t \in W : t \in Proc /\ t # p /\ t # idleproc
      BY <2>1, <2>5, <3>1 DEF ProcInv, Immortals, Thread
    <3> QED BY <2>2, <2>4, <3>1, <3>2 DEF ProcInv, Shape
  <2>7. ~WakesZombie(W, st)
    BY <2>6 DEF WakesZombie
  <2> HIDE DEF st, W
  <2>8. /\ \A t \in Thread : state'[t] = IF t \in W THEN "RUNNABLE" ELSE st[t]
        /\ \A t \in Thread : wait_state'[t] = IF t \in W THEN "0" ELSE wait_state[t]
        /\ \A q \in Proc : rq'[q] = IF q \in W THEN rq[q] + 1 ELSE rq[q]
    BY <2>3, <2>5, <2>6, WakeupEffect DEF ProcInv
  <2>9. \A t \in Thread : /\ state'[t] = IF t = p THEN "ZOMBIE"
                                           ELSE IF t \in W THEN "RUNNABLE" ELSE state[t]
                          /\ t \in W => state[t] = "SLEEPING" /\ wait_state[t] = "WT_CHILD"
    BY <2>4, <2>6, <2>8
  <2>10. \A t \in Thread : /\ pc'[t] = IF t = p THEN "s_exit" ELSE pc[t]
                           /\ waitfor'[t] = IF t = p THEN idleproc ELSE waitfor[t]
    BY <2>2, <2>3 DEF ProcInv, TypeOK
  <2>11. Immortals'
    <3>1. parent'[initproc] = idleproc
      BY <2>2, <2>3, ProcAssumption DEF Reparented, Children, ProcInv, Immortals
    <3> QED BY <1>2, <2>2, <2>3, <2>6, <2>8, <2>9, <2>10, <3>1, ProcAssumption
            DEF ProcInv, Immortals
  <2>12. timer[p] = 0
    <3>1. timer[p] \in Nat
      BY ProcAssumption DEF ProcInv, TypeOK
    <3> QED BY <3>1 DEF ProcInv, Shape
  <2>13. Shape'
    BY <2>1, <2>2, <2>3, <2>8, <2>9, <2>10, <2>12 DEF ProcInv, Shape
  <2>14. OnCpu'
    BY <2>2, <2>3, <2>9, <2>10 DEF ProcInv, OnCpu
  <2>15. RunPoolExact'
    BY <2>1, <2>2, <2>3, <2>6, <2>8, <2>9 DEF ProcInv, RunPoolExact
  <2>16. \A q \in Proc : parent'[q] = IF q \in Children(p) THEN initproc ELSE parent[q]
    BY <2>3 DEF Reparented
  <2>17. \A q \in Proc : state'[q] = "FREE" <=> state[q] = "FREE"
    BY <2>1, <2>2, <2>9
  <2>18. ParentAlive'
    <3> SUFFICES ASSUME NEW q \in Proc \ {initproc}, state'[q] # "FREE"
                 PROVE  parent'[q] \in Proc /\ state'[parent'[q]] \in {"SLEEPING", "RUNNABLE"}
        BY DEF ParentAlive
    <3>1. CASE q \in Children(p)
      BY <2>11, <2>16, <3>1, ProcAssumption DEF Immortals
    <3>2. CASE q \notin Children(p)
      <4>1. parent'[q] = parent[q] /\ parent[q] # p /\ parent[q] \in Proc
            /\ state[parent[q]] \in {"SLEEPING", "RUNNABLE"}
        BY <2>16, <2>17, <3>2 DEF ProcInv, ParentAlive, Children
      <4> QED BY <2>2, <2>9, <4>1
    <3> QED BY <3>1, <3>2
  <2>19. Rooted'
    <3> SUFFICES ASSUME NEW S \in SUBSET (Proc \ {initproc}), S # {},
                        \A q \in S : state'[q] # "FREE"
                 PROVE  \E q \in S : parent'[q] \notin S
        BY DEF Rooted
    <3>1. CASE \E q \in S : q \in Children(p)
      BY <2>16, <3>1
    <3>2. CASE \A q \in S : q \notin Children(p)
      <4>1. PICK q \in S : parent[q] \notin S
        BY <2>17 DEF ProcInv, Rooted
      <4> QED BY <2>16, <3>2, <4>1
    <3> QED BY <3>1, <3>2
  <2>20. WaiterHasChild'
    <3> SUFFICES ASSUME NEW w \in Proc, wait_state'[w] = "WT_CHILD"
                 PROVE  Candidates(w)' # {} /\ \A q \in Candidates(w)' : state'[q] # "ZOMBIE"
        BY DEF WaiterHasChild
    <3>1. w \notin W /\ w # p /\ wait_state[w] = "WT_CHILD" /\ waitfor'[w] = waitfor[w]
      BY <2>1, <2>2, <2>8, <2>10
    <3>2. parent[p] # w
      BY <3>1 DEF W, ExitWakes
    <3>3. \A q \in Candidates(w) : q \in Candidates(w)'
      BY <2>16, <2>17, <3>1 DEF Candidates, Children
    <3>4. \A q \in Candidates(w)' : state'[q] # "ZOMBIE"
      <4> SUFFICES ASSUME NEW q \in Candidates(w)' PROVE state'[q] # "ZOMBIE"
          OBVIOUS
      <4>1. q \in Proc /\ state[q] # "FREE" /\ parent'[q] = w
            /\ waitfor[w] \in {idleproc, q}
        BY <2>17, <3>1 DEF Candidates
      <4>2. CASE q \in Children(p)
        <5>1. w = initproc
          BY <2>16, <4>1, <4>2
        <5>2. state[q] # "ZOMBIE"
          BY <3>1, <4>2, <5>1 DEF W, ExitWakes
        <5>3. q # p
          <6>1. parent[p] # p
            <7>1. {p} \in SUBSET (Proc \ {initproc}) /\ state[p] # "FREE"
              BY <1>2, <2>1
            <7> QED BY <7>1 DEF ProcInv, Rooted
          <6> QED BY <4>2, <6>1 DEF Children
        <5> QED BY <2>2, <2>9, <4>1, <5>2, <5>3
      <4>3. CASE q \notin Children(p)
        <5>1. parent[q] = w /\ q \in Candidates(w) /\ q # p
          BY <2>16, <3>2, <4>1, <4>3 DEF Candidates
        <5> QED BY <2>2, <2>9, <3>1, <4>1, <5>1 DEF ProcInv, WaiterHasChild
      <4> QED BY <4>2, <4>3
    <3> QED BY <3>1, <3>3, <3>4 DEF ProcInv, WaiterHasChild
  <2>21. StopsCleanly'
    BY <2>3, <2>7 DEF StopsCleanly
  <2> QED BY <2>11, <2>13, <2>14, <2>15, <2>18, <2>19, <2>20, <2>21 DEF ProcInv
<1> QED BY <1>1, <1>2

(***************************************************************************)
(* do_wait frees a zombie that nobody refers to and keeps ProcInv.         *)
(***************************************************************************)
LEMMA FoundStep ==
  ASSUME ProcInv, TypeOK', NEW p \in Proc, do_wait_found(p)
  PROVE  ProcInv'
<1>1. current = p /\ pc[p] = "wait" /\ panic = "no"
      /\ state[p] = "RUNNABLE" /\ wait_state[p] = "0"
  BY CurrentReady DEF do_wait_found
<1>2. PICK q \in Candidates(p) :
          /\ Found(q)
          /\ state' = [state EXCEPT ![q] = "FREE"]
          /\ exiting' = [exiting EXCEPT ![q] = FALSE]
          /\ parent' = [parent EXCEPT ![q] = idleproc]
          /\ mode' = [mode EXCEPT ![q] = "kernel"]
          /\ pc' = [(IF p = initproc THEN [pc EXCEPT ![p] = "s_loop"]
                                     ELSE Return(p)) EXCEPT ![q] = "none"]
  BY DEF do_wait_found
<1>3. q \in Proc /\ state[q] = "ZOMBIE" /\ parent[q] = p /\ q # p /\ q # initproc
  BY <1>1, <1>2 DEF Candidates, Found, ProcInv, Immortals
<1>4. Proc \subseteq Thread /\ idleproc \in Thread /\ p # idleproc /\ q # idleproc
  BY <1>3, ProcAssumption DEF Thread
<1>5. UNCHANGED <<current, wait_state, rq, timer, wakeup_flags, panic>>
      /\ waitfor' = [waitfor EXCEPT ![p] = idleproc]
  BY DEF do_wait_found
<1>6. \A t \in Thread : /\ state'[t] = IF t = q THEN "FREE" ELSE state[t]
                        /\ mode'[t] = IF t = q THEN "kernel" ELSE mode[t]
                        /\ waitfor'[t] = IF t = p THEN idleproc ELSE waitfor[t]
  BY <1>2, <1>3, <1>4, <1>5 DEF ProcInv, TypeOK
<1>7. \A r \in Proc : parent'[r] = IF r = q THEN idleproc ELSE parent[r]
  BY <1>2, <1>3 DEF ProcInv, TypeOK
<1>8. PICK x \in {"run", "tail", "s_loop"} :
        \A t \in Thread : pc'[t] = IF t = q THEN "none" ELSE IF t = p THEN x ELSE pc[t]
  <2>1. CASE p = initproc
    BY <1>2, <1>3, <1>4, <2>1 DEF ProcInv, TypeOK
  <2>2. CASE p # initproc
    <3>1. PICK x \in {"run", "tail"} : Return(p) = [pc EXCEPT ![p] = x]
      BY DEF Return
    <3> QED BY <1>2, <1>3, <1>4, <2>2, <3>1 DEF ProcInv, TypeOK
  <2> QED BY <2>1, <2>2
<1>9. Immortals'
  BY <1>3, <1>4, <1>5, <1>6, <1>7, <1>8, ProcAssumption DEF ProcInv, Immortals
<1>10. timer[p] = 0 /\ timer[q] = 0
  <2>1. timer[p] \in Nat /\ timer[q] \in Nat
    BY <1>3, ProcAssumption DEF ProcInv, TypeOK
  <2> QED BY <1>1, <1>3, <2>1 DEF ProcInv, Shape
<1>11. Shape'
  BY <1>1, <1>3, <1>4, <1>5, <1>6, <1>8, <1>10 DEF ProcInv, Shape
<1>12. OnCpu'
  BY <1>1, <1>3, <1>4, <1>5, <1>6, <1>8 DEF ProcInv, OnCpu
<1>13. RunPoolExact'
  BY <1>3, <1>4, <1>5, <1>6 DEF ProcInv, RunPoolExact
<1>14. \A r \in Proc \ {initproc} : state[r] # "FREE" => parent[r] # q
  BY <1>3 DEF ProcInv, ParentAlive
<1>15. ParentAlive'
  BY <1>3, <1>4, <1>6, <1>7, <1>14 DEF ProcInv, ParentAlive
<1>16. Rooted'
  <2> SUFFICES ASSUME NEW S \in SUBSET (Proc \ {initproc}), S # {},
                      \A r \in S : state'[r] # "FREE"
               PROVE  \E r \in S : parent'[r] \notin S
      BY DEF Rooted
  <2>1. q \notin S /\ \A r \in S : state[r] # "FREE"
    BY <1>3, <1>4, <1>6
  <2>2. PICK r \in S : parent[r] \notin S
    BY <2>1 DEF ProcInv, Rooted
  <2> QED BY <1>7, <2>1, <2>2
<1>17. WaiterHasChild'
  <2> SUFFICES ASSUME NEW w \in Proc, wait_state'[w] = "WT_CHILD"
               PROVE  Candidates(w)' # {} /\ \A r \in Candidates(w)' : state'[r] # "ZOMBIE"
      BY DEF WaiterHasChild
  <2>1. w # p /\ wait_state[w] = "WT_CHILD" /\ waitfor'[w] = waitfor[w]
    BY <1>1, <1>4, <1>5, <1>6
  <2>2. Candidates(w)' = Candidates(w)
    <3>1. \A r \in Proc : r \in Candidates(w)' <=> r \in Candidates(w)
      <4>1. q \notin Candidates(w) /\ q \notin Candidates(w)'
        BY <1>3, <1>4, <1>6, <2>1 DEF Candidates
      <4>2. ASSUME NEW r \in Proc, r # q PROVE r \in Candidates(w)' <=> r \in Candidates(w)
        BY <1>4, <1>6, <1>7, <2>1, <4>2 DEF Candidates
      <4> QED BY <4>1, <4>2
    <3> QED BY <3>1 DEF Candidates
  <2>3. \A r \in Candidates(w) : state'[r] # "ZOMBIE"
    BY <1>4, <1>6, <2>1 DEF ProcInv, WaiterHasChild, Candidates
  <2> QED BY <2>1, <2>2, <2>3 DEF ProcInv, WaiterHasChild
<1>18. StopsCleanly'
  BY <1>1, <1>5 DEF StopsCleanly
<1> QED BY <1>9, <1>11, <1>12, <1>13, <1>15, <1>16, <1>17, <1>18 DEF ProcInv

(***************************************************************************)
(* Going to sleep in do_wait keeps ProcInv: there is a child to wait for.  *)
(***************************************************************************)
LEMMA WaitSleepStep ==
  ASSUME ProcInv, TypeOK', NEW p \in Proc, do_wait_sleep(p)
  PROVE  ProcInv'
<1>1. current = p /\ pc[p] = "wait" /\ panic = "no"
      /\ state[p] = "RUNNABLE" /\ wait_state[p] = "0"
  BY CurrentReady DEF do_wait_sleep
<1>2. Proc \subseteq Thread /\ idleproc \in Thread /\ p # idleproc
  BY ProcAssumption DEF Thread
<1>3. \A t \in Thread : /\ state'[t] = IF t = p THEN "SLEEPING" ELSE state[t]
                        /\ wait_state'[t] = IF t = p THEN "WT_CHILD" ELSE wait_state[t]
                        /\ pc'[t] = IF t = p THEN "s_wait" ELSE pc[t]
  BY <1>2 DEF do_wait_sleep, ProcInv, TypeOK
<1>4. UNCHANGED <<current, exiting, parent, mode, waitfor, rq, timer, wakeup_flags, panic>>
  BY DEF do_wait_sleep
<1>5. Immortals'
  BY <1>2, <1>3, <1>4, ProcAssumption DEF ProcInv, Immortals
<1>6. Shape'
  BY <1>1, <1>2, <1>3, <1>4 DEF ProcInv, Shape
<1>7. OnCpu' /\ RunPoolExact'
  BY <1>1, <1>2, <1>3, <1>4 DEF ProcInv, OnCpu, RunPoolExact
<1>8. ParentAlive'
  BY <1>1, <1>2, <1>3, <1>4 DEF ProcInv, ParentAlive
<1>9. Rooted'
  <2>1. \A q \in Proc : state'[q] = "FREE" <=> state[q] = "FREE"
    BY <1>1, <1>2, <1>3
  <2> QED BY <1>4, <2>1 DEF ProcInv, Rooted
<1>10. WaiterHasChild'
  <2>1. \A w \in Proc : Candidates(w)' = Candidates(w)
    BY <1>1, <1>2, <1>3, <1>4 DEF Candidates
  <2>2. Candidates(p) # {} /\ \A q \in Candidates(p) : state[q] # "ZOMBIE"
    BY DEF do_wait_sleep, Found
  <2>3. \A q \in Proc : state[q] # "ZOMBIE" => state'[q] # "ZOMBIE"
    BY <1>2, <1>3
  <2> QED BY <1>2, <1>3, <2>1, <2>2, <2>3 DEF ProcInv, WaiterHasChild, Candidates
<1>11. StopsCleanly'
  BY <1>1, <1>4 DEF StopsCleanly
<1> QED BY <1>5, <1>6, <1>7, <1>8, <1>9, <1>10, <1>11 DEF ProcInv

(***************************************************************************)
(* Going to sleep in do_sleep keeps ProcInv: the timer runs.               *)
(***************************************************************************)
LEMMA SleepStep ==
  ASSUME ProcInv, TypeOK', NEW p \in Proc, do_sleep(p)
  PROVE  ProcInv'
<1>1. current = p /\ pc[p] = "run" /\ panic = "no" /\ p # initproc
      /\ state[p] = "RUNNABLE" /\ wait_state[p] = "0"
  BY CurrentReady DEF do_sleep, Running
<1>2. Proc \subseteq Thread /\ idleproc \in Thread /\ p # idleproc
  BY ProcAssumption DEF Thread
<1>3. \A t \in Thread : /\ state'[t] = IF t = p THEN "SLEEPING" ELSE state[t]
                        /\ wait_state'[t] = IF t = p THEN "WT_TIMER" ELSE wait_state[t]
                        /\ pc'[t] = IF t = p THEN "s_sleep" ELSE pc[t]
  BY <1>2 DEF do_sleep, ProcInv, TypeOK
<1>4. timer'[p] > 0 /\ \A q \in Proc \ {p} : timer'[q] = timer[q]
  BY ProcAssumption DEF do_sleep, ProcInv, TypeOK
<1>5. UNCHANGED <<current, exiting, parent, mode, waitfor, rq, wakeup_flags, panic>>
  BY DEF do_sleep
<1>6. Immortals'
  BY <1>1, <1>2, <1>3, <1>5, ProcAssumption DEF ProcInv, Immortals
<1>7. Shape'
  BY <1>1, <1>2, <1>3, <1>4, <1>5 DEF ProcInv, Shape
<1>8. OnCpu' /\ RunPoolExact'
  BY <1>1, <1>2, <1>3, <1>5 DEF ProcInv, OnCpu, RunPoolExact
<1>9. ParentAlive' /\ Rooted' /\ WaiterHasChild'
  BY <1>1, <1>2, <1>3, <1>5, FamilySame
<1>10. StopsCleanly'
  BY <1>1, <1>5 DEF StopsCleanly
<1> QED BY <1>6, <1>7, <1>8, <1>9, <1>10 DEF ProcInv

(***************************************************************************)
(* Going to sleep in dev_stdin_read keeps ProcInv: the sleeper is in the   *)
(* queue.                                                                  *)
(***************************************************************************)
LEMMA ReadSleepStep ==
  ASSUME ProcInv, TypeOK', NEW p \in Proc, current = p, panic = "no",
         pc[p] \in {"run", "r_read"}, sleep_for_key(p),
         UNCHANGED <<current, exiting, parent, mode, waitfor, rq, timer, panic>>
  PROVE  ProcInv'
<1>1. state[p] = "RUNNABLE" /\ wait_state[p] = "0"
  BY CurrentReady
<1>2. Proc \subseteq Thread /\ idleproc \in Thread /\ p # idleproc
  BY ProcAssumption DEF Thread
<1>3. \A t \in Thread : /\ state'[t] = IF t = p THEN "SLEEPING" ELSE state[t]
                        /\ wait_state'[t] = IF t = p THEN "WT_KBD" ELSE wait_state[t]
                        /\ pc'[t] = IF t = p THEN "s_read" ELSE pc[t]
  BY <1>2 DEF sleep_for_key, ProcInv, TypeOK
<1>4. \A q \in Proc : wakeup_flags'[q] = IF q = p THEN "WT_INTERRUPTED" ELSE wakeup_flags[q]
  BY DEF sleep_for_key, ProcInv, TypeOK
<1>5. Immortals'
  BY <1>1, <1>2, <1>3, ProcAssumption DEF ProcInv, Immortals
<1>6. timer[p] = 0
  <2>1. timer[p] \in Nat
    BY ProcAssumption DEF ProcInv, TypeOK
  <2> QED BY <2>1 DEF ProcInv, Shape
<1>7. Shape'
  BY <1>1, <1>2, <1>3, <1>4, <1>6 DEF ProcInv, Shape
<1>8. OnCpu' /\ RunPoolExact'
  BY <1>1, <1>2, <1>3 DEF ProcInv, OnCpu, RunPoolExact
<1>9. ParentAlive' /\ Rooted' /\ WaiterHasChild'
  BY <1>1, <1>2, <1>3, FamilySame
<1>10. StopsCleanly'
  BY DEF StopsCleanly
<1> QED BY <1>5, <1>7, <1>8, <1>9, <1>10 DEF ProcInv

(***************************************************************************)
(* A wake-up of sleepers by kill, by the timer or by a key keeps ProcInv   *)
(* when those whose timers have run out, and those whose wait_t has left   *)
(* the queue, are among them.                                              *)
(***************************************************************************)
LEMMA WakeStep ==
  ASSUME ProcInv, TypeOK', panic = "no", NEW W \in SUBSET Proc, NEW ts,
         wakeup_procs(W, state, ts),
         \A q \in W : state[q] \in {"SLEEPING", "RUNNABLE"},
         \A q \in Proc : /\ timer'[q] > 0 => timer[q] > 0
                         /\ timer[q] > 0 /\ q \notin W => timer'[q] > 0,
         \A q \in Proc : /\ wakeup_flags'[q] # "none" => wakeup_flags[q] # "none"
                         /\ q \notin W => wakeup_flags'[q] = wakeup_flags[q],
         NEW x \in {"run", "tail"},
         \/ pc' = pc
         \/ current \in Proc /\ pc[current] = "run" /\ pc' = [pc EXCEPT ![current] = x],
         panic' = "no", UNCHANGED <<current, parent, mode, waitfor>>
  PROVE  ProcInv'
<1>1. Proc \subseteq Thread /\ idleproc \in Thread /\ idleproc \notin Proc
  BY ProcAssumption DEF Thread
<1>2. /\ \A t \in Thread : state'[t] = IF t \in W THEN "RUNNABLE" ELSE state[t]
      /\ \A t \in Thread : wait_state'[t] =
            IF t \in W /\ state[t] # "RUNNABLE" THEN "0" ELSE wait_state[t]
      /\ \A p \in Proc : rq'[p] =
            IF p \in W /\ state[p] # "RUNNABLE" /\ p # current THEN rq[p] + 1 ELSE rq[p]
  <2>1. W \in SUBSET Thread /\ state \in [Thread -> States]
    BY <1>1 DEF ProcInv, TypeOK, States
  <2> QED BY <2>1, WakeupEffect DEF ProcInv
<1>3. \A p \in Proc : pc'[p] = pc[p] \/ (p = current /\ pc[p] = "run" /\ pc'[p] = x)
  BY <1>1 DEF ProcInv, TypeOK
<1>4. pc'[idleproc] = pc[idleproc]
  BY <1>1 DEF ProcInv, TypeOK
<1>5. Immortals'
  BY <1>1, <1>2, <1>4, ProcAssumption DEF ProcInv, Immortals
<1>6. Shape'
  BY <1>1, <1>2, <1>3 DEF ProcInv, Shape
<1>7. OnCpu'
  BY <1>1, <1>2, <1>3 DEF ProcInv, OnCpu
<1>8. RunPoolExact'
  BY <1>1, <1>2 DEF ProcInv, RunPoolExact
<1>9. ParentAlive' /\ Rooted' /\ WaiterHasChild'
  BY <1>1, <1>2, FamilySame
<1>10. StopsCleanly'
  BY DEF StopsCleanly
<1> QED BY <1>5, <1>6, <1>7, <1>8, <1>9, <1>10 DEF ProcInv

(***************************************************************************)
(* do_kill keeps ProcInv: it wakes only sleepers.                          *)
(***************************************************************************)
LEMMA KillStep ==
  ASSUME ProcInv, TypeOK', NEW p \in Proc, sys_kill(p)
  PROVE  ProcInv'
<1>1. current = p /\ pc[p] = "run" /\ panic = "no"
  BY DEF sys_kill, Running
<1>2. PICK q \in Proc :
        LET W == {t \in {q} : ~exiting[t] /\ wait_state[t] \in WT_INTERRUPTED}
        IN  /\ wakeup_procs(W, state, time_slice)
            /\ panic' = IF WakesZombie(W, state) THEN "assert" ELSE panic
  BY DEF sys_kill
<1> DEFINE W == {t \in {q} : ~exiting[t] /\ wait_state[t] \in WT_INTERRUPTED}
<1>3. W \in SUBSET Proc /\ \A t \in W : state[t] = "SLEEPING"
  BY DEF ProcInv, TypeOK, Shape, WT_INTERRUPTED, Thread
<1>4. wakeup_procs(W, state, time_slice) /\ panic' = "no"
  BY <1>1, <1>2, <1>3 DEF WakesZombie
<1>5. PICK x \in {"run", "tail"} : pc' = [pc EXCEPT ![p] = x]
  BY DEF sys_kill, Return
<1>6. UNCHANGED <<current, parent, mode, waitfor, timer, wakeup_flags>>
  BY DEF sys_kill
<1> HIDE DEF W
<1> QED BY <1>1, <1>3, <1>4, <1>5, <1>6, WakeStep

(***************************************************************************)
(* The timer interrupt keeps ProcInv: a timer that runs out belongs to a   *)
(* process that is in do_sleep and alive, a wait_t in the queue of stdin   *)
(* to one that is in dev_stdin_read and alive.                             *)
(***************************************************************************)
LEMMA TimerStep ==
  ASSUME ProcInv, TypeOK', timer_interrupt
  PROVE  ProcInv'
<1>0. PICK typed \in BOOLEAN : tick(typed)
  BY DEF timer_interrupt
<1>1. panic = "no" /\ UNCHANGED <<current, parent, mode, waitfor>>
  BY <1>0 DEF tick
<1>2. \A q \in Proc : timer[q] \in Nat
                     /\ timer'[q] = IF timer[q] > 0 THEN timer[q] - 1 ELSE 0
  BY <1>0, ProcAssumption DEF tick, ProcInv, TypeOK
<1> DEFINE W == Expired \cup (IF typed THEN wait_queue ELSE {})
<1>3. /\ W \in SUBSET Proc
      /\ \A q \in Proc : q \in Expired <=> timer[q] = 1
      /\ \A q \in Proc : timer[q] = 1 => q \in W
      /\ \A q \in W : timer[q] = 1 \/ wakeup_flags[q] # "none"
  BY DEF Expired, wait_queue
<1>4. \A q \in W : state[q] \in {"SLEEPING", "RUNNABLE"}
  <2>1. \A q \in W : state[q] \notin {"FREE", "ZOMBIE"}
    BY <1>3 DEF ProcInv, Shape
  <2> QED BY <1>3, <2>1 DEF ProcInv, TypeOK, Thread
<1>5. PICK ts : wakeup_procs(W, state, ts)
  BY <1>0 DEF tick
<1>6. panic' = "no"
  <2>1. ~WakesZombie(W, state)
    BY <1>4 DEF WakesZombie
  <2>2. \A q \in Expired : wait_state[q] \in {"0"} \cup WT_INTERRUPTED
    BY DEF Expired, ProcInv, TypeOK, Thread
  <2> QED BY <1>0, <1>1, <2>1, <2>2 DEF tick
<1>7. \/ pc' = pc
      \/ current \in Proc /\ pc[current] = "run" /\ pc' = [pc EXCEPT ![current] = "tail"]
  BY <1>0 DEF tick, IntrEnabled, ProcInv, TypeOK, Immortals, Thread
<1>8. \A q \in Proc : /\ timer'[q] > 0 => timer[q] > 0
                      /\ timer[q] > 0 /\ q \notin W => timer'[q] > 0
  BY <1>2, <1>3
<1>9. \A q \in Proc : /\ wakeup_flags'[q] # "none" => wakeup_flags[q] # "none"
                      /\ q \notin W => wakeup_flags'[q] = wakeup_flags[q]
  BY <1>0 DEF tick, wait_queue
<1> HIDE DEF W
<1> QED BY <1>1, <1>3, <1>4, <1>5, <1>6, <1>7, <1>8, <1>9, WakeStep

(***************************************************************************)
(* When init has no child left there is no process left but idle and init: *)
(* every other one would have an ancestor that is a child of init.         *)
(***************************************************************************)
LEMMA NobodyLeft ==
  ASSUME ProcInv, Candidates(initproc) = {}
  PROVE  /\ \A p \in Proc \ {initproc} : state[p] = "FREE"
         /\ nr_process = 2
<1> DEFINE S == {p \in Proc \ {initproc} : state[p] # "FREE"}
<1>1. S = {}
  <2> SUFFICES ASSUME S # {} PROVE FALSE
      OBVIOUS
  <2>1. PICK p \in S : parent[p] \notin S
    <3>1. S \in SUBSET (Proc \ {initproc}) /\ \A p \in S : state[p] # "FREE"
      OBVIOUS
    <3> HIDE DEF S
    <3> QED BY <3>1 DEF ProcInv, Rooted
  <2>2. parent[p] \in Proc /\ state[parent[p]] # "FREE"
    BY DEF ProcInv, ParentAlive
  <2>3. parent[p] = initproc
    BY <2>1, <2>2
  <2>4. p \in Candidates(initproc)
    BY <2>3 DEF Candidates, ProcInv, Immortals
  <2> QED BY <2>4
<1>2. {t \in Thread : state[t] # "FREE"} = {idleproc, initproc}
  BY <1>1, ProcAssumption DEF Thread, ProcInv, Immortals
<1>3. Cardinality({idleproc, initproc}) = 2
  <2>1. idleproc # initproc
    BY ProcAssumption
  <2>2. /\ IsFiniteSet({initproc}) /\ Cardinality({initproc}) = 1
    BY FS_Singleton
  <2>3. Cardinality({initproc} \cup {idleproc}) = Cardinality({initproc}) + 1
    BY <2>1, <2>2, FS_AddElement
  <2>4. {initproc} \cup {idleproc} = {idleproc, initproc}
    OBVIOUS
  <2> QED BY <2>2, <2>3, <2>4
<1> QED BY <1>1, <1>2, <1>3 DEF nr_process

(***************************************************************************)
(* The end of do_wait without children keeps ProcInv.                      *)
(***************************************************************************)
LEMMA NokidStep ==
  ASSUME ProcInv, TypeOK', NEW p \in Proc, do_wait_nokid(p)
  PROVE  ProcInv'
<1>1. current = p /\ pc[p] = "wait" /\ panic = "no" /\ Candidates(p) = {}
  BY DEF do_wait_nokid
<1>2. waitfor' = [waitfor EXCEPT ![p] = idleproc]
      /\ UNCHANGED <<current, state, wait_state, exiting, parent, mode, rq,
                     timer, wakeup_flags>>
  BY DEF do_wait_nokid
<1>3. Proc \subseteq Thread /\ idleproc \in Thread
  BY DEF Thread
<1>4. \A q \in Proc : waitfor'[q] = IF q = p THEN idleproc ELSE waitfor[q]
  BY <1>2, <1>3 DEF ProcInv, TypeOK
<1>5. CASE p = initproc
  <2>1. panic' = "initproc_exit" /\ pc' = pc
    BY <1>1, <1>5, NobodyLeft DEF do_wait_nokid
  <2>2. StopsCleanly'
    BY <1>1, <1>2, <1>5, <2>1, NobodyLeft DEF StopsCleanly
  <2>3. waitfor'[initproc] = idleproc /\ \A q \in Proc : waitfor'[q] = waitfor[q]
    BY <1>4, <1>5, ProcAssumption DEF ProcInv, Immortals
  <2>4. ParentAlive' /\ Rooted' /\ WaiterHasChild'
    BY <1>2, <2>3, FamilySame
  <2>5. Immortals' /\ Shape' /\ OnCpu' /\ RunPoolExact'
    BY <1>2, <2>1, <2>3 DEF ProcInv, Immortals, Shape, OnCpu, RunPoolExact
  <2> QED BY <2>2, <2>4, <2>5 DEF ProcInv
<1>6. CASE p # initproc
  <2>1. PICK x \in {"run", "tail"} : pc' = [pc EXCEPT ![p] = x]
    BY <1>6 DEF do_wait_nokid, Return
  <2>2. panic' = panic
    BY <1>6 DEF do_wait_nokid
  <2>3. waitfor'[initproc] = idleproc
    BY <1>4, <1>6, ProcAssumption DEF ProcInv, Immortals
  <2> QED BY <1>1, <1>2, <1>4, <2>1, <2>2, <2>3, QuietStep
<1> QED BY <1>5, <1>6

----------------------------------------------------------------------------
(* The theorems.                                                           *)

(***************************************************************************)
(* ProcInv holds when proc_init has run.                                   *)
(***************************************************************************)
LEMMA ProcInit == Init => ProcInv
<1> SUFFICES ASSUME Init PROVE ProcInv
    OBVIOUS
<1> USE ProcAssumption DEF Init
<1>1. TypeOK
  <2>1. 0 \in 0 .. MAX_TIME_SLICE /\ MAX_TIME_SLICE \in 0 .. MAX_TIME_SLICE /\ 0 \in 0 .. MaxSleep
    OBVIOUS
  <2>2. need_resched \in [Thread -> BOOLEAN] /\ exiting \in [Thread -> BOOLEAN]
    OBVIOUS
  <2> QED BY <2>1, <2>2 DEF TypeOK, Thread, PC, WT_INTERRUPTED
<1>2. Immortals /\ Shape /\ OnCpu /\ RunPoolExact
  BY DEF Immortals, Shape, OnCpu, RunPoolExact, Thread
<1>3. \A p \in Proc \ {initproc} : state[p] = "FREE"
  BY DEF Thread
<1>4. ParentAlive /\ Rooted
  BY <1>3 DEF ParentAlive, Rooted
<1>5. WaiterHasChild /\ StopsCleanly
  BY DEF WaiterHasChild, StopsCleanly, Thread
<1> QED BY <1>1, <1>2, <1>4, <1>5 DEF ProcInv

(***************************************************************************)
(* Every step keeps ProcInv.                                               *)
(***************************************************************************)
LEMMA ProcStep == ProcInv /\ [Next]_vars => ProcInv'
<1> SUFFICES ASSUME ProcInv, [Next]_vars PROVE ProcInv'
    OBVIOUS
<1>0. TypeOK'
  BY TypeStep DEF ProcInv
<1>a. ASSUME NEW p \in Proc PROVE \E x \in {"run", "tail"} : Return(p) = [pc EXCEPT ![p] = x]
  BY DEF Return
<1>b. waitfor[initproc] = idleproc /\ mode[initproc] = "kernel"
  BY DEF ProcInv, Immortals
<1>1. ASSUME NEW p \in Proc, sys_fork(p) PROVE ProcInv'
  <2>1. PICK x \in {"run", "tail"} : Return(p) = [pc EXCEPT ![p] = x]
    BY <1>a
  <2> QED BY <1>0, <1>1, <2>1, ForkStep DEF sys_fork, Running
<1>2. ASSUME NEW p \in Proc, sys_exit(p) PROVE ProcInv'
  BY <1>0, <1>2, ExitStep DEF sys_exit, Running
<1>3. ASSUME NEW p \in Proc, sys_wait(p) PROVE ProcInv'
  <2>1. p # initproc
    BY <1>3, <1>b DEF sys_wait
  <2>2. waitfor'[initproc] = idleproc /\ \A q \in Proc \ {p} : waitfor'[q] = waitfor[q]
    BY <1>3, <1>b, <2>1, ProcAssumption DEF sys_wait, ProcInv, TypeOK, Thread
  <2> QED BY <1>0, <1>3, <2>2, QuietStep DEF sys_wait, Running
<1>4. ASSUME NEW p \in Proc, sys_kill(p) PROVE ProcInv'
  BY <1>0, <1>4, KillStep
<1>5. ASSUME NEW p \in Proc, do_wait_found(p) PROVE ProcInv'
  BY <1>0, <1>5, FoundStep
<1>6. ASSUME NEW p \in Proc, do_wait_sleep(p) PROVE ProcInv'
  BY <1>0, <1>6, WaitSleepStep
<1>7. ASSUME NEW p \in Proc, do_wait_nokid(p) PROVE ProcInv'
  BY <1>0, <1>7, NokidStep
<1>8. ASSUME NEW p \in Proc, do_wait_resume(p) PROVE ProcInv'
  <2>1. CASE exiting[p] /\ do_exit(p)
    BY <1>0, <1>8, <2>1, ExitStep DEF do_wait_resume
  <2>2. CASE ~exiting[p]
    BY <1>0, <1>8, <1>b, <2>2, QuietStep DEF do_wait_resume
  <2> QED BY <1>8, <2>1, <2>2 DEF do_wait_resume
<1>9. ASSUME NEW p \in Proc, do_sleep(p) PROVE ProcInv'
  BY <1>0, <1>9, SleepStep
<1>10. ASSUME NEW p \in Proc, do_sleep_resume(p) PROVE ProcInv'
  <2>1. PICK x \in {"run", "tail"} : Return(p) = [pc EXCEPT ![p] = x]
    BY <1>a
  <2>2. timer' = [timer EXCEPT ![p] = 0] /\ timer'[p] = 0
    BY <1>10 DEF do_sleep_resume, TimerDeleted, ProcInv, TypeOK
  <2> QED BY <1>0, <1>10, <1>b, <2>1, <2>2, QuietStep DEF do_sleep_resume
<1>21. ASSUME NEW p \in Proc, sys_read(p) PROVE ProcInv'
  BY <1>0, <1>21, ReadSleepStep DEF sys_read, Running
<1>22. ASSUME NEW p \in Proc, sys_read_resume(p) PROVE ProcInv'
  <2>1. CASE sleep_for_key(p)
    BY <1>0, <1>22, <2>1, ReadSleepStep DEF sys_read_resume
  <2>2. CASE /\ wakeup_flags' = [wakeup_flags EXCEPT ![p] = "none"]
             /\ pc' = Return(p)
             /\ UNCHANGED <<state, wait_state>>
    <3>1. PICK x \in {"run", "tail"} : Return(p) = [pc EXCEPT ![p] = x]
      BY <1>a
    <3>2. wakeup_flags'[p] = "none"
      BY <2>2 DEF ProcInv, TypeOK
    <3> QED BY <1>0, <1>22, <1>b, <2>2, <3>1, <3>2, QuietStep DEF sys_read_resume
  <2> QED BY <1>22, <2>1, <2>2 DEF sys_read_resume
<1>11. ASSUME NEW p \in Proc, do_yield(p) PROVE ProcInv'
  <2>1. PICK x \in {"run", "tail"} : Return(p) = [pc EXCEPT ![p] = x]
    BY <1>a
  <2> QED BY <1>0, <1>11, <1>b, <2>1, QuietStep DEF do_yield, Running
<1>12. ASSUME NEW p \in Proc, sys_other(p) PROVE ProcInv'
  <2>1. PICK x \in {"run", "tail"} : Return(p) = [pc EXCEPT ![p] = x]
    BY <1>a
  <2> QED BY <1>0, <1>12, <1>b, <2>1, QuietStep DEF sys_other, Running
<1>13. ASSUME NEW p \in Proc, kernel_execve(p) PROVE ProcInv'
  <2>1. pc' = [pc EXCEPT ![p] = "run"]
    BY <1>13 DEF kernel_execve, Running, ProcInv, TypeOK
  <2>2. mode'[idleproc] = mode[idleproc] /\ mode'[initproc] = mode[initproc]
    BY <1>13, ProcAssumption DEF kernel_execve, ProcInv, TypeOK
  <2> QED BY <1>0, <1>13, <1>b, <2>1, <2>2, QuietStep DEF kernel_execve, Running
<1>14. ASSUME NEW p \in Proc, init_main(p) PROVE ProcInv'
  BY <1>0, <1>14, ForkStep DEF init_main, Running
<1>15. ASSUME NEW p \in Proc, call_schedule(p) PROVE ProcInv'
  <2>1. <<pc[p], Resume[pc[p]]>> \in Returns
    BY <1>15 DEF call_schedule, Resume, Returns
  <2> QED BY <1>0, <1>15, <2>1, ScheduleStep DEF call_schedule
<1>16. ASSUME NEW p \in Proc, trap_return(p) PROVE ProcInv'
  <2>1. CASE exiting[p] /\ do_exit(p)
    BY <1>0, <1>16, <2>1, ExitStep DEF trap_return
  <2>2. CASE schedule("run")
    <3>1. <<pc[p], "run">> \in Returns
      BY <1>16 DEF trap_return, Returns
    <3> QED BY <1>0, <1>16, <2>2, <3>1, ScheduleStep DEF trap_return
  <2>3. CASE ~exiting[p] /\ ~need_resched[p]
    BY <1>0, <1>16, <1>b, <2>3, QuietStep DEF trap_return
  <2> QED BY <1>16, <2>1, <2>2, <2>3 DEF trap_return
<1>17. CASE cpu_idle
  BY <1>0, <1>17, ScheduleStep DEF cpu_idle
<1>18. CASE timer_interrupt
  BY <1>0, <1>18, TimerStep
<1>19. CASE UNCHANGED vars
  <2>1. /\ Candidates(initproc)' = Candidates(initproc)
        /\ \A p \in Proc : Candidates(p)' = Candidates(p)
    BY <1>19 DEF vars, Candidates
  <2> QED BY <1>0, <1>19, <2>1 DEF vars, ProcInv, Immortals, Shape, OnCpu, RunPoolExact,
             ParentAlive, Rooted, WaiterHasChild, StopsCleanly
<1> QED BY <1>1, <1>2, <1>3, <1>4, <1>5, <1>6, <1>7, <1>8, <1>9, <1>10, <1>11,
           <1>12, <1>13, <1>14, <1>15, <1>16, <1>17, <1>18, <1>19, <1>21, <1>22
        DEF Next, Step

(***************************************************************************)
(* The kernel keeps ProcInv.                                               *)
(***************************************************************************)
LEMMA ProcInvariance == Spec => []ProcInv
  BY ProcInit, ProcStep, PTL DEF Spec

(***************************************************************************)
(* The fields of every proc_struct keep their types.                       *)
(***************************************************************************)
THEOREM ProcTypeCorrect == Spec => []TypeOK
  BY ProcInvariance, PTL DEF ProcInv

(***************************************************************************)
(* wakeup_proc and schedule() keep the run pool exact: it holds every      *)
(* ready process that is not on the CPU, once, whatever the programs do    *)
(* and whenever the timer fires.                                           *)
(***************************************************************************)
THEOREM ProcRunPoolExact == Spec => []RunPoolExact
  BY ProcInvariance, PTL DEF ProcInv

(***************************************************************************)
(* No wake-up is lost: a process that sleeps in do_sleep has a running     *)
(* timer, one that sleeps in do_wait has a child that has not exited, one  *)
(* that sleeps in dev_stdin_read is in the queue of the keyboard.          *)
(***************************************************************************)
THEOREM ProcSleeperHasWaker == Spec => []SleeperHasWaker
<1>1. ProcInv => SleeperHasWaker
  BY DEF ProcInv, Shape, WaiterHasChild, SleeperHasWaker, wait_queue
<1> QED BY <1>1, ProcInvariance, PTL

(***************************************************************************)
(* When do_wait frees a proc_struct and its stack nothing refers to them.  *)
(***************************************************************************)
THEOREM ProcNoUseAfterFree == Spec => []NoUseAfterFree
<1>1. ProcInv => NoUseAfterFree
  <2> SUFFICES ASSUME ProcInv, NEW p \in Proc, state[p] = "FREE"
               PROVE  /\ current # p /\ rq[p] = 0
                      /\ timer[p] = 0 /\ p \notin wait_queue
                      /\ \A q \in Proc : state[q] # "FREE" => parent[q] # p
      BY DEF NoUseAfterFree
  <2>1. pc[p] = "none" /\ current # p
    BY DEF ProcInv, Shape, OnCpu
  <2>2. rq[p] = 0
    BY DEF ProcInv, RunPoolExact
  <2>3. timer[p] = 0
    <3>1. timer[p] \in Nat
      BY ProcAssumption DEF ProcInv, TypeOK
    <3> QED BY <2>1, <3>1 DEF ProcInv, Shape
  <2>4. \A q \in Proc : state[q] # "FREE" => parent[q] # p
    BY ProcAssumption DEF ProcInv, ParentAlive, Immortals
  <2>5. p \notin wait_queue
    BY <2>1 DEF ProcInv, Shape, wait_queue
  <2> QED BY <2>1, <2>2, <2>3, <2>4, <2>5
<1> QED BY <1>1, ProcInvariance, PTL

(***************************************************************************)
(* A timer in the timer list lies in the frame of a do_sleep that has not  *)
(* returned, of a process that is alive.                                   *)
(***************************************************************************)
THEOREM ProcTimerInFrame == Spec => []TimerInFrame
<1>1. ProcInv => TimerInFrame
  BY DEF ProcInv, Shape, TypeOK, TimerInFrame, Thread
<1> QED BY <1>1, ProcInvariance, PTL

(***************************************************************************)
(* do_exit leaves no process without a parent that can wait for it.        *)
(***************************************************************************)
THEOREM ProcParentAlive == Spec => []ParentAlive
  BY ProcInvariance, PTL DEF ProcInv

(***************************************************************************)
(* No assertion fails, and init_main ends only when it was killed or       *)
(* nobody else is left.                                                    *)
(***************************************************************************)
THEOREM ProcStopsCleanly == Spec => []StopsCleanly
  BY ProcInvariance, PTL DEF ProcInv

(***************************************************************************)
(* A process that has exited stays a zombie until its parent frees it in   *)
(* do_wait, and never gets the CPU back: the code after the schedule() of  *)
(* do_exit is not reached.                                                 *)
(***************************************************************************)
THEOREM ProcZombieOnlyReaped == Spec => ZombieOnlyReaped
<1> DEFINE Kept(p) == /\ state'[p] = "ZOMBIE"
                      /\ current # p => current' # p
           Reaped(p) == /\ state'[p] = "FREE"
                        /\ current = parent[p] /\ pc[current] = "wait"
                        /\ current' = current
           A == \A p \in Proc :
                   state[p] = "ZOMBIE" =>
                      /\ \/ state'[p] = "ZOMBIE"
                         \/ /\ state'[p] = "FREE"
                            /\ current = parent[p] /\ pc[current] = "wait"
                      /\ current # p => current' # p
<1>1. ProcInv /\ [Next]_vars => [A]_vars
  <2> SUFFICES ASSUME ProcInv, Next, NEW z \in Proc, state[z] = "ZOMBIE"
               PROVE  Kept(z) \/ Reaped(z)
      BY DEF vars
  <2> USE ProcAssumption
  <2>0. /\ TypeOK /\ RunPoolExact /\ z \in Thread
        /\ wait_state[z] = "0" /\ timer[z] = 0 /\ wakeup_flags[z] = "none"
        /\ pc[z] \in {"s_exit", "dead"}
    <3>1. timer[z] \in Nat
      BY DEF ProcInv, TypeOK
    <3> QED BY <3>1 DEF ProcInv, Shape, Thread
  <2>1. ASSUME current' = current, state' = state PROVE Kept(z)
    BY <2>1
  <2>2. ASSUME NEW ret, schedule(ret) PROVE Kept(z)
    BY <2>0, <2>2, ScheduleEffect
  <2>3. ASSUME current' = current, NEW W \in SUBSET Thread, z \notin W,
               NEW st \in [Thread -> States], st[z] = "ZOMBIE",
               NEW ts, wakeup_procs(W, st, ts)
        PROVE  Kept(z)
    BY <2>0, <2>3, WakeupEffect
  <2>4. ASSUME NEW p \in Proc, do_exit(p) PROVE Kept(z)
    <3> DEFINE st == [state EXCEPT ![p] = "ZOMBIE"]
    <3>1. CASE p = initproc
      BY <2>1, <2>4, <3>1 DEF do_exit
    <3>2. CASE p # initproc
      <4>1. st \in [Thread -> States] /\ st[z] = "ZOMBIE"
        BY <2>0 DEF TypeOK, States
      <4>2. ExitWakes(p) \in SUBSET Thread /\ z \notin ExitWakes(p)
        BY <2>0 DEF ExitWakes, TypeOK, Thread
      <4>3. current' = current /\ wakeup_procs(ExitWakes(p), st, time_slice)
        BY <2>4, <3>2 DEF do_exit
      <4> HIDE DEF st, Kept
      <4> QED BY <2>3, <4>1, <4>2, <4>3
    <3> QED BY <3>1, <3>2
  <2>5. ASSUME NEW p \in Proc, NEW child \in Proc, NEW next, do_fork(p, child, next)
        PROVE  Kept(z)
    <3>1. z \notin {child} /\ {child} \in SUBSET Thread /\ state \in [Thread -> States]
      BY <2>0, <2>5 DEF do_fork, TypeOK, States, Thread
    <3>2. current' = current /\ wakeup_procs({child}, state, time_slice)
      BY <2>5 DEF do_fork
    <3> HIDE DEF Kept
    <3> QED BY <2>3, <3>1, <3>2
  <2>6. ASSUME NEW p \in Proc, sys_kill(p) PROVE Kept(z)
    <3>1. PICK q \in Proc :
            wakeup_procs({t \in {q} : ~exiting[t] /\ wait_state[t] \in WT_INTERRUPTED},
                         state, time_slice)
      BY <2>6 DEF sys_kill
    <3> DEFINE W == {t \in {q} : ~exiting[t] /\ wait_state[t] \in WT_INTERRUPTED}
    <3>2. /\ W \in SUBSET Thread /\ z \notin W /\ state \in [Thread -> States]
          /\ wakeup_procs(W, state, time_slice)
      BY <2>0, <3>1 DEF WT_INTERRUPTED, Thread, TypeOK, States
    <3>3. current' = current
      BY <2>6 DEF sys_kill
    <3> HIDE DEF W, Kept
    <3> QED BY <2>3, <3>2, <3>3
  <2>7. ASSUME timer_interrupt PROVE Kept(z)
    <3>0. PICK typed \in BOOLEAN : tick(typed)
      BY <2>7 DEF timer_interrupt
    <3> DEFINE W == Expired \cup (IF typed THEN wait_queue ELSE {})
    <3>1. PICK ts : wakeup_procs(W, state, ts)
      BY <3>0 DEF tick
    <3>2. W \in SUBSET Thread /\ z \notin W /\ state \in [Thread -> States]
      BY <2>0 DEF Expired, wait_queue, Thread, TypeOK, States
    <3>3. current' = current
      BY <3>0 DEF tick
    <3> HIDE DEF Kept, W
    <3> QED BY <2>3, <3>1, <3>2, <3>3
  <2>8. ASSUME NEW p \in Proc, do_wait_found(p) PROVE Kept(z) \/ Reaped(z)
    <3>1. PICK q \in Candidates(p) : state' = [state EXCEPT ![q] = "FREE"]
      BY <2>8 DEF do_wait_found
    <3>2. current' = current /\ current = p /\ pc[p] = "wait"
      BY <2>8 DEF do_wait_found
    <3>3. CASE q = z
      BY <2>0, <3>1, <3>2, <3>3 DEF Candidates, TypeOK
    <3>4. CASE q # z
      BY <2>0, <3>1, <3>2, <3>4 DEF Candidates, TypeOK
    <3> QED BY <3>3, <3>4
  <2>9. ASSUME NEW p \in Proc, do_wait_sleep(p) \/ do_sleep(p) PROVE Kept(z)
    <3>1. current = p /\ pc[p] \in {"wait", "run"}
      BY <2>9 DEF do_wait_sleep, do_sleep, Running
    <3>2. p # z
      BY <2>0, <3>1
    <3>3. state' = [state EXCEPT ![p] = "SLEEPING"] /\ current' = current
      BY <2>9 DEF do_wait_sleep, do_sleep
    <3> QED BY <2>0, <3>2, <3>3 DEF TypeOK
  <2>12. ASSUME NEW p \in Proc, sys_read(p) \/ sys_read_resume(p) PROVE Kept(z)
    <3>1. current = p /\ pc[p] \in {"run", "r_read"} /\ current' = current
      BY <2>12 DEF sys_read, sys_read_resume, Running
    <3>2. p # z
      BY <2>0, <3>1
    <3>3. state' = state \/ state' = [state EXCEPT ![p] = "SLEEPING"]
      BY <2>12 DEF sys_read, sys_read_resume, sleep_for_key
    <3> QED BY <2>0, <3>1, <3>2, <3>3 DEF TypeOK
  <2>10. ASSUME NEW p \in Proc, Step(p) PROVE Kept(z) \/ Reaped(z)
    <3> HIDE DEF Kept, Reaped
    <3>1. CASE sys_fork(p) \/ init_main(p)
      BY <2>5, <3>1 DEF sys_fork, init_main
    <3>2. CASE sys_exit(p)
      BY <2>4, <3>2 DEF sys_exit
    <3>3. CASE do_wait_resume(p)
      BY <2>1, <2>4, <3>3 DEF do_wait_resume
    <3>4. CASE trap_return(p)
      BY <2>1, <2>2, <2>4, <3>4 DEF trap_return
    <3>5. CASE call_schedule(p)
      BY <2>2, <3>5 DEF call_schedule
    <3>6. CASE sys_wait(p) \/ do_wait_nokid(p) \/ do_sleep_resume(p) \/ do_yield(p)
      BY <2>1, <3>6 DEF sys_wait, do_wait_nokid, do_sleep_resume, do_yield
    <3>7. CASE sys_other(p) \/ kernel_execve(p)
      BY <2>1, <3>7 DEF sys_other, kernel_execve
    <3> QED BY <2>6, <2>8, <2>9, <2>10, <2>12, <3>1, <3>2, <3>3, <3>4, <3>5, <3>6, <3>7
            DEF Step
  <2>11. CASE cpu_idle
    <3> HIDE DEF Kept
    <3> QED BY <2>2, <2>11 DEF cpu_idle
  <2> HIDE DEF Kept, Reaped
  <2> QED BY <2>7, <2>10, <2>11 DEF Next
<1> QED BY <1>1, ProcInvariance, PTL DEF Spec, ZombieOnlyReaped
=============================================================================
