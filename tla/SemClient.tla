----------------------------- MODULE SemClient -----------------------------
(***************************************************************************)
(* The contract of one semaphore: threads that call down(), try_down() and *)
(* up() around a section that at most Permits of them may be in.           *)
(***************************************************************************)
EXTENDS SemOps

CONSTANTS S,       \* the semaphore, a member of Sem
          Permits  \* its initial value

VARIABLE inside    \* the thread has called down() or won try_down(), no up() yet

clientvars == <<value, wait_queue, blocked, inside>>

ClientInit == /\ sem_init([s \in Sem |-> Permits])
              /\ inside = [t \in Thread |-> FALSE]

Acquire(t) == /\ ~inside[t]
              /\ down(t, S)
              /\ inside' = [inside EXCEPT ![t] = TRUE]

TryAcquire(t) == /\ ~inside[t]
                 /\ value[S] > 0
                 /\ value' = [value EXCEPT ![S] = @ - 1]
                 /\ inside' = [inside EXCEPT ![t] = TRUE]
                 /\ UNCHANGED <<wait_queue, blocked>>

Release(t) == /\ inside[t] /\ ~blocked[t]
              /\ up(S)
              /\ inside' = [inside EXCEPT ![t] = FALSE]

ClientNext == \E t \in Thread : Acquire(t) \/ TryAcquire(t) \/ Release(t)

ClientSpec == ClientInit /\ [][ClientNext]_clientvars
=============================================================================
