-------------------------- MODULE SemaphoreProofs --------------------------
(***************************************************************************)
(* Proofs about module Semaphore, for every finite set of threads and      *)
(* every initial value.                                                    *)
(***************************************************************************)
EXTENDS Semaphore, FiniteSetTheorems, TLAPS

\* Each thread is linked in the queue at most once.
QueueInjective ==
    \A i, j \in 1 .. Len(wait_queue) : wait_queue[i] = wait_queue[j] => i = j

(***************************************************************************)
(* What a thread's fields say about where it is: a sleeper is in __down,   *)
(* on WT_KSEM; a thread in __down that is ready was woken by up().         *)
(***************************************************************************)
SleeperShape ==
    \A t \in Thread :
        /\ state[t] = "SLEEPING" => pc[t] = "sleep" /\ wait_state[t] = "WT_KSEM"
        /\ state[t] = "RUNNABLE" => wait_state[t] = "0"
        /\ pc[t] = "sleep" /\ state[t] = "RUNNABLE" => wakeup_flags[t] = "WT_KSEM"

\* The inductive invariant.
SemInv == /\ TypeOK
          /\ QueueInjective
          /\ SleeperShape
          /\ NoStrandedWaiter
          /\ AssertionsHold

(***************************************************************************)
(* SemInv holds when sem_init has run.                                     *)
(***************************************************************************)
LEMMA SemInit == Init => SemInv
<1> SUFFICES ASSUME Init PROVE SemInv
    OBVIOUS
<1> USE DEF Init
<1>1. /\ value \in Nat /\ wait_queue \in Seq(Thread) /\ Len(wait_queue) = 0
  BY SemAssumption
<1>2. TypeOK
  BY <1>1 DEF TypeOK
<1>3. QueueInjective /\ NoStrandedWaiter
  BY <1>1 DEF QueueInjective, NoStrandedWaiter, Linked
<1>4. SleeperShape
  BY DEF SleeperShape
<1>5. AssertionsHold
  BY DEF AssertionsHold
<1> QED BY <1>2, <1>3, <1>4, <1>5 DEF SemInv

(***************************************************************************)
(* What a down() without a permit does to the queue: it adds the caller,   *)
(* who was not in it.                                                      *)
(***************************************************************************)
LEMMA DownQueues ==
  ASSUME SemInv, NEW t \in Thread, down(t), ~Available
  PROVE  /\ wait_current_set(t, "WT_KSEM")
         /\ wait_queue' = Append(wait_queue, t) /\ wait_queue' \in Seq(Thread)
         /\ Len(wait_queue') = Len(wait_queue) + 1
         /\ state[t] = "RUNNABLE" /\ ~Linked(t) /\ value = 0
         /\ \A u \in Thread : Linked(u)' <=> Linked(u) \/ u = t
<1> USE DEF SemInv, TypeOK
<1>1. wait_current_set(t, "WT_KSEM")
  BY DEF down
<1>2. /\ wait_queue' = Append(wait_queue, t) /\ wait_queue' \in Seq(Thread)
      /\ Len(wait_queue') = Len(wait_queue) + 1
  BY <1>1 DEF wait_current_set, LinkLast
<1>3. state[t] = "RUNNABLE" /\ ~Linked(t) /\ value = 0
  BY DEF down, SleeperShape, NoStrandedWaiter, Available
<1>4. \A u \in Thread : Linked(u)' <=> Linked(u) \/ u = t
  BY <1>2 DEF Linked
<1> QED BY <1>1, <1>2, <1>3, <1>4

(***************************************************************************)
(* What an up() with a waiter does to the queue: it takes out the head, a  *)
(* sleeper, and nobody else.                                               *)
(***************************************************************************)
LEMMA UpHandsOver ==
  ASSUME SemInv, NEW t \in Thread, up(t), wait_queue # <<>>,
         NEW w, w = Head(wait_queue)
  PROVE  /\ w \in Thread /\ w = wait_queue[1]
         /\ wait_queue' = Tail(wait_queue) /\ wait_queue' \in Seq(Thread)
         /\ Linked(w) /\ value = 0 /\ state[w] = "SLEEPING"
         /\ \A u \in Thread : Linked(u)' <=> Linked(u) /\ u # w
<1> USE DEF SemInv, TypeOK
<1>1. w \in Thread /\ w = wait_queue[1] /\ 1 \in 1 .. Len(wait_queue)
  OBVIOUS
<1>2. Linked(w) /\ value = 0 /\ state[w] = "SLEEPING"
  BY <1>1 DEF Linked, NoStrandedWaiter
<1>3. wait_queue' = Tail(wait_queue)
  BY DEF up, wait_queue_empty
<1>4. wait_queue' \in Seq(Thread)
  BY <1>3
<1>5. Len(wait_queue') = Len(wait_queue) - 1 /\ Len(wait_queue) \in Nat
  BY <1>3
<1>6. \A i \in 1 .. Len(wait_queue') : wait_queue'[i] = wait_queue[i + 1]
  BY <1>3
<1>7. ASSUME NEW u \in Thread, Linked(u)' PROVE Linked(u) /\ u # w
  <2>1. PICK i \in 1 .. Len(wait_queue') : wait_queue'[i] = u
    BY <1>7 DEF Linked
  <2>2. i + 1 \in 1 .. Len(wait_queue) /\ wait_queue[i + 1] = u /\ i + 1 # 1
    BY <1>5, <1>6, <2>1
  <2> QED BY <1>1, <2>2 DEF Linked, QueueInjective
<1>8. ASSUME NEW u \in Thread, Linked(u), u # w PROVE Linked(u)'
  <2>1. PICK i \in 1 .. Len(wait_queue) : wait_queue[i] = u
    BY <1>8 DEF Linked
  <2>2. i - 1 \in 1 .. Len(wait_queue') /\ wait_queue'[i - 1] = u
    BY <1>1, <1>5, <1>6, <1>8, <2>1
  <2> QED BY <2>2 DEF Linked
<1> QED BY <1>1, <1>2, <1>3, <1>4, <1>7, <1>8

(***************************************************************************)
(* Every step of sem.c and do_kill keeps SemInv.                           *)
(***************************************************************************)
LEMMA SemStep == SemInv /\ [Next]_vars => SemInv'
<1> SUFFICES ASSUME SemInv, [Next]_vars PROVE SemInv'
    OBVIOUS
<1> USE DEF SemInv, TypeOK
<1>1. ASSUME NEW t \in Thread, down(t) PROVE SemInv'
  <2>1. CASE Available
    <3>1. /\ value > 0 /\ value' = value - 1
          /\ pc[t] = "out" /\ pc' = [pc EXCEPT ![t] = "in"]
          /\ UNCHANGED <<wait_queue, state, wait_state, wakeup_flags, panic, killed>>
      BY <1>1, <2>1 DEF down, Available
    <3> QED BY <3>1 DEF QueueInjective, SleeperShape, NoStrandedWaiter,
               AssertionsHold, Linked
  <2>2. CASE ~Available
    <3>1. /\ wait_queue' = Append(wait_queue, t) /\ wait_queue' \in Seq(Thread)
          /\ Len(wait_queue') = Len(wait_queue) + 1
          /\ state[t] = "RUNNABLE" /\ ~Linked(t) /\ value = 0
      BY <1>1, <2>2, DownQueues
    <3>2. \A u \in Thread : Linked(u)' <=> Linked(u) \/ u = t
      BY <1>1, <2>2, DownQueues
    <3>3. TypeOK'
      BY <1>1, <2>2, <3>1, <3>2 DEF down, wait_current_set, AssertionsHold
    <3>4. QueueInjective'
      BY <3>1 DEF QueueInjective, Linked
    <3>5. SleeperShape'
      BY <1>1, <2>2 DEF down, wait_current_set, SleeperShape
    <3>7. NoStrandedWaiter'
      BY <1>1, <2>2, <3>1, <3>2 DEF down, wait_current_set, NoStrandedWaiter
    <3>8. AssertionsHold'
      BY <1>1, <2>2, <3>1 DEF down, wait_current_set, AssertionsHold
    <3> QED BY <3>3, <3>4, <3>5, <3>7, <3>8
  <2> QED BY <2>1, <2>2
<1>2. ASSUME NEW t \in Thread, down_resume(t) PROVE SemInv'
  <2>1. ~Linked(t) /\ wait_queue' = wait_queue
    BY <1>2 DEF down_resume, NoStrandedWaiter
  <2> QED BY <1>2, <2>1 DEF down_resume, QueueInjective, SleeperShape,
             NoStrandedWaiter, AssertionsHold, Linked
<1>3. ASSUME NEW t \in Thread, try_down(t) PROVE SemInv'
  BY <1>3 DEF try_down, Available, QueueInjective, SleeperShape, NoStrandedWaiter,
     AssertionsHold, Linked
<1>4. ASSUME NEW t \in Thread, up(t) PROVE SemInv'
  <2>1. CASE wait_queue = <<>>
    BY <1>4, <2>1 DEF up, wait_queue_empty, QueueInjective, SleeperShape,
       NoStrandedWaiter, AssertionsHold, Linked
  <2>2. CASE wait_queue # <<>>
    <3> DEFINE w == Head(wait_queue)
    <3>1. /\ w \in Thread /\ w = wait_queue[1]
          /\ wait_queue' = Tail(wait_queue) /\ wait_queue' \in Seq(Thread)
          /\ Linked(w) /\ value = 0 /\ state[w] = "SLEEPING"
      BY <1>4, <2>2, UpHandsOver
    <3>2. \A u \in Thread : Linked(u)' <=> Linked(u) /\ u # w
      BY <1>4, <2>2, UpHandsOver
    <3>3. TypeOK'
      BY <1>4, <2>2, <3>1 DEF up, wait_queue_empty, wakeup_proc, CountedOnHandOver, AssertionsHold
    <3>4. QueueInjective'
      BY <2>2, <3>1 DEF QueueInjective
    <3>5. SleeperShape'
      BY <1>4, <2>2, <3>1 DEF up, wait_queue_empty, wakeup_proc, SleeperShape
    <3>6. NoStrandedWaiter'
      BY <1>4, <2>2, <3>1, <3>2
         DEF up, wait_queue_empty, wakeup_proc, CountedOnHandOver, NoStrandedWaiter
    <3>7. AssertionsHold'
      BY <1>4, <2>2, <3>1 DEF up, wait_queue_empty, AssertionsHold, SleeperShape
    <3> QED BY <3>3, <3>4, <3>5, <3>6, <3>7
  <2> QED BY <2>1, <2>2
<1>5. ASSUME NEW t \in Thread, do_kill(t) PROVE SemInv'
  <2>1. wait_state[t] \notin Interruptible
    BY DEF Interruptible
  <2> QED BY <1>5, <2>1 DEF do_kill, QueueInjective, SleeperShape,
             NoStrandedWaiter, AssertionsHold, Linked
<1>6. CASE UNCHANGED vars
  BY <1>6 DEF vars, QueueInjective, SleeperShape, NoStrandedWaiter,
     AssertionsHold, Linked
<1> QED BY <1>1, <1>2, <1>3, <1>4, <1>5, <1>6 DEF Next

(***************************************************************************)
(* sem.c keeps SemInv.                                                     *)
(***************************************************************************)
LEMMA SemInvariance == Spec => []SemInv
  BY SemInit, SemStep, PTL DEF Spec

(***************************************************************************)
(* The value of a semaphore never goes below 0, and all its fields keep    *)
(* their types.                                                            *)
(***************************************************************************)
THEOREM SemTypeCorrect == Spec => []TypeOK
  BY SemInvariance, PTL DEF SemInv

(***************************************************************************)
(* A permit is never free while a thread sleeps for one, and every sleeper *)
(* is linked, once: an up() finds it.                                      *)
(***************************************************************************)
THEOREM SemNoStrandedWaiter == Spec => []NoStrandedWaiter
  BY SemInvariance, PTL DEF SemInv

(***************************************************************************)
(* The assertions of down(), __up and wait_queue_add never fail, with any  *)
(* number of kills at any time.                                            *)
(***************************************************************************)
THEOREM SemAssertions == Spec => []AssertionsHold
  BY SemInvariance, PTL DEF SemInv

----------------------------------------------------------------------------
Owners == {t \in Thread : Owner(t)}

\* The inductive invariant for the permits.
PermitInv == SemInv /\ PermitsConserved

(***************************************************************************)
(* Every step keeps the sum of the free permits and the owners: down()     *)
(* takes one and makes the caller an owner, up() gives one back, or makes  *)
(* the first waiter an owner in the caller's place.                        *)
(***************************************************************************)
LEMMA PermitStep == PermitInv /\ [Next]_vars => PermitsConserved'
<1> SUFFICES ASSUME PermitInv, [Next]_vars PROVE PermitsConserved'
    OBVIOUS
<1> USE DEF PermitInv
<1>0. /\ IsFiniteSet(Owners) /\ Cardinality(Owners) \in Nat /\ value \in Nat
      /\ value + Cardinality(Owners) = Permits /\ Permits \in Nat
  BY FS_Subset, FS_CardinalityType, SemAssumption
     DEF Owners, PermitsConserved, SemInv, TypeOK
<1>a. PermitsConserved' <=> value' + Cardinality(Owners') = Permits
  BY DEF PermitsConserved, Owners
<1>b. ASSUME NEW t \in Thread, value > 0, value' = value - 1, pc[t] = "out",
             pc' = [pc EXCEPT ![t] = "in"], wait_queue' = wait_queue
      PROVE  PermitsConserved'
  <2>1. t \notin Owners /\ Owners' = Owners \cup {t}
    BY <1>b DEF Owners, Owner, Linked, SemInv, TypeOK
  <2>2. Cardinality(Owners') = Cardinality(Owners) + 1
    BY <1>0, <2>1, FS_AddElement
  <2> QED BY <1>0, <1>a, <1>b, <2>2
<1>c. ASSUME value' = value, Owners' = Owners PROVE PermitsConserved'
  BY <1>0, <1>a, <1>c
<1>1. ASSUME NEW t \in Thread, down(t) PROVE PermitsConserved'
  <2>1. CASE Available
    BY <1>1, <1>b, <2>1 DEF down, Available
  <2>2. CASE ~Available
    <3>1. /\ ~Linked(t) /\ pc[t] = "out" /\ pc' = [pc EXCEPT ![t] = "sleep"]
          /\ value' = value /\ \A u \in Thread : Linked(u)' <=> Linked(u) \/ u = t
      BY <1>1, <2>2, DownQueues DEF down
    <3>2. Owners' = Owners
      BY <3>1 DEF Owners, Owner, SemInv, TypeOK
    <3> QED BY <1>c, <3>1, <3>2
  <2> QED BY <2>1, <2>2
<1>2. ASSUME NEW t \in Thread, down_resume(t) PROVE PermitsConserved'
  <2>1. ~Linked(t) /\ wait_queue' = wait_queue
    BY <1>2 DEF down_resume, SemInv, TypeOK, NoStrandedWaiter
  <2>2. Owners' = Owners
    BY <1>2, <2>1 DEF down_resume, Owners, Owner, Linked, SemInv, TypeOK
  <2> QED BY <1>2, <1>c, <2>2 DEF down_resume
<1>3. ASSUME NEW t \in Thread, try_down(t) PROVE PermitsConserved'
  BY <1>3, <1>b DEF try_down, Available
<1>4. ASSUME NEW t \in Thread, up(t) PROVE PermitsConserved'
  <2>0. t \in Owners
    BY <1>4 DEF up, Owners, Owner
  <2>1. CASE wait_queue = <<>>
    <3>1. value' = value + 1 /\ wait_queue' = wait_queue /\ pc' = [pc EXCEPT ![t] = "out"]
      BY <1>4, <2>1 DEF up, wait_queue_empty
    <3>2. Owners' = Owners \ {t}
      BY <3>1 DEF Owners, Owner, Linked, SemInv, TypeOK
    <3>3. Cardinality(Owners') = Cardinality(Owners) - 1
      BY <1>0, <2>0, <3>2, FS_RemoveElement
    <3> QED BY <1>0, <1>a, <3>1, <3>3
  <2>2. CASE wait_queue # <<>>
    <3> DEFINE w == Head(wait_queue)
    <3>1. /\ w \in Thread /\ Linked(w) /\ state[w] = "SLEEPING"
          /\ \A u \in Thread : Linked(u)' <=> Linked(u) /\ u # w
      BY <1>4, <2>2, UpHandsOver
    <3>2. value' = value /\ pc[t] = "in" /\ pc' = [pc EXCEPT ![t] = "out"]
      BY <1>4, <2>2 DEF up, wait_queue_empty, CountedOnHandOver
    <3>3. pc[w] = "sleep" /\ w # t /\ w \notin Owners
      BY <3>1, <3>2 DEF SemInv, SleeperShape, Owners, Owner
    <3> HIDE DEF w
    <3>4. Owners' = (Owners \ {t}) \cup {w}
      BY <3>1, <3>2, <3>3 DEF Owners, Owner, SemInv, TypeOK
    <3>5. /\ IsFiniteSet(Owners \ {t})
          /\ Cardinality(Owners \ {t}) = Cardinality(Owners) - 1
      BY <1>0, <2>0, FS_RemoveElement
    <3>6. Cardinality(Owners') = Cardinality(Owners \ {t}) + 1
      BY <3>3, <3>4, <3>5, FS_AddElement
    <3> QED BY <1>0, <1>a, <3>2, <3>5, <3>6
  <2> QED BY <2>1, <2>2
<1>5. ASSUME NEW t \in Thread, do_kill(t) PROVE PermitsConserved'
  BY <1>5, <1>c DEF do_kill, Owners, Owner, Linked
<1>6. CASE UNCHANGED vars
  BY <1>6, <1>c DEF vars, Owners, Owner, Linked
<1> QED BY <1>1, <1>2, <1>3, <1>4, <1>5, <1>6 DEF Next

(***************************************************************************)
(* No permit is lost or made, for any number of threads and permits and    *)
(* with kills at any time: at most Permits threads are ever inside.        *)
(***************************************************************************)
THEOREM SemPermitsConserved == Spec => []PermitsConserved
<1>1. Init => PermitsConserved
  <2> SUFFICES ASSUME Init PROVE PermitsConserved
      OBVIOUS
  <2>1. {t \in Thread : Owner(t)} = {}
    BY DEF Init, Owner
  <2>2. Cardinality({t \in Thread : Owner(t)}) = 0
    BY <2>1, FS_EmptySet
  <2> QED BY <2>2, SemAssumption DEF Init, PermitsConserved
<1>2. PermitInv /\ [Next]_vars => PermitInv'
  BY SemStep, PermitStep DEF PermitInv
<1>3. Init => PermitInv
  BY SemInit, <1>1 DEF PermitInv
<1>4. PermitInv => PermitsConserved
  BY DEF PermitInv
<1> QED BY <1>2, <1>3, <1>4, PTL DEF Spec

(***************************************************************************)
(* First come, first served, as a property of every step: no newcomer gets *)
(* in past the queue, and only its head leaves it.                         *)
(***************************************************************************)
THEOREM SemNoOvertaking == Spec => NoOvertaking
<1> DEFINE A == wait_queue # <<>> =>
          /\ \A t \in Thread : pc[t] = "out" => pc'[t] # "in"
          /\ \/ \E t \in Thread : wait_queue' = Append(wait_queue, t)
             \/ wait_queue' = Tail(wait_queue)
             \/ wait_queue' = wait_queue
<1>1. SemInv /\ [Next]_vars => [A]_vars
  <2> SUFFICES ASSUME SemInv, Next, wait_queue # <<>> PROVE A
      BY DEF vars
  <2>0. value = 0
    BY DEF SemInv, NoStrandedWaiter
  <2> USE DEF SemInv, TypeOK
  <2>1. ASSUME NEW t \in Thread, down(t) PROVE A
    <3>1. ~Available
      BY <2>0 DEF Available
    <3>2. wait_queue' = Append(wait_queue, t)
      BY <2>1, <3>1, DownQueues
    <3> QED BY <2>1, <3>1, <3>2 DEF down
  <2>2. ASSUME NEW t \in Thread, down_resume(t) PROVE A
    BY <2>2 DEF down_resume, NoStrandedWaiter
  <2>3. ASSUME NEW t \in Thread, try_down(t) PROVE A
    BY <2>0, <2>3 DEF try_down, Available
  <2>4. ASSUME NEW t \in Thread, up(t) PROVE A
    BY <2>4 DEF up, wait_queue_empty
  <2>5. ASSUME NEW t \in Thread, do_kill(t) PROVE A
    BY <2>5 DEF do_kill
  <2> QED BY <2>1, <2>2, <2>3, <2>4, <2>5 DEF Next
<1> QED BY <1>1, SemInvariance, PTL DEF Spec, NoOvertaking

(***************************************************************************)
(* sem.c over wait.c implements the contract SemClient, which modules      *)
(* Monitor and PhilCondvar are built on: with kills, wake-up flags and     *)
(* wait_t records the semaphore behaves as a counter and a FIFO queue.     *)
(***************************************************************************)
THEOREM SemImplementsContract == Spec => ImplementsContract
<1> DEFINE bval == [s \in {"s"} |-> value]
           bque == [s \in {"s"} |-> wait_queue]
           bblk == [t \in Thread |-> state[t] = "SLEEPING"]
           bins == [t \in Thread |-> pc[t] # "out"]
<1>1. Init => Contract!ClientInit
  BY DEF Init, Contract!ClientInit, Contract!sem_init
<1>2. SemInv /\ [Next]_vars => [Contract!ClientNext]_(Contract!clientvars)
  <2> SUFFICES ASSUME SemInv, [Next]_vars
               PROVE  Contract!ClientNext \/ UNCHANGED Contract!clientvars
      OBVIOUS
  <2> USE DEF SemInv, TypeOK
  <2>0. ASSUME NEW t \in Thread, value > 0, value' = value - 1, pc[t] = "out",
               pc' = [pc EXCEPT ![t] = "in"], UNCHANGED <<wait_queue, state>>
        PROVE  Contract!TryAcquire(t)
    <3>1. bins' = [bins EXCEPT ![t] = TRUE] /\ ~bins[t]
      BY <2>0
    <3>2. bval' = [bval EXCEPT !["s"] = @ - 1] /\ bval["s"] > 0
      BY <2>0
    <3>3. bque' = bque /\ bblk' = bblk
      BY <2>0
    <3> QED BY <3>1, <3>2, <3>3 DEF Contract!TryAcquire
  <2>1. ASSUME NEW t \in Thread, down(t) PROVE Contract!ClientNext
    <3>1. CASE Available
      BY <2>0, <2>1, <3>1 DEF down, Available, Contract!ClientNext
    <3>2. CASE ~Available
      <4>1. /\ value = 0 /\ value' = value /\ pc[t] = "out"
            /\ wait_queue' = Append(wait_queue, t)
            /\ state' = [state EXCEPT ![t] = "SLEEPING"]
            /\ pc' = [pc EXCEPT ![t] = "sleep"]
        BY <2>1, <3>2, DownQueues DEF down, wait_current_set
      <4>2. bins' = [bins EXCEPT ![t] = TRUE] /\ ~bins[t]
        BY <4>1
      <4>3. bblk' = [bblk EXCEPT ![t] = TRUE]
        BY <4>1
      <4>4. bval' = bval /\ ~(bval["s"] > 0)
        BY <4>1
      <4>5. bque' = [bque EXCEPT !["s"] = Append(@, t)]
        BY <4>1
      <4>6. Contract!Acquire(t)
        BY <4>2, <4>3, <4>4, <4>5 DEF Contract!Acquire, Contract!down
      <4> QED BY <4>6 DEF Contract!ClientNext
    <3> QED BY <3>1, <3>2
  <2>2. ASSUME NEW t \in Thread, down_resume(t) PROVE UNCHANGED Contract!clientvars
    <3>1. wait_queue' = wait_queue /\ value' = value /\ state' = state
      BY <2>2 DEF down_resume, NoStrandedWaiter
    <3>2. bins' = bins
      BY <2>2 DEF down_resume
    <3> QED BY <3>1, <3>2 DEF Contract!clientvars
  <2>3. ASSUME NEW t \in Thread, try_down(t) PROVE Contract!ClientNext
    BY <2>0, <2>3 DEF try_down, Available, Contract!ClientNext
  <2>4. ASSUME NEW t \in Thread, up(t) PROVE Contract!ClientNext
    <3>1. /\ bins' = [bins EXCEPT ![t] = FALSE] /\ bins[t] /\ ~bblk[t]
      BY <2>4 DEF up, SleeperShape
    <3>2. CASE wait_queue = <<>>
      <4>1. value' = value + 1 /\ wait_queue' = wait_queue /\ state' = state
        BY <2>4, <3>2 DEF up, wait_queue_empty
      <4>2. /\ bval' = [bval EXCEPT !["s"] = @ + 1]
            /\ bque' = bque /\ bblk' = bblk /\ bque["s"] = <<>>
        BY <4>1, <3>2
      <4>3. Contract!Release(t)
        BY <3>1, <4>2 DEF Contract!Release, Contract!up
      <4> QED BY <4>3 DEF Contract!ClientNext
    <3>3. CASE wait_queue # <<>>
      <4>1. /\ value' = value /\ wait_queue' = Tail(wait_queue)
            /\ Head(wait_queue) \in Thread
            /\ state' = [state EXCEPT ![Head(wait_queue)] = "RUNNABLE"]
        BY <2>4, <3>3, UpHandsOver DEF up, wait_queue_empty, CountedOnHandOver, wakeup_proc
      <4>2. bblk' = [bblk EXCEPT ![Head(bque["s"])] = FALSE]
        BY <4>1
      <4>3. bval' = bval /\ bque' = [bque EXCEPT !["s"] = Tail(@)] /\ bque["s"] # <<>>
        BY <3>3, <4>1
      <4>4. Contract!Release(t)
        BY <3>1, <4>2, <4>3 DEF Contract!Release, Contract!up
      <4> QED BY <4>4 DEF Contract!ClientNext
    <3> QED BY <3>2, <3>3
  <2>5. ASSUME NEW t \in Thread, do_kill(t) PROVE UNCHANGED Contract!clientvars
    <3>1. wait_state[t] \notin Interruptible
      BY DEF Interruptible
    <3> QED BY <2>5, <3>1 DEF do_kill, Contract!clientvars
  <2>6. CASE UNCHANGED vars
    BY <2>6 DEF vars, Contract!clientvars
  <2> QED BY <2>1, <2>2, <2>3, <2>4, <2>5, <2>6 DEF Next
<1> QED BY <1>1, <1>2, SemInvariance, PTL DEF Spec, ImplementsContract, Contract!ClientSpec
=============================================================================
