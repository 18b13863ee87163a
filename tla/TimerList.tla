----------------------------- MODULE TimerList -----------------------------
(***************************************************************************)
(* The timer list of kern/schedule/sched.c (lab8): the timers in the order *)
(* they go off, each with the number of ticks AFTER the one before it, as  *)
(* unsigned integers.  add_timer, del_timer and run_timer_list run with    *)
(* interrupts off, so each is one step.                                    *)
(***************************************************************************)
EXTENDS Integers, Sequences, SequencesExt

CONSTANTS Proc,        \* the processes, each with at most one timer (do_sleep)
          MaxExpires   \* the largest timer_t.expires, 2^32 - 1 in the code

ASSUME TimerAssumption == MaxExpires \in Nat \ {0}

VARIABLES timer_list,  \* the sequence of [proc, expires]
          fired,       \* the processes woken by the last step
          panic        \* an assertion has failed

vars == <<timer_list, fired, panic>>

Init == timer_list = <<>> /\ fired = {} /\ panic = FALSE

Position(p) == {i \in 1 .. Len(timer_list) : timer_list[i].proc = p}

\* When each timer goes off: the ticks of all that lie on the way to it.
When(list) ==
    LET sum[i \in 0 .. Len(list)] ==
            IF i = 0 THEN 0 ELSE sum[i - 1] + list[i].expires
    IN  sum

(***************************************************************************)
(* add_timer: walk while the timer goes off no earlier than the next one,  *)
(* taking off what the walk passes; link it there and make the next one    *)
(* relative to it.                                                         *)
(***************************************************************************)
add_timer(p, n) ==
    LET rest(i) == n - When(timer_list)[i]     \* of n, after i timers
    IN  /\ Position(p) = {}
        /\ \E k \in 1 .. Len(timer_list) + 1 :
              /\ \A i \in 1 .. k - 1 : rest(i - 1) >= timer_list[i].expires
              /\ k <= Len(timer_list) => rest(k - 1) < timer_list[k].expires
              /\ timer_list' =
                    InsertAt([i \in 1 .. Len(timer_list) |->
                                 IF i = k THEN [timer_list[i] EXCEPT !.expires = @ - rest(k - 1)]
                                          ELSE timer_list[i]],
                             k, [proc |-> p, expires |-> rest(k - 1)])
        /\ fired' = {}
        /\ UNCHANGED panic

\* Mutant: the ticks of the deleted timer are forgotten.
NotGivenOn(a, b) == a

\* next->expires += timer->expires.
GivenOn(a, b) == (a + b) % (MaxExpires + 1)

\* del_timer: the ticks of the timer go to the one after it.
del_timer(p) ==
    /\ \E i \in Position(p) :
          timer_list' = RemoveAt([j \in 1 .. Len(timer_list) |->
              IF j = i + 1
              THEN [timer_list[j] EXCEPT !.expires = GivenOn(@, timer_list[i].expires)]
              ELSE timer_list[j]], i)
    /\ fired' = {}
    /\ UNCHANGED panic

\* run_timer_list: a tick off the first timer; all that are now at 0, the first
\* k of the list, go off.
run_timer_list ==
    \/ timer_list = <<>> /\ fired' = {} /\ UNCHANGED <<timer_list, panic>>
    \/ LET ticked == [timer_list EXCEPT ![1].expires = (@ - 1) % (MaxExpires + 1)]
       IN  /\ timer_list # <<>>
           /\ panic' = (panic \/ timer_list[1].expires = 0)
           /\ \E k \in 0 .. Len(ticked) :
                 /\ \A i \in 1 .. k : ticked[i].expires = 0
                 /\ k < Len(ticked) => ticked[k + 1].expires # 0
                 /\ timer_list' = SubSeq(ticked, k + 1, Len(ticked))
                 /\ fired' = {ticked[i].proc : i \in 1 .. k}

Next == \/ \E p \in Proc : del_timer(p) \/ \E n \in 1 .. MaxExpires : add_timer(p, n)
        \/ run_timer_list

Spec == Init /\ [][Next]_vars

----------------------------------------------------------------------------
(***************************************************************************)
(* The assertion of run_timer_list holds: no timer at 0 is left at the     *)
(* head of the list, by any order of additions, deletions and ticks.       *)
(***************************************************************************)
HeadNotExpired == ~panic

\* The ticks until p's timer goes off, 0 when it has none.
Left(p) ==
    IF Position(p) = {} THEN 0 ELSE When(timer_list)[CHOOSE i \in Position(p) : TRUE]

Deadlines == INSTANCE Countdown WITH left <- [p \in Proc |-> Left(p)]

(***************************************************************************)
(* The list of differences implements independent countdowns: each timer   *)
(* goes off at the tick it was set for and no other, and no difference     *)
(* overflows, up to the longest sleep an unsigned integer can express.  On *)
(* the way run_timer_list never meets a timer that is at 0 already.        *)
(***************************************************************************)
FiresOnTime == Deadlines!Spec /\ []HeadNotExpired
=============================================================================
