----------------------------- MODULE Countdown -----------------------------
(***************************************************************************)
(* What the timers of kern/schedule/sched.c promise: each one goes off at  *)
(* exactly the tick it was set for, whatever else is added or deleted.     *)
(***************************************************************************)
EXTENDS Naturals

CONSTANTS Proc, MaxExpires

VARIABLES left,   \* ticks left of the process's timer, 0 when it has none
          fired   \* the processes woken by the last tick

Init == left = [p \in Proc |-> 0] /\ fired = {}

Add(p, n) == /\ left[p] = 0
             /\ left' = [left EXCEPT ![p] = n]
             /\ fired' = {}

Del(p) == /\ left' = [left EXCEPT ![p] = 0]
          /\ fired' = {}

Tick == /\ left' = [p \in Proc |-> IF left[p] > 0 THEN left[p] - 1 ELSE 0]
        /\ fired' = {p \in Proc : left[p] = 1}

Next == \/ \E p \in Proc : Del(p) \/ \E n \in 1 .. MaxExpires : Add(p, n)
        \/ Tick

Spec == Init /\ [][Next]_<<left, fired>>
=============================================================================
