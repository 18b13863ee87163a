------------------------------- MODULE Stride -------------------------------
(***************************************************************************)
(* The stride scheduler of lab8: kern/schedule/default_sched_stride.c over *)
(* the skew heap of libs/skew_heap.h.  Strides are unsigned integers of    *)
(* Width bits that wrap around, compared by the sign of their difference;  *)
(* BIG_STRIDE is the largest positive signed value.  The heap is a tree:   *)
(* NULL or <<proc, left, right>>.                                          *)
(***************************************************************************)
EXTENDS Integers, FiniteSets

CONSTANTS Proc,         \* the processes
          Width,        \* bits of lab6_stride, 32 in the code
          MaxPriority   \* bound: the highest priority a program asks for

ASSUME StrideAssumption == Width \in Nat \ {0, 1} /\ MaxPriority \in Nat

BIG_STRIDE == 2 ^ (Width - 1) - 1

NULL == <<>>

VARIABLES
    stride,    \* proc->lab6_stride
    priority,  \* proc->lab6_priority
    pool,      \* rq->lab6_run_pool
    status,    \* "none", "ready", "asleep" for each process
    current,   \* the process on the CPU, NULL for idle
    lead       \* history: by how much the process's strides so far exceed the
               \* smallest of the processes that are ready, without wrap-around

vars == <<stride, priority, pool, status, current, lead>>

\* Mutant: the strides are compared as unsigned integers.
comp_unsigned(p, q) ==
    IF stride[p] > stride[q] THEN 1 ELSE IF stride[p] = stride[q] THEN 0 ELSE -1

\* proc_stride_comp_f: the sign of the difference as a signed integer.
proc_stride_comp_f(p, q) ==
    LET c == (stride[p] - stride[q]) % 2 ^ Width
    IN  IF c = 0 THEN 0 ELSE IF c < 2 ^ (Width - 1) THEN 1 ELSE -1

RECURSIVE skew_heap_merge(_, _)

\* Mutant: the subtree that is not merged is forgotten.
merge_forgets(a, b) ==
    IF a = NULL THEN b
    ELSE IF b = NULL THEN a
    ELSE IF proc_stride_comp_f(a[1], b[1]) = -1
         THEN <<a[1], skew_heap_merge(a[3], b), a[3]>>
         ELSE <<b[1], skew_heap_merge(a, b[3]), b[3]>>

skew_heap_merge(a, b) ==
    IF a = NULL THEN b
    ELSE IF b = NULL THEN a
    ELSE IF proc_stride_comp_f(a[1], b[1]) = -1
         THEN <<a[1], skew_heap_merge(a[3], b), a[2]>>
         ELSE <<b[1], skew_heap_merge(a, b[3]), b[2]>>

skew_heap_insert(a, p) == skew_heap_merge(a, <<p, NULL, NULL>>)

\* skew_heap_remove of the root, the only node that schedule() removes.
skew_heap_remove_root(a) == skew_heap_merge(a[2], a[3])

RECURSIVE Nodes(_)
Nodes(a) == IF a = NULL THEN {} ELSE {a[1]} \cup Nodes(a[2]) \cup Nodes(a[3])

\* Mutant: a process without a priority does not advance.
PassIfSet(p) == IF priority[p] = 0 THEN 0 ELSE BIG_STRIDE \div priority[p]

\* The step of the stride: priority 0 is one that was never set.
Pass(p) == IF priority[p] = 0 THEN BIG_STRIDE ELSE BIG_STRIDE \div priority[p]

Init ==
    /\ stride = [p \in Proc |-> 0]
    /\ priority = [p \in Proc |-> 0]
    /\ pool = NULL
    /\ status = [p \in Proc |-> "none"]
    /\ current = NULL
    /\ lead = [p \in Proc |-> 0]

Ready == {p \in Proc : status[p] = "ready"}

\* Measure the history from the process of R that is furthest behind.
Normalised(l, R) ==
    LET low == CHOOSE n \in {l[p] : p \in R} : \A p \in R : n <= l[p]
    IN  [p \in Proc |-> IF p \in R THEN l[p] - low ELSE 0]

\* wakeup_proc of a process that is not on the CPU: stride_enqueue.
Enqueue(p) ==
    /\ pool' = skew_heap_insert(pool, p)
    /\ status' = [status EXCEPT ![p] = "ready"]

\* do_fork: a new process starts with stride 0 and no priority.
Fork(p) ==
    /\ status[p] = "none"
    /\ Enqueue(p)
    /\ UNCHANGED <<stride, priority, current, lead>>

\* lab6_set_priority by the process on the CPU.
SetPriority(n) ==
    /\ current # NULL
    /\ priority' = [priority EXCEPT ![current[1]] = IF n = 0 THEN 1 ELSE n]
    /\ UNCHANGED <<stride, pool, status, current, lead>>

\* stride_pick_next adds the pass to the unsigned stride.
Advanced(p) == (stride[p] + Pass(p)) % 2 ^ Width

\* schedule(): the pool with the process on the CPU back in it, or without
\* it when it sleeps; stride_pick_next advances the stride of the root.
Schedule(sleeps) ==
    LET p == IF sleeps \/ current = NULL THEN pool
                                         ELSE skew_heap_insert(pool, current[1])
        R == IF sleeps THEN Ready \ {current[1]} ELSE Ready
    IN  /\ sleeps => current # NULL
        /\ status' = IF sleeps THEN [status EXCEPT ![current[1]] = "asleep"] ELSE status
        /\ IF p = NULL
           THEN /\ current' = NULL /\ pool' = NULL
                /\ lead' = [q \in Proc |-> 0]
                /\ UNCHANGED stride
           ELSE /\ current' = <<p[1]>>
                /\ pool' = skew_heap_remove_root(p)
                /\ stride' = [stride EXCEPT ![p[1]] = Advanced(p[1])]
                /\ lead' = Normalised([lead EXCEPT ![p[1]] = @ + Pass(p[1])], R)
        /\ UNCHANGED priority

Wakeup(p) ==
    /\ status[p] = "asleep"
    /\ Enqueue(p)
    /\ UNCHANGED <<stride, priority, current, lead>>

(***************************************************************************)
(* A steady load: the processes are forked before the first of them runs   *)
(* and none sleeps.                                                        *)
(***************************************************************************)
SteadyNext == \/ \E n \in 0 .. MaxPriority : SetPriority(n)
              \/ Schedule(FALSE)
              \/ /\ current = NULL
                 /\ \E p \in Proc : Fork(p)

SteadySpec == Init /\ [][SteadyNext]_vars

\* The timer makes the process on the CPU call schedule() in the end.
FairSteadySpec == SteadySpec /\ WF_vars(Schedule(FALSE))

\* Any load.
Next == \/ \E n \in 0 .. MaxPriority : SetPriority(n)
        \/ \E sleeps \in BOOLEAN : Schedule(sleeps)
        \/ \E p \in Proc : Fork(p) \/ Wakeup(p)

Spec == Init /\ [][Next]_vars

----------------------------------------------------------------------------
RECURSIVE Size(_)
Size(a) == IF a = NULL THEN 0 ELSE 1 + Size(a[2]) + Size(a[3])

(***************************************************************************)
(* The merges neither lose nor double a process: the heap holds, once, the *)
(* processes that are ready and not on the CPU.                            *)
(***************************************************************************)
HeapExact ==
    LET waiting == {p \in Ready : current # <<p>>}
    IN  Nodes(pool) = waiting /\ Size(pool) = Cardinality(waiting)

(***************************************************************************)
(* The wrapped strides are compared rightly: for processes that are ready  *)
(* the sign of the wrapped difference is the sign of the difference of the *)
(* strides they have really made (which BIG_STRIDE, as half of the range,  *)
(* is chosen for).                                                         *)
(***************************************************************************)
WrapIsHarmless ==
    \A p, q \in Ready :
        LET c == proc_stride_comp_f(p, q)
        IN  (c = 1 <=> lead[p] > lead[q]) /\ (c = 0 <=> lead[p] = lead[q])

(***************************************************************************)
(* stride_pick_next takes the process that is furthest behind in what it   *)
(* has really been given, although the strides it compares have wrapped.   *)
(***************************************************************************)
PicksFurthestBehind ==
    /\ WrapIsHarmless
    /\ \A p \in Nodes(pool) : lead[pool[1]] <= lead[p]

(***************************************************************************)
(* Nobody that is ready waits for ever.                                    *)
(***************************************************************************)
NoStarvation == \A p \in Proc : status[p] = "ready" ~> current = <<p>>

(***************************************************************************)
(* The root of the heap, which stride_pick_next takes, is a minimum by the *)
(* comparison function of the scheduler itself.                            *)
(***************************************************************************)
PicksMinimum ==
    \A p \in Nodes(pool) : proc_stride_comp_f(pool[1], p) # 1
=============================================================================
