----------------------------- MODULE ProcTable -----------------------------
(***************************************************************************)
(* The process table of kern/process/proc.c: get_pid with the values it    *)
(* keeps from one call to the next, the list of all processes and the      *)
(* family links (cptr, optr, yptr) that do_fork, do_exit and do_wait       *)
(* rewire.  Process.tla takes pids to be unique and the children of a      *)
(* process to be the processes whose parent it is; this module is why.     *)
(*                                                                         *)
(* The code runs with interrupts off, so nothing interleaves with it.  The *)
(* loops of get_pid and of do_exit are steps of their own, one per         *)
(* iteration; pc tells which loop is running and cur the process in it.    *)
(* A proc_struct is named by its pid.                                      *)
(***************************************************************************)
EXTENDS Integers, Sequences

CONSTANTS
    MAX_PROCESS,  \* proc.h: bound of nr_process
    MAX_PID       \* proc.h: pids are below it

\* The static_assert of get_pid.
ASSUME PidAssumption ==
    /\ MAX_PROCESS \in Nat
    /\ MAX_PID \in Nat
    /\ MAX_PID > MAX_PROCESS
    /\ MAX_PROCESS > 1

VARIABLES
    proc_list,  \* pids of all processes but idle, in list order
    last_pid,   \* static variables of get_pid
    next_safe,
    le,         \* position of get_pid's walk in proc_list
    pc,         \* "out", or the loop that runs: "scan", "ret", "reparent"
    cur,        \* the process inside do_fork or do_exit
    zombie,     \* processes that have exited and are not yet waited for
    parent,     \* proc->parent and the three links, NULL where unset
    cptr,
    optr,
    yptr

pidVars == <<proc_list, last_pid, next_safe, le>>
linkVars == <<parent, cptr, optr, yptr>>
vars == <<pidVars, pc, cur, zombie, linkVars>>

idle == 0
init == 1
NULL == -1
Pid == 0..MAX_PID - 1
Procs == {proc_list[i] : i \in DOMAIN proc_list}
nr_process == Len(proc_list) + 1    \* idle is counted and not listed

TypeOK ==
    /\ proc_list \in Seq(1..MAX_PID - 1)
    /\ last_pid \in 1..MAX_PID
    /\ next_safe \in 1..MAX_PID
    /\ le \in 1..Len(proc_list) + 1
    /\ pc \in {"out", "scan", "ret", "reparent"}
    /\ cur \in Pid
    /\ zombie \subseteq Pid
    /\ parent \in [Pid -> Pid \cup {NULL}]
    /\ cptr \in [Pid -> Pid \cup {NULL}]
    /\ optr \in [Pid -> Pid \cup {NULL}]
    /\ yptr \in [Pid -> Pid \cup {NULL}]

Init ==
    /\ proc_list = <<>>
    /\ last_pid = MAX_PID
    /\ next_safe = MAX_PID
    /\ le = 1
    /\ pc = "out"
    /\ cur = idle
    /\ zombie = {}
    /\ parent = [p \in Pid |-> NULL]
    /\ cptr = [p \in Pid |-> NULL]
    /\ optr = [p \in Pid |-> NULL]
    /\ yptr = [p \in Pid |-> NULL]
-----------------------------------------------------------------------------
(* get_pid *)

\* The jump to "repeat": look at every process again for this last_pid.
Repeat(pid) ==
    /\ last_pid' = pid
    /\ next_safe' = MAX_PID
    /\ le' = 1
    /\ pc' = "scan"

\* The entry of get_pid, up to its walk or its early return.
GetPid ==
    \/ /\ last_pid + 1 >= MAX_PID
       /\ Repeat(1)
    \/ /\ last_pid + 1 < MAX_PID
       /\ last_pid + 1 >= next_safe
       /\ Repeat(last_pid + 1)
    \/ /\ last_pid + 1 < MAX_PID
       /\ last_pid + 1 < next_safe
       /\ last_pid' = last_pid + 1
       /\ pc' = "ret"
       /\ UNCHANGED <<next_safe, le>>

\* Mutant: the walk starts over with the pid that was taken.
CollisionStuck ==
    /\ proc_list[le] = last_pid
    /\ \/ /\ last_pid + 1 >= next_safe
          /\ Repeat(IF last_pid + 1 >= MAX_PID THEN 1 ELSE last_pid)
       \/ /\ last_pid + 1 < next_safe
          /\ last_pid' = last_pid + 1
          /\ le' = le + 1
          /\ UNCHANGED <<next_safe, pc>>

\* A process in the walk that has the candidate pid.
Collision ==
    /\ proc_list[le] = last_pid
    /\ \/ /\ last_pid + 1 >= next_safe
          /\ Repeat(IF last_pid + 1 >= MAX_PID THEN 1 ELSE last_pid + 1)
       \/ /\ last_pid + 1 < next_safe
          /\ last_pid' = last_pid + 1
          /\ le' = le + 1
          /\ UNCHANGED <<next_safe, pc>>

\* Mutant: next_safe is not brought down.
NarrowNever ==
    /\ proc_list[le] # last_pid
    /\ le' = le + 1
    /\ UNCHANGED <<last_pid, next_safe, pc>>

\* A process in the walk with another pid: it may bound the safe interval.
Narrow ==
    /\ proc_list[le] # last_pid
    /\ next_safe' = IF proc_list[le] > last_pid /\ next_safe > proc_list[le]
                    THEN proc_list[le] ELSE next_safe
    /\ le' = le + 1
    /\ UNCHANGED <<last_pid, pc>>

\* One iteration of the while loop, and its end.
Scan ==
    /\ pc = "scan"
    /\ \/ /\ le <= Len(proc_list)
          /\ Collision \/ Narrow
       \/ /\ le > Len(proc_list)
          /\ pc' = "ret"
          /\ UNCHANGED <<last_pid, next_safe, le>>
    /\ UNCHANGED <<proc_list, cur, zombie, linkVars>>
-----------------------------------------------------------------------------
(* do_fork: get_pid, then set_links. *)

DoFork(p) ==
    /\ pc = "out"
    /\ p \notin zombie
    /\ p \in Procs \/ (p = idle /\ proc_list = <<>>)  \* idle forks init only
    /\ nr_process < MAX_PROCESS
    /\ cur' = p
    /\ GetPid
    /\ UNCHANGED <<proc_list, zombie, linkVars>>

SetLinks ==
    LET c == last_pid
        o == cptr[cur]      \* the sibling that was youngest before
    IN  /\ pc = "ret"
        /\ proc_list' = <<c>> \o proc_list
        /\ parent' = [parent EXCEPT ![c] = cur]
        /\ yptr' = [q \in Pid |-> IF q = c THEN NULL ELSE IF q = o THEN c ELSE yptr[q]]
        /\ optr' = [optr EXCEPT ![c] = o]
        /\ cptr' = [cptr EXCEPT ![c] = NULL, ![cur] = c]
        /\ pc' = "out"
        /\ le' = 1
        /\ UNCHANGED <<last_pid, next_safe, cur, zombie>>
-----------------------------------------------------------------------------
(* do_exit: the process becomes a zombie, its children go to init. *)

DoExit(p) ==
    /\ pc = "out"
    /\ p \in Procs \ (zombie \cup {init})
    /\ zombie' = zombie \cup {p}
    /\ cur' = p
    /\ pc' = "reparent"
    /\ UNCHANGED <<pidVars, linkVars>>

\* One iteration of the loop over the children.
Reparent ==
    LET c == cptr[cur]
        i == cptr[init]
    IN  /\ pc = "reparent"
        /\ c # NULL
        /\ cptr' = [cptr EXCEPT ![cur] = optr[c], ![init] = c]
        /\ optr' = [optr EXCEPT ![c] = i]
        /\ yptr' = [q \in Pid |-> IF q = c THEN NULL ELSE IF q = i THEN c ELSE yptr[q]]
        /\ parent' = [parent EXCEPT ![c] = init]
        /\ UNCHANGED <<pidVars, pc, cur, zombie>>

ReparentDone ==
    /\ pc = "reparent"
    /\ cptr[cur] = NULL
    /\ pc' = "out"
    /\ UNCHANGED <<pidVars, cur, zombie, linkVars>>
-----------------------------------------------------------------------------
(* do_wait: remove_links takes a zombie child out of the lists. *)

\* Mutant: the older sibling still leads back to the process that is gone.
RemoveLinksOneWay(z) ==
    LET o == optr[z]
        y == yptr[z]
    IN  /\ \E i \in DOMAIN proc_list :
              /\ proc_list[i] = z
              /\ proc_list' = SubSeq(proc_list, 1, i - 1)
                                \o SubSeq(proc_list, i + 1, Len(proc_list))
        /\ yptr' = [yptr EXCEPT ![z] = NULL]
        /\ optr' = [q \in Pid |-> IF q = z THEN NULL ELSE IF q = y THEN o ELSE optr[q]]
        /\ cptr' = IF y = NULL THEN [cptr EXCEPT ![parent[z]] = o] ELSE cptr
        /\ parent' = [parent EXCEPT ![z] = NULL]

RemoveLinks(z) ==
    LET o == optr[z]
        y == yptr[z]
    IN  /\ \E i \in DOMAIN proc_list :       \* list_del
              /\ proc_list[i] = z
              /\ proc_list' = SubSeq(proc_list, 1, i - 1)
                                \o SubSeq(proc_list, i + 1, Len(proc_list))
        /\ yptr' = [q \in Pid |-> IF q = z THEN NULL ELSE IF q = o THEN y ELSE yptr[q]]
        /\ optr' = [q \in Pid |-> IF q = z THEN NULL ELSE IF q = y THEN o ELSE optr[q]]
        /\ cptr' = IF y = NULL THEN [cptr EXCEPT ![parent[z]] = o] ELSE cptr
        /\ parent' = [parent EXCEPT ![z] = NULL]

\* The children as do_wait(0) meets them: cptr, then optr after optr.
Sibling(p) ==
    LET walk[n \in 0..MAX_PID] ==
            IF n = 0 THEN cptr[p]
            ELSE IF walk[n - 1] = NULL THEN NULL ELSE optr[walk[n - 1]]
    IN  walk

FirstZombie(p, z) ==
    \E n \in 0..MAX_PID : /\ Sibling(p)[n] = z
                          /\ \A m \in 0..n - 1 : Sibling(p)[m] \notin zombie

DoWait(p, z) ==
    /\ pc = "out"
    /\ p \in Procs \ zombie
    /\ z \in zombie
    /\ \/ parent[z] = p         \* a given pid, through find_proc
       \/ FirstZombie(p, z)     \* any child
    /\ RemoveLinks(z)
    /\ zombie' = zombie \ {z}
    /\ le' = 1
    /\ UNCHANGED <<last_pid, next_safe, pc, cur>>
-----------------------------------------------------------------------------
Next ==
    \/ \E p \in Pid : DoFork(p) \/ DoExit(p) \/ \E z \in Pid : DoWait(p, z)
    \/ Scan
    \/ SetLinks
    \/ Reparent
    \/ ReparentDone

Spec == Init /\ [][Next]_vars

\* Straight-line kernel code runs to its end: no schedule() and no wait is in it.
FairSpec == Spec /\ WF_vars(Scan) /\ WF_vars(SetLinks)
                 /\ WF_vars(Reparent) /\ WF_vars(ReparentDone)
-----------------------------------------------------------------------------
(* Properties *)

\* A pid that get_pid returns is in range and no process in the list has it,
\* zombies included, although most calls look at no process at all and trust
\* the interval below next_safe that an earlier call has found free.
PidFresh == pc = "ret" => last_pid \in 1..MAX_PID - 1 /\ last_pid \notin Procs

Children(p) == {c \in Procs : parent[c] = p}

\* Outside do_exit, walking cptr and optr from a process meets each of its
\* children exactly once and nothing else, yptr leads back, and no child is
\* left with a parent that was reaped, after any order of forks, exits that
\* hand children to init, and waits that take a child out of the middle.
FamilyExact ==
    pc # "reparent" =>
        /\ \A p \in Procs \cup {idle} :
              LET walk == Sibling(p)
                  met  == {n \in 0..MAX_PID : walk[n] # NULL}
              IN  /\ {walk[n] : n \in met} = Children(p)
                  /\ \A m, n \in met : walk[m] = walk[n] => m = n
                  /\ \A n \in met : yptr[walk[n]] = IF n = 0 THEN NULL ELSE walk[n - 1]
        /\ \A c \in Procs : parent[c] \in Procs \cup {idle}

\* get_pid's walk starts over again and again, but it ends: nr_process is below
\* MAX_PROCESS and MAX_PID above it.
GetPidReturns == (pc = "scan") ~> (pc = "ret")
=============================================================================
