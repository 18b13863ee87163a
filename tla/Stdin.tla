------------------------------- MODULE Stdin -------------------------------
(***************************************************************************)
(* The keyboard device stdin (lab8): a ring buffer between the interrupt   *)
(* and the processes that read.                                            *)
(*   kern/fs/devs/dev_stdin.c  dev_stdin_write, dev_stdin_read             *)
(*   kern/sync/wait.c          wait_current_set, wakeup_queue              *)
(*   kern/process/proc.c       do_kill                                     *)
(* Readers are in a system call, with interrupts off, so a reader runs     *)
(* alone from its call or its wake-up to its return or its next sleep.     *)
(* The timer interrupt hands over at most one key per tick; keys are       *)
(* numbered in the order they are typed.                                   *)
(***************************************************************************)
EXTENDS Integers, Sequences, FiniteSets

CONSTANTS
    Reader,          \* processes that read stdin
    STDIN_BUFSIZE,
    MaxLen,          \* bound: the longest read
    MaxKeys          \* bound: the keys that are typed

ASSUME StdinAssumption ==
    /\ STDIN_BUFSIZE \in Nat \ {0}
    /\ MaxLen \in Nat /\ MaxKeys \in Nat

VARIABLES
    stdin_buffer, p_rpos, p_wpos,
    wait_queue,      \* the readers whose wait_t is linked (all are woken at once)
    state,           \* proc->state of a reader
    wakeup_flags,    \* of the wait_t in the frame of dev_stdin_read
    left,            \* len - ret of the read, 0 outside of one
    exiting,         \* PF_EXITING
    typed,           \* the number of keys typed so far
    got,             \* the keys read so far, in the order of p_rpos
    overrun          \* a key was typed while the buffer was full

ring == <<stdin_buffer, p_rpos, p_wpos>>
stdin_vars == <<ring, wait_queue, state, wakeup_flags, left, exiting, typed, got, overrun>>

Slot(pos) == pos % STDIN_BUFSIZE

StdinTypeOK ==
    /\ stdin_buffer \in [0 .. STDIN_BUFSIZE - 1 -> Nat]
    /\ p_rpos \in Nat /\ p_wpos \in Nat
    /\ wait_queue \subseteq Reader
    /\ state \in [Reader -> {"RUNNABLE", "SLEEPING", "ZOMBIE"}]
    /\ wakeup_flags \in [Reader -> {"WT_INTERRUPTED", "WT_KBD"}]
    /\ left \in [Reader -> Nat]
    /\ exiting \in [Reader -> BOOLEAN]
    /\ typed \in Nat /\ got \in Seq(Nat) /\ overrun \in BOOLEAN

stdin_device_init ==
    /\ stdin_buffer = [i \in 0 .. STDIN_BUFSIZE - 1 |-> 0]
    /\ p_rpos = 0 /\ p_wpos = 0
    /\ wait_queue = {}
    /\ state = [r \in Reader |-> "RUNNABLE"]
    /\ wakeup_flags = [r \in Reader |-> "WT_INTERRUPTED"]
    /\ left = [r \in Reader |-> 0]
    /\ exiting = [r \in Reader |-> FALSE]
    /\ typed = 0 /\ got = <<>> /\ overrun = FALSE

\* Mutant: one more key than there is room for.
NotFullLate == p_wpos - p_rpos <= STDIN_BUFSIZE

NotFull == p_wpos - p_rpos < STDIN_BUFSIZE

\* Mutant: wakeup_first in the place of wakeup_queue.
WokenFirst == {r \in wait_queue : r = CHOOSE q \in wait_queue : TRUE}

\* wakeup_queue wakes everybody.
Woken == wait_queue

\* dev_stdin_write, from the timer interrupt: the key goes to p_wpos, which
\* moves on only when there is room.
dev_stdin_write ==
    /\ typed < MaxKeys
    /\ typed' = typed + 1
    /\ stdin_buffer' = [stdin_buffer EXCEPT ![Slot(p_wpos)] = typed + 1]
    /\ p_wpos' = IF NotFull THEN p_wpos + 1 ELSE p_wpos
    /\ overrun' = (overrun \/ p_wpos - p_rpos >= STDIN_BUFSIZE)
    /\ wait_queue' = wait_queue \ Woken
    /\ wakeup_flags' = [r \in Reader |->
                           IF r \in Woken THEN "WT_KBD" ELSE wakeup_flags[r]]
    /\ state' = [r \in Reader |-> IF r \in Woken THEN "RUNNABLE" ELSE state[r]]
    /\ UNCHANGED <<p_rpos, left, exiting, got>>

\* The read returns; the end of the trap looks at PF_EXITING (do_exit).
Returned(r) ==
    /\ wait_queue' = wait_queue \ {r}
    /\ state' = [state EXCEPT ![r] = IF exiting[r] THEN "ZOMBIE" ELSE "RUNNABLE"]
    /\ UNCHANGED wakeup_flags

(***************************************************************************)
(* The loop of dev_stdin_read from try_again on, with need keys to go:     *)
(* take what is there, and sleep on the queue when that is not enough.     *)
(***************************************************************************)
Try(r, need) ==
    LET avail == p_wpos - p_rpos
        n     == IF need < avail THEN need ELSE avail
    IN  /\ got' = got \o [i \in 1 .. n |-> stdin_buffer[Slot(p_rpos + i - 1)]]
        /\ p_rpos' = p_rpos + n
        /\ left' = [left EXCEPT ![r] = need - n]
        /\ IF n < need
           THEN /\ wait_queue' = wait_queue \cup {r}
                /\ state' = [state EXCEPT ![r] = "SLEEPING"]
                /\ wakeup_flags' = [wakeup_flags EXCEPT ![r] = "WT_INTERRUPTED"]
           ELSE Returned(r)
        /\ UNCHANGED <<stdin_buffer, p_wpos, exiting, typed, overrun>>

\* A process killed while it was ready may still call (see module Process).
dev_stdin_read(r) ==
    /\ left[r] = 0 /\ state[r] = "RUNNABLE"
    /\ \E len \in 1 .. MaxLen : Try(r, len)

(***************************************************************************)
(* Back from schedule(): wait_current_del; only a key makes the reader try *)
(* again, else it returns with what it has read.                           *)
(***************************************************************************)
resume(r) ==
    /\ left[r] > 0 /\ state[r] = "RUNNABLE"
    /\ \/ /\ wakeup_flags[r] = "WT_KBD"
          /\ Try(r, left[r])
       \/ /\ wakeup_flags[r] # "WT_KBD"
          /\ Returned(r)
          /\ left' = [left EXCEPT ![r] = 0]
          /\ UNCHANGED <<ring, exiting, typed, got, overrun>>

\* do_kill: WT_KBD may be interrupted.
do_kill(r) ==
    /\ ~exiting[r] /\ state[r] # "ZOMBIE"
    /\ exiting' = [exiting EXCEPT ![r] = TRUE]
    /\ state' = [state EXCEPT ![r] = "RUNNABLE"]
    /\ UNCHANGED <<ring, wait_queue, wakeup_flags, left, typed, got, overrun>>

StdinNext == dev_stdin_write \/ \E r \in Reader : dev_stdin_read(r) \/ resume(r) \/ do_kill(r)

StdinSpec == stdin_device_init /\ [][StdinNext]_stdin_vars

----------------------------------------------------------------------------

(***************************************************************************)
(* The keys that were read and the keys in the buffer are all the keys     *)
(* that were typed, each once and in order, with several readers, reads    *)
(* that sleep half way and reads cut short by a kill, as long as no key    *)
(* was typed on a full buffer; the buffer never holds more than it can.    *)
(***************************************************************************)
KeysInOrder ==
    /\ p_wpos - p_rpos \in 0 .. STDIN_BUFSIZE
    /\ ~overrun =>
          got \o [i \in 1 .. p_wpos - p_rpos |-> stdin_buffer[Slot(p_rpos + i - 1)]]
             = [k \in 1 .. typed |-> k]

(***************************************************************************)
(* Nobody sleeps while there are keys to read, and who sleeps is linked in *)
(* the queue that the next key wakes.                                      *)
(***************************************************************************)
NoReaderMissesKey ==
    \A r \in Reader :
        state[r] = "SLEEPING" => r \in wait_queue /\ p_rpos = p_wpos
=============================================================================
