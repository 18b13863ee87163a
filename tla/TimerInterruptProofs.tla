------------------------ MODULE TimerInterruptProofs ------------------------
(***************************************************************************)
(* Proofs about the two jobs of the timer interrupt.  Module Stdin: the    *)
(* keys that dev_stdin_write puts into the ring reach the readers, for     *)
(* every set of readers, every size of the buffer and every length of a    *)
(* read.  Module TimerList: for every set of processes and every width of  *)
(* timer_t.expires the list of differences that run_timer_list walks       *)
(* implements independent countdowns.                                      *)
(***************************************************************************)
EXTENDS Stdin, TimerList, Induction, SequenceTheorems

(***************************************************************************)
(* A function on 1 .. n is a sequence.                                     *)
(***************************************************************************)
LEMMA FunctionIsSeq ==
  ASSUME NEW S, NEW n \in Nat, NEW f \in [1 .. n -> S]
  PROVE  f \in Seq(S) /\ Len(f) = n
  OBVIOUS

----------------------------------------------------------------------------
(* The ring buffer of stdin.                                               *)

(***************************************************************************)
(* The buffer never holds more than it can; until a key is typed on a full *)
(* buffer, position k of the stream holds key k + 1, in the hands of a     *)
(* reader below p_rpos and in the ring from there on.                      *)
(***************************************************************************)
RingExact ==
    /\ p_rpos <= p_wpos /\ p_wpos <= p_rpos + STDIN_BUFSIZE
    /\ ~overrun =>
          /\ p_wpos = typed /\ Len(got) = p_rpos
          /\ \A k \in 1 .. p_rpos : got[k] = k
          /\ \A k \in p_rpos .. p_wpos - 1 : stdin_buffer[Slot(k)] = k + 1

\* The inductive invariant.
StdinInv == StdinTypeOK /\ RingExact /\ NoReaderMissesKey

(***************************************************************************)
(* A slot is an index of the buffer.                                       *)
(***************************************************************************)
LEMMA SlotRange == \A k \in Nat : Slot(k) \in 0 .. STDIN_BUFSIZE - 1
  BY StdinAssumption DEF Slot

(***************************************************************************)
(* Two positions less than the size of the buffer apart lie in different   *)
(* slots, so a key that is typed overwrites none that waits.               *)
(***************************************************************************)
LEMMA SlotInjective ==
  ASSUME NEW a \in Nat, NEW b \in Nat, a < b, b < a + STDIN_BUFSIZE
  PROVE  Slot(a) # Slot(b)
<1> SUFFICES ASSUME Slot(a) = Slot(b) PROVE FALSE
    OBVIOUS
<1> DEFINE B == STDIN_BUFSIZE
           p == a \div B
           q == b \div B
           r == a % B
<1>1. /\ a = B * p + r /\ b = B * q + r
      /\ p \in Nat /\ q \in Nat /\ r \in Nat /\ B \in Nat \ {0}
  BY StdinAssumption DEF Slot
<1> HIDE DEF B, p, q, r
<1>2. a < b /\ b < a + B
  BY DEF B
<1>3. B * (q - p) > 0 /\ B * (q - p) < B
  BY <1>1, <1>2
<1>4. CASE q - p <= 0
  BY <1>1, <1>3, <1>4
<1>5. CASE q - p >= 1
  BY <1>1, <1>3, <1>5
<1> QED BY <1>1, <1>4, <1>5

(***************************************************************************)
(* StdinInv holds after stdin_device_init.                                 *)
(***************************************************************************)
LEMMA StdinInit == stdin_device_init => StdinInv
<1> SUFFICES ASSUME stdin_device_init PROVE StdinInv
    OBVIOUS
<1> USE StdinAssumption DEF stdin_device_init
<1>1. StdinTypeOK
  <2>1. got \in Seq(Nat)
    OBVIOUS
  <2> QED BY <2>1 DEF StdinTypeOK
<1>2. RingExact
  BY DEF RingExact
<1>3. NoReaderMissesKey
  BY DEF NoReaderMissesKey
<1> QED BY <1>1, <1>2, <1>3 DEF StdinInv

(***************************************************************************)
(* A turn of the loop in dev_stdin_read keeps StdinInv: it takes the keys  *)
(* from p_rpos on, and sleeps only when it has left none.                  *)
(***************************************************************************)
LEMMA TryStep ==
  ASSUME StdinInv, NEW r \in Reader, NEW need \in Nat, Try(r, need)
  PROVE  StdinInv'
<1> DEFINE avail == p_wpos - p_rpos
           n     == IF need < avail THEN need ELSE avail
           taken == [i \in 1 .. n |-> stdin_buffer[Slot(p_rpos + i - 1)]]
<1> USE StdinAssumption DEF StdinInv, StdinTypeOK
<1>1. /\ got' = got \o taken /\ p_rpos' = p_rpos + n
      /\ left' = [left EXCEPT ![r] = need - n]
      /\ UNCHANGED <<stdin_buffer, p_wpos, exiting, typed, overrun>>
      /\ n < need => /\ wait_queue' = wait_queue \cup {r}
                     /\ state' = [state EXCEPT ![r] = "SLEEPING"]
                     /\ wakeup_flags' = [wakeup_flags EXCEPT ![r] = "WT_INTERRUPTED"]
      /\ ~(n < need) => Returned(r)
  BY DEF Try
<1>2. n \in Nat /\ need - n \in Nat /\ p_rpos + n <= p_wpos /\ (n < need => n = avail)
  BY DEF RingExact
<1>3. \A i \in 1 .. n : stdin_buffer[Slot(p_rpos + i - 1)] \in Nat
  <2> TAKE i \in 1 .. n
  <2>1. p_rpos + i - 1 \in Nat
    BY <1>2
  <2>2. Slot(p_rpos + i - 1) \in 0 .. STDIN_BUFSIZE - 1
    BY <2>1, SlotRange
  <2> QED BY <2>2
<1> HIDE DEF n
<1>4. taken \in Seq(Nat) /\ Len(taken) = n
  BY <1>2, <1>3
<1> HIDE DEF avail, taken
<1>0. got \in Seq(Nat) /\ p_rpos \in Nat
  OBVIOUS
<1>c. /\ got' \in Seq(Nat) /\ Len(got') = Len(got) + n
      /\ \A i \in 1 .. Len(got) + n :
            got'[i] = IF i <= Len(got) THEN got[i] ELSE taken[i - Len(got)]
  <2> HIDE DEF StdinInv, StdinTypeOK
  <2>1. /\ got \o taken \in Seq(Nat) /\ Len(got \o taken) = Len(got) + Len(taken)
        /\ \A i \in 1 .. Len(got) + Len(taken) :
              (got \o taken)[i] = IF i <= Len(got) THEN got[i] ELSE taken[i - Len(got)]
    BY <1>0, <1>4, ConcatProperties
  <2>2. got' = got \o taken /\ Len(taken) = n
    BY <1>1, <1>4
  <2> QED BY <2>1, <2>2, Zenon
<1>5. StdinTypeOK'
  <2>1. got' \in Seq(Nat)
    BY <1>c
  <2>2. p_rpos' \in Nat /\ left' \in [Reader -> Nat]
    BY <1>1, <1>2
  <2> QED BY <1>1, <2>1, <2>2 DEF Returned
<1>6. RingExact'
  <2>1. p_rpos' <= p_wpos' /\ p_wpos' <= p_rpos' + STDIN_BUFSIZE
    BY <1>1, <1>2, StdinAssumption DEF RingExact
  <2>2. ASSUME ~overrun
        PROVE  /\ Len(got') = p_rpos'
               /\ \A k \in 1 .. p_rpos' : got'[k] = k
    <3>1. /\ Len(got) = p_rpos
          /\ \A k \in 1 .. p_rpos : got[k] = k
          /\ \A k \in p_rpos .. p_wpos - 1 : stdin_buffer[Slot(k)] = k + 1
      BY <2>2 DEF RingExact
    <3>2. Len(got') = p_rpos'
      BY <1>1, <1>2, <1>c, <3>1
    <3>3. ASSUME NEW k \in 1 .. p_rpos' PROVE got'[k] = k
      <4>1. CASE k <= p_rpos
        BY <1>2, <1>c, <3>1, <4>1
      <4>2. CASE k > p_rpos
        <5>1. k - p_rpos \in 1 .. n /\ k - 1 \in p_rpos .. p_wpos - 1
          BY <1>1, <1>2, <3>3, <4>2
        <5>2. taken[k - p_rpos] = stdin_buffer[Slot(k - 1)]
          BY <5>1 DEF taken
        <5>3. k \in 1 .. Len(got) + n /\ Len(got) = p_rpos
          BY <1>1, <3>1, <3>3
        <5>4. got'[k] = taken[k - Len(got)]
          BY <1>c, <4>2, <5>3
        <5> QED BY <3>1, <5>1, <5>2, <5>3, <5>4
      <4> QED BY <3>3, <4>1, <4>2
    <3> QED BY <3>2, <3>3
  <2>3. ~overrun => /\ p_wpos' = typed'
                    /\ \A k \in p_rpos' .. p_wpos' - 1 : stdin_buffer'[Slot(k)] = k + 1
    BY <1>1, <1>2 DEF RingExact
  <2> QED BY <1>1, <2>1, <2>2, <2>3 DEF RingExact, Slot
<1>7. NoReaderMissesKey'
  <2>1. CASE n < need
    <3>1. p_rpos' = p_wpos'
      BY <1>1, <1>2, <2>1 DEF avail
    <3> QED BY <1>1, <2>1, <3>1 DEF NoReaderMissesKey
  <2>2. CASE ~(n < need)
    <3>1. ASSUME NEW s \in Reader, state[s] = "SLEEPING" PROVE p_rpos' = p_wpos'
      <4>1. avail = 0
        BY <3>1 DEF NoReaderMissesKey, avail
      <4>2. n = 0
        BY <4>1 DEF n
      <4> QED BY <1>1, <3>1, <4>2 DEF NoReaderMissesKey
    <3> QED BY <1>1, <2>2, <3>1 DEF NoReaderMissesKey, Returned
  <2> QED BY <2>1, <2>2
<1> QED BY <1>5, <1>6, <1>7

(***************************************************************************)
(* Every step of the readers, the keyboard and do_kill keeps StdinInv.     *)
(***************************************************************************)
LEMMA StdinStep == StdinInv /\ [StdinNext]_stdin_vars => StdinInv'
<1> SUFFICES ASSUME StdinInv, [StdinNext]_stdin_vars PROVE StdinInv'
    OBVIOUS
<1> USE StdinAssumption DEF StdinInv, StdinTypeOK
<1>1. CASE dev_stdin_write
  <2>1. Slot(p_wpos) \in 0 .. STDIN_BUFSIZE - 1
    BY SlotRange
  <2> USE <1>1 DEF dev_stdin_write
  <2>2. StdinTypeOK'
    BY <2>1, StdinAssumption DEF Woken
  <2>3. RingExact'
    <3>1. p_rpos' <= p_wpos' /\ p_wpos' <= p_rpos' + STDIN_BUFSIZE
      BY StdinAssumption DEF RingExact, NotFull
    <3>2. ASSUME ~overrun'
          PROVE  /\ p_wpos' = typed' /\ Len(got') = p_rpos'
                 /\ \A k \in 1 .. p_rpos' : got'[k] = k
                 /\ \A k \in p_rpos' .. p_wpos' - 1 : stdin_buffer'[Slot(k)] = k + 1
      <4>1. /\ ~overrun /\ p_wpos < p_rpos + STDIN_BUFSIZE
            /\ p_wpos' = p_wpos + 1
        <5>1. ~overrun /\ ~(p_wpos - p_rpos >= STDIN_BUFSIZE)
          BY <3>2, Zenon
        <5> QED BY <5>1 DEF NotFull
      <4>2. p_wpos' = typed' /\ Len(got') = p_rpos' /\ \A k \in 1 .. p_rpos' : got'[k] = k
        BY <4>1 DEF RingExact
      <4>3. ASSUME NEW k \in p_rpos' .. p_wpos' - 1 PROVE stdin_buffer'[Slot(k)] = k + 1
        <5>1. CASE k = p_wpos
          BY <2>1, <4>1, <5>1 DEF RingExact
        <5>2. CASE k # p_wpos
          <6>1. k \in p_rpos .. p_wpos - 1 /\ k \in Nat
            BY <4>1, <4>3, <5>2
          <6>2. k < p_wpos /\ p_wpos < k + STDIN_BUFSIZE
            BY <4>1, <6>1, StdinAssumption
          <6>3. Slot(k) # Slot(p_wpos) /\ Slot(k) \in 0 .. STDIN_BUFSIZE - 1
            BY <6>1, <6>2, SlotInjective, SlotRange
          <6> QED BY <4>1, <6>1, <6>3 DEF RingExact
        <5> QED BY <5>1, <5>2
      <4> QED BY <4>2, <4>3
    <3> QED BY <3>1, <3>2 DEF RingExact, Slot
  <2>4. NoReaderMissesKey'
    BY DEF NoReaderMissesKey, Woken
  <2> QED BY <2>2, <2>3, <2>4
<1>2. ASSUME NEW r \in Reader, dev_stdin_read(r) PROVE StdinInv'
  <2>1. PICK need \in 1 .. MaxLen : Try(r, need)
    BY <1>2 DEF dev_stdin_read
  <2>2. need \in Nat
    OBVIOUS
  <2>3. StdinInv
    OBVIOUS
  <2> HIDE DEF StdinInv
  <2> QED BY <2>1, <2>2, <2>3, TryStep
<1>3. ASSUME NEW r \in Reader, resume(r) PROVE StdinInv'
  <2>1. CASE Try(r, left[r])
    BY <2>1, TryStep
  <2>2. CASE /\ Returned(r) /\ left' = [left EXCEPT ![r] = 0]
             /\ UNCHANGED <<ring, exiting, typed, got, overrun>>
    BY <2>2 DEF Returned, ring, RingExact, NoReaderMissesKey, Slot
  <2> QED BY <1>3, <2>1, <2>2 DEF resume
<1>4. ASSUME NEW r \in Reader, do_kill(r) PROVE StdinInv'
  BY <1>4 DEF do_kill, ring, RingExact, NoReaderMissesKey, Slot
<1>5. CASE UNCHANGED stdin_vars
  BY <1>5 DEF stdin_vars, ring, RingExact, NoReaderMissesKey, Slot
<1> QED BY <1>1, <1>2, <1>3, <1>4, <1>5 DEF StdinNext

(***************************************************************************)
(* The device keeps StdinInv.                                              *)
(***************************************************************************)
LEMMA StdinInvariance == StdinSpec => []StdinInv
  BY StdinInit, StdinStep, PTL DEF StdinSpec

(***************************************************************************)
(* All keys reach the readers once and in the order they were typed, for   *)
(* any number of readers and any size of the buffer, as long as no key was *)
(* typed on a full one.                                                    *)
(***************************************************************************)
THEOREM StdinKeysInOrder == StdinSpec => []KeysInOrder
<1>1. StdinInv => KeysInOrder
  <2> SUFFICES ASSUME StdinInv PROVE KeysInOrder
      OBVIOUS
  <2> USE StdinAssumption DEF StdinInv, StdinTypeOK
  <2> DEFINE n    == p_wpos - p_rpos
             rest == [i \in 1 .. n |-> stdin_buffer[Slot(p_rpos + i - 1)]]
             all  == [k \in 1 .. typed |-> k]
  <2>1. n \in 0 .. STDIN_BUFSIZE
    BY DEF RingExact
  <2>2. ASSUME ~overrun PROVE got \o rest = all
    <3>1. /\ p_wpos = typed /\ Len(got) = p_rpos
          /\ \A k \in 1 .. p_rpos : got[k] = k
          /\ \A k \in p_rpos .. p_wpos - 1 : stdin_buffer[Slot(k)] = k + 1
      BY <2>2 DEF RingExact
    <3>2. \A i \in 1 .. n : rest[i] = p_rpos + i /\ rest[i] \in Nat
      BY <3>1
    <3>3. rest \in Seq(Nat) /\ Len(rest) = n
      <4>1. rest = [i \in 1 .. n |-> rest[i]] /\ n \in Nat
        BY <2>1
      <4> HIDE DEF rest, n
      <4>2. rest \in [1 .. n -> Nat]
        BY <3>2, <4>1, Zenon
      <4> QED BY <4>1, <4>2, FunctionIsSeq
    <3> HIDE DEF rest
    <3>c. /\ got \o rest \in Seq(Nat) /\ Len(got \o rest) = Len(got) + Len(rest)
          /\ \A i \in 1 .. Len(got) + Len(rest) :
                (got \o rest)[i] = IF i <= Len(got) THEN got[i] ELSE rest[i - Len(got)]
      <4>1. got \in Seq(Nat)
        OBVIOUS
      <4> HIDE DEF StdinInv, StdinTypeOK
      <4> QED BY <3>3, <4>1, ConcatProperties
    <3>4. got \o rest \in Seq(Nat) /\ Len(got \o rest) = typed
      BY <2>1, <3>1, <3>3, <3>c
    <3>5. ASSUME NEW k \in 1 .. typed PROVE (got \o rest)[k] = k
      <4>1. CASE k <= p_rpos
        BY <2>1, <3>1, <3>3, <3>c, <4>1
      <4>2. CASE k > p_rpos
        <5>1. k - p_rpos \in 1 .. n /\ k \in 1 .. Len(got) + Len(rest)
          BY <2>1, <3>1, <3>3, <4>2
        <5>2. (got \o rest)[k] = rest[k - p_rpos]
          BY <3>1, <3>3, <3>c, <4>2, <5>1
        <5> QED BY <3>2, <5>1, <5>2
      <4>3. k <= p_rpos \/ k > p_rpos
        OBVIOUS
      <4> QED BY <4>1, <4>2, <4>3, Zenon
    <3>6. all \in Seq(Nat) /\ Len(all) = typed
      OBVIOUS
    <3> QED BY <3>4, <3>5, <3>6, SeqEqual
  <2> QED BY <2>1, <2>2, StdinAssumption DEF KeysInOrder
<1> QED BY <1>1, StdinInvariance, PTL

(***************************************************************************)
(* No reader sleeps while there are keys, and every sleeper is linked in   *)
(* the queue that the next key wakes: no interleaving of reads, keys and   *)
(* kills loses a wake-up.                                                  *)
(***************************************************************************)
THEOREM StdinNoReaderMissesKey == StdinSpec => []NoReaderMissesKey
  BY StdinInvariance, PTL DEF StdinInv

----------------------------------------------------------------------------
(* Lists of timers.                                                        *)

USE TimerAssumption

Timer == [proc : Proc, expires : 0 .. MaxExpires]

\* t is s with e at position k; t is s without what is at position k.
IsInsert(t, s, k, e) ==
    /\ t \in Seq(Timer) /\ Len(t) = Len(s) + 1
    /\ \A i \in 1 .. Len(s) + 1 : t[i] = IF i < k THEN s[i] ELSE IF i = k THEN e ELSE s[i - 1]
IsRemove(t, s, k) ==
    /\ t \in Seq(Timer) /\ Len(t) = Len(s) - 1
    /\ \A i \in 1 .. Len(s) - 1 : t[i] = IF i < k THEN s[i] ELSE s[i + 1]

(***************************************************************************)
(* What InsertAt returns.                                                  *)
(***************************************************************************)
LEMMA Inserted ==
  ASSUME NEW s \in Seq(Timer), NEW e \in Timer, NEW k \in 1 .. Len(s) + 1
  PROVE  IsInsert(InsertAt(s, k, e), s, k, e)
<1> DEFINE a == SubSeq(s, 1, k - 1)
           b == SubSeq(s, k, Len(s))
           c == a \o <<e>>
<1>1. /\ a \in Seq(Timer) /\ Len(a) = k - 1 /\ \A i \in 1 .. k - 1 : a[i] = s[i]
  OBVIOUS
<1>2. /\ b \in Seq(Timer) /\ Len(b) = Len(s) - k + 1
      /\ \A i \in 1 .. Len(s) - k + 1 : b[i] = s[k + i - 1]
  OBVIOUS
<1> HIDE DEF a, b
<1>3. /\ c \in Seq(Timer) /\ Len(c) = k /\ c[k] = e /\ \A i \in 1 .. k - 1 : c[i] = s[i]
  BY <1>1
<1>4. InsertAt(s, k, e) = c \o b
  BY DEF InsertAt, a, b, c
<1> HIDE DEF c
<1>5. /\ c \o b \in Seq(Timer) /\ Len(c \o b) = Len(s) + 1
      /\ \A i \in 1 .. k : (c \o b)[i] = c[i]
      /\ \A i \in k + 1 .. Len(s) + 1 : (c \o b)[i] = b[i - k]
  BY <1>2, <1>3
<1>6. ASSUME NEW i \in k + 1 .. Len(s) + 1 PROVE b[i - k] = s[i - 1]
  <2>1. i - k \in 1 .. Len(s) - k + 1 /\ k + (i - k) - 1 = i - 1
    OBVIOUS
  <2> QED BY <1>2, <2>1
<1> QED BY <1>3, <1>4, <1>5, <1>6 DEF IsInsert

(***************************************************************************)
(* What RemoveAt returns.                                                  *)
(***************************************************************************)
LEMMA Removed ==
  ASSUME NEW s \in Seq(Timer), NEW k \in 1 .. Len(s)
  PROVE  IsRemove(RemoveAt(s, k), s, k)
<1> DEFINE a == SubSeq(s, 1, k - 1)
           b == SubSeq(s, k + 1, Len(s))
           m == k - 1
           n == Len(s) - k
<1>1. /\ a \in Seq(Timer) /\ Len(a) = m /\ \A i \in 1 .. m : a[i] = s[i]
  OBVIOUS
<1>2. /\ b \in Seq(Timer) /\ Len(b) = n /\ \A i \in 1 .. n : b[i] = s[k + i]
  OBVIOUS
<1>3. RemoveAt(s, k) = a \o b
  BY DEF RemoveAt
<1>4. m \in Nat /\ n \in Nat /\ m + 1 = k /\ m + n = Len(s) - 1 /\ Len(s) \in Nat
  OBVIOUS
<1> HIDE DEF a, b, m, n
<1>5. /\ a \o b \in Seq(Timer) /\ Len(a \o b) = m + n
      /\ \A i \in 1 .. m : (a \o b)[i] = a[i]
      /\ \A i \in m + 1 .. m + n : (a \o b)[i] = b[i - m]
  <2>0. a \in Seq(Timer) /\ b \in Seq(Timer)
    BY <1>1, <1>2
  <2>1. a \o b \in Seq(Timer) /\ Len(a \o b) = Len(a) + Len(b)
    BY <2>0
  <2>2. \A i \in 1 .. Len(a) + Len(b) : (a \o b)[i] = IF i <= Len(a) THEN a[i] ELSE b[i - Len(a)]
    BY <1>1, <1>2
  <2> QED BY <1>1, <1>2, <1>4, <2>1, <2>2
<1>6. ASSUME NEW i \in k .. Len(s) - 1 PROVE (a \o b)[i] = s[i + 1]
  <2>1. i - m \in 1 .. n /\ k + (i - m) = i + 1 /\ i \in m + 1 .. m + n
    BY <1>4
  <2> QED BY <1>2, <1>5, <2>1
<1>7. ASSUME NEW i \in 1 .. Len(s) - 1, i < k PROVE (a \o b)[i] = s[i]
  BY <1>1, <1>4, <1>5, <1>7
<1>8. ASSUME NEW i \in 1 .. Len(s) - 1, ~(i < k) PROVE (a \o b)[i] = s[i + 1]
  <2>1. i \in k .. Len(s) - 1
    BY <1>8
  <2> QED BY <1>6, <2>1
<1> QED BY <1>3, <1>4, <1>5, <1>7, <1>8 DEF IsRemove

(***************************************************************************)
(* The unsigned arithmetic does not wrap around within 0 .. MaxExpires.    *)
(***************************************************************************)
LEMMA NoWrap ==
  ASSUME NEW a \in 0 .. MaxExpires
  PROVE  a % (MaxExpires + 1) = a
  OBVIOUS

----------------------------------------------------------------------------
(* When the timers go off.                                                 *)

(***************************************************************************)
(* The timers of a list.                                                   *)
(***************************************************************************)
LEMMA TimerAt ==
  ASSUME NEW list \in Seq(Timer)
  PROVE  /\ Len(list) \in Nat
         /\ \A i \in 1 .. Len(list) : /\ list[i].proc \in Proc
                                     /\ list[i].expires \in 0 .. MaxExpires
                                     /\ list[i].expires \in Nat
<1>1. \A i \in 1 .. Len(list) : list[i] \in Timer
  OBVIOUS
<1>2. \A t \in Timer : t.proc \in Proc /\ t.expires \in 0 .. MaxExpires /\ t.expires \in Nat
  BY DEF Timer
<1> QED BY <1>1, <1>2

\* s adds up the ticks of the list.
SumOf(list, s) ==
    /\ s \in [0 .. Len(list) -> Int]
    /\ s[0] = 0
    /\ \A i \in 1 .. Len(list) : s[i] = s[i - 1] + list[i].expires

(***************************************************************************)
(* When adds up the ticks of the list.                                     *)
(***************************************************************************)
LEMMA WhenSums ==
  ASSUME NEW list \in Seq(Timer)
  PROVE  SumOf(list, When(list))
<1> DEFINE N == Len(list)
           G == [i \in 0 .. N - 1 |-> [x \in Int |-> x + list[i + 1].expires]]
           Is(f) == f = [i \in 0 .. N |-> IF i = 0 THEN 0 ELSE f[i - 1] + list[i].expires]
           sum == CHOOSE f : Is(f)
<1>0. N \in Nat /\ \A i \in 1 .. N : list[i].expires \in Int
  BY TimerAt
<1>1. G \in Rounds(N, Int)
  <2> HIDE DEF N
  <2>1. \A i \in 0 .. N - 1 : list[i + 1].expires \in Int
    BY <1>0
  <2> QED BY <2>1 DEF Rounds
<1>2. PICK f \in [0 .. N -> Int] : Runs(N, 0, G, f)
  <2>1. 0 \in Int
    OBVIOUS
  <2> HIDE DEF N, G
  <2> QED BY <1>0, <1>1, <2>1, LoopExists
<1>3. ASSUME NEW i \in 1 .. N PROVE f[i] = f[i - 1] + list[i].expires
  <2>1. i - 1 \in 0 .. N - 1 /\ i - 1 \in 0 .. N /\ (i - 1) + 1 = i
    BY <1>0
  <2>2. f[i - 1] \in Int /\ f[i] = G[i - 1][f[i - 1]]
    BY <1>2, <2>1 DEF Runs
  <2> QED BY <2>1, <2>2
<1>4. f[0] = 0
  BY <1>2 DEF Runs
<1> HIDE DEF N, G
<1>5. Is(f)
  BY <1>0, <1>2, <1>3, <1>4
<1>6. Is(sum)
  BY <1>5
<1>7. When(list) = sum
  BY DEF When, N
<1> HIDE DEF sum
<1>8. sum[0] = 0 /\ \A i \in 1 .. N : sum[i] = sum[i - 1] + list[i].expires
  BY <1>0, <1>6
<1>9. \A i \in 0 .. N : sum[i] = f[i]
  <2> DEFINE T == {i \in 0 .. N : sum[i] = f[i]}
  <2>1. 0 \in T
    BY <1>0, <1>4, <1>8
  <2>2. ASSUME NEW i \in 0 .. N - 1, i \in T PROVE i + 1 \in T
    <3>1. i + 1 \in 1 .. N /\ (i + 1) - 1 = i /\ i + 1 \in 0 .. N
      BY <1>0
    <3> QED BY <1>3, <1>8, <2>2, <3>1
  <2> HIDE DEF T
  <2>3. \A i \in 0 .. N : i \in T
    BY <1>0, <2>1, <2>2, LoopInduction
  <2> QED BY <2>3 DEF T
<1>10. sum = f
  BY <1>2, <1>6, <1>9
<1> QED BY <1>2, <1>3, <1>4, <1>7, <1>10 DEF SumOf, N

(***************************************************************************)
(* What adds up the ticks of a list is When of it.                         *)
(***************************************************************************)
LEMMA SumUnique ==
  ASSUME NEW list \in Seq(Timer), NEW s, SumOf(list, s)
  PROVE  s = When(list)
<1> DEFINE w == When(list)
           N == Len(list)
<1>1. SumOf(list, w)
  BY WhenSums
<1> HIDE DEF w
<1> DEFINE T == {i \in 0 .. N : s[i] = w[i]}
<1>2. 0 \in T /\ N \in Nat
  BY <1>1 DEF SumOf
<1>3. ASSUME NEW i \in 0 .. N - 1, i \in T PROVE i + 1 \in T
  <2>1. i + 1 \in 1 .. N /\ (i + 1) - 1 = i /\ i + 1 \in 0 .. N
    BY <1>2
  <2>2. s[i + 1] = s[i] + list[i + 1].expires /\ w[i + 1] = w[i] + list[i + 1].expires
    BY <1>1, <2>1 DEF SumOf
  <2> QED BY <1>3, <2>1, <2>2
<1>4. \A i \in 0 .. N : i \in T
  <2> HIDE DEF T, N
  <2> QED BY <1>2, <1>3, LoopInduction
<1>5. \A i \in 0 .. N : s[i] = w[i]
  BY <1>4
<1> QED BY <1>1, <1>5 DEF SumOf, w

(***************************************************************************)
(* A timer goes off no earlier than one before it.                         *)
(***************************************************************************)
LEMMA SumGrows ==
  ASSUME NEW list \in Seq(Timer), NEW s, SumOf(list, s)
  PROVE  \A i, j \in 0 .. Len(list) : i <= j => s[i] <= s[j]
<1> DEFINE N == Len(list)
<1>0. /\ N \in Nat /\ \A i \in 0 .. N : s[i] \in Int
      /\ \A i \in 1 .. N : list[i].expires \in Nat /\ s[i] = s[i - 1] + list[i].expires
  BY TimerAt DEF SumOf
<1> HIDE DEF N
<1> DEFINE T == {j \in 0 .. N : \A i \in 0 .. N : i <= j => s[i] <= s[j]}
<1>1. 0 \in T
  BY <1>0
<1>2. ASSUME NEW j \in 0 .. N - 1, j \in T PROVE j + 1 \in T
  <2>1. j + 1 \in 1 .. N /\ (j + 1) - 1 = j /\ j + 1 \in 0 .. N /\ j \in 0 .. N
    BY <1>0
  <2>2. s[j] <= s[j + 1]
    BY <1>0, <2>1
  <2>3. ASSUME NEW i \in 0 .. N, i <= j + 1 PROVE s[i] <= s[j + 1]
    <3>1. CASE i = j + 1
      BY <1>0, <2>1, <3>1
    <3>2. CASE i # j + 1
      <4>1. i <= j
        BY <2>3, <3>2, <1>0
      <4>2. s[i] <= s[j]
        BY <1>2, <4>1
      <4> QED BY <1>0, <2>1, <2>2, <4>2
    <3> QED BY <3>1, <3>2
  <2> QED BY <2>1, <2>3
<1>3. \A j \in 0 .. N : j \in T
  <2> HIDE DEF T
  <2> QED BY <1>0, <1>1, <1>2, LoopInduction
<1> QED BY <1>3 DEF N

----------------------------------------------------------------------------
(* What holds of the list, and what the operations do to it.               *)

\* No two timers of one process; the first is not at 0; the last goes off
\* within what an unsigned integer expresses.
ListOK(list) ==
    /\ list \in Seq(Timer)
    /\ \A i, j \in 1 .. Len(list) : list[i].proc = list[j].proc => i = j
    /\ Len(list) > 0 => list[1].expires > 0
    /\ When(list)[Len(list)] <= MaxExpires

(***************************************************************************)
(* Every timer of the list goes off within 1 .. MaxExpires ticks.          *)
(***************************************************************************)
LEMMA ListFacts ==
  ASSUME NEW list, ListOK(list)
  PROVE  /\ Len(list) \in Nat /\ SumOf(list, When(list)) /\ When(list)[0] = 0
         /\ \A i \in 0 .. Len(list) : When(list)[i] \in 0 .. MaxExpires
         /\ \A i \in 1 .. Len(list) :
               /\ list[i].proc \in Proc /\ list[i].expires \in 0 .. MaxExpires
               /\ When(list)[i] = When(list)[i - 1] + list[i].expires
               /\ When(list)[i] > 0
         /\ \A i, j \in 0 .. Len(list) : i <= j => When(list)[i] <= When(list)[j]
<1> DEFINE s == When(list)
           N == Len(list)
<1>0. list \in Seq(Timer) /\ (N > 0 => list[1].expires > 0) /\ s[N] <= MaxExpires
  BY DEF ListOK
<1>1. SumOf(list, s)
  BY <1>0, WhenSums
<1> HIDE DEF s
<1>2. \A i, j \in 0 .. N : i <= j => s[i] <= s[j]
  BY <1>0, <1>1, SumGrows
<1>3. /\ N \in Nat
      /\ \A i \in 1 .. N : list[i].proc \in Proc /\ list[i].expires \in 0 .. MaxExpires
  BY <1>0, TimerAt
<1> HIDE DEF N
<1>4. /\ s[0] = 0 /\ \A i \in 0 .. N : s[i] \in Int
      /\ \A i \in 1 .. N : s[i] = s[i - 1] + list[i].expires
  BY <1>1 DEF SumOf, N
<1>5. ASSUME NEW i \in 0 .. N PROVE s[i] \in 0 .. MaxExpires
  <2>1. 0 \in 0 .. N /\ N \in 0 .. N /\ 0 <= i /\ i <= N
    BY <1>3
  <2>2. s[0] <= s[i] /\ s[i] <= s[N] /\ s[i] \in Int /\ s[N] \in Int
    BY <1>2, <1>4, <2>1
  <2> QED BY <1>0, <1>4, <2>2
<1>6. ASSUME NEW i \in 1 .. N PROVE s[i] > 0
  <2>1. 1 \in 1 .. N /\ 1 \in 0 .. N /\ i \in 0 .. N /\ 1 <= i /\ N > 0
    BY <1>3
  <2>2. s[1] = s[0] + list[1].expires /\ list[1].expires > 0 /\ list[1].expires \in Int
    <3>1. 1 - 1 = 0
      OBVIOUS
    <3> QED BY <1>0, <1>3, <1>4, <2>1, <3>1
  <2>3. s[1] <= s[i] /\ s[i] \in Int
    BY <1>2, <1>4, <2>1
  <2> QED BY <1>4, <2>2, <2>3
<1> QED BY <1>1, <1>2, <1>3, <1>4, <1>5, <1>6 DEF s, N

\* The walk of add_timer stops before timer k; the timer of p is linked there
\* with r ticks.
Stops(list, n, k) ==
    /\ \A i \in 1 .. k - 1 : n - When(list)[i - 1] >= list[i].expires
    /\ k <= Len(list) => n - When(list)[k - 1] < list[k].expires
Linked(list, k, p, r) ==
    InsertAt([i \in 1 .. Len(list) |->
                 IF i = k THEN [list[i] EXCEPT !.expires = @ - r] ELSE list[i]],
             k, [proc |-> p, expires |-> r])

(***************************************************************************)
(* add_timer keeps the others' times and gives p the time n.               *)
(***************************************************************************)
LEMMA AddList ==
  ASSUME NEW list, ListOK(list), NEW p \in Proc, NEW n \in 1 .. MaxExpires,
         \A i \in 1 .. Len(list) : list[i].proc # p,
         NEW k \in 1 .. Len(list) + 1, Stops(list, n, k),
         NEW r, r = n - When(list)[k - 1], NEW after, after = Linked(list, k, p, r)
  PROVE  /\ ListOK(after) /\ Len(after) = Len(list) + 1
         /\ \A i \in 1 .. Len(list) + 1 :
               /\ after[i].proc = IF i < k THEN list[i].proc
                                  ELSE IF i = k THEN p ELSE list[i - 1].proc
               /\ When(after)[i] = IF i < k THEN When(list)[i]
                                   ELSE IF i = k THEN n ELSE When(list)[i - 1]
<1> DEFINE N == Len(list)
           s == When(list)
           cut == [i \in 1 .. N |->
                     IF i = k THEN [list[i] EXCEPT !.expires = @ - r] ELSE list[i]]
           new == [proc |-> p, expires |-> r]
<1>0. /\ N \in Nat /\ list \in Seq(Timer) /\ s[0] = 0
      /\ \A i \in 0 .. N : s[i] \in 0 .. MaxExpires
      /\ \A i \in 1 .. N : /\ list[i].proc \in Proc /\ list[i].expires \in 0 .. MaxExpires
                            /\ s[i] = s[i - 1] + list[i].expires
  BY ListFacts DEF ListOK
<1>1. list[1].expires > 0 \/ N = 0
  BY <1>0 DEF ListOK
<1>1a. \A i, j \in 1 .. N : list[i].proc = list[j].proc => i = j
  BY DEF ListOK
<1> HIDE DEF s
<1>2. r \in 0 .. MaxExpires /\ r <= n /\ (k = 1 => r = n)
  <2>1. k - 1 \in 0 .. N /\ k \in Int
    BY <1>0
  <2>2. s[k - 1] \in 0 .. MaxExpires /\ r = n - s[k - 1]
    BY <1>0, <2>1 DEF s
  <2>3. CASE k = 1
    <3>1. s[k - 1] = 0
      BY <1>0, <2>3
    <3> QED BY <2>2, <3>1
  <2>4. CASE k # 1
    <3>1. k - 1 \in 1 .. N /\ k - 1 \in 1 .. k - 1 /\ (k - 1) - 1 \in 0 .. N
      BY <1>0, <2>4
    <3>2. s[k - 1] = s[(k - 1) - 1] + list[k - 1].expires /\ list[k - 1].expires \in Int
          /\ s[(k - 1) - 1] \in Int
      BY <1>0, <3>1
    <3>3. n - s[(k - 1) - 1] >= list[k - 1].expires
      BY <3>1 DEF s, Stops
    <3>4. s[k - 1] <= n
      <4>1. \A a, e, x \in Int : x - a >= e => a + e <= x
        OBVIOUS
      <4> QED BY <3>2, <3>3, <4>1
    <3>5. \A a, x \in 0 .. MaxExpires : a <= x => x - a \in 0 .. MaxExpires /\ x - a <= x
      OBVIOUS
    <3>6. n \in 0 .. MaxExpires
      OBVIOUS
    <3> QED BY <2>2, <2>4, <3>4, <3>5, <3>6
  <2> QED BY <2>3, <2>4
<1>3. /\ cut \in Seq(Timer) /\ Len(cut) = N
      /\ \A i \in 1 .. N : /\ cut[i].proc = list[i].proc
                            /\ cut[i].expires = list[i].expires - (IF i = k THEN r ELSE 0)
  <2>1. ASSUME NEW i \in 1 .. N
        PROVE  /\ cut[i].proc = list[i].proc /\ cut[i] \in Timer
               /\ cut[i].expires = list[i].expires - (IF i = k THEN r ELSE 0)
    <3>0. list[i] \in Timer
      BY <1>0
    <3>1. CASE i = k
      <4>1. cut[i] = [list[i] EXCEPT !.expires = @ - r]
        BY <3>1
      <4>2. list[i].expires - r \in 0 .. MaxExpires
        <5>1. r < list[i].expires
          BY <1>0, <3>1 DEF Stops
        <5>2. list[i].expires \in 0 .. MaxExpires
          BY <1>0
        <5> QED BY <1>2, <5>1, <5>2
      <4> HIDE DEF cut
      <4> QED BY <3>0, <3>1, <4>1, <4>2 DEF Timer
    <3>2. CASE i # k
      <4>1. cut[i] = list[i]
        BY <3>2
      <4> QED BY <1>0, <3>0, <3>2, <4>1
    <3> QED BY <3>1, <3>2
  <2>2. DOMAIN cut = 1 .. N
    OBVIOUS
  <2>3. cut = [i \in 1 .. N |-> cut[i]]
    OBVIOUS
  <2> HIDE DEF cut
  <2>4. cut \in [1 .. N -> Timer]
    BY <2>1, <2>3
  <2>5. cut \in Seq(Timer) /\ Len(cut) = N
    <3>1. N \in Nat
      BY <1>0
    <3> HIDE DEF N
    <3> QED BY <2>4, <3>1, FunctionIsSeq
  <2>6. \A i \in 1 .. N : /\ cut[i].proc = list[i].proc
                          /\ cut[i].expires = list[i].expires - (IF i = k THEN r ELSE 0)
    BY <2>1
  <2> QED BY <2>5, <2>6, Zenon
<1>4. new \in Timer /\ new.proc = p /\ new.expires = r
  BY <1>2 DEF Timer
<1>5. after = InsertAt(cut, k, new)
  BY DEF Linked
<1> HIDE DEF cut, new, N
<1>6. k \in 1 .. N + 1 /\ k \in Int
  BY <1>0 DEF N
<1>7. /\ after \in Seq(Timer) /\ Len(after) = N + 1
      /\ \A i \in 1 .. N + 1 :
            after[i] = IF i < k THEN cut[i] ELSE IF i = k THEN new ELSE cut[i - 1]
  <2>1. cut \in Seq(Timer) /\ Len(cut) = N /\ new \in Timer /\ k \in 1 .. Len(cut) + 1
    BY <1>3, <1>4, <1>6
  <2>2. IsInsert(InsertAt(cut, k, new), cut, k, new)
    BY <2>1, Inserted
  <2>3. IsInsert(after, cut, k, new)
    BY <1>5, <2>2
  <2> QED BY <2>1, <2>3, Zenon DEF IsInsert
<1>8. ASSUME NEW i \in 1 .. N + 1
      PROVE  /\ i < k => /\ i \in 1 .. N /\ after[i].proc = list[i].proc
                         /\ after[i].expires = list[i].expires
             /\ i = k => after[i].proc = p /\ after[i].expires = r
             /\ i > k => /\ i - 1 \in 1 .. N /\ after[i].proc = list[i - 1].proc
                         /\ after[i].expires = list[i - 1].expires
                                                  - (IF i = k + 1 THEN r ELSE 0)
  <2>1. CASE i < k
    <3>1. i \in 1 .. N /\ i # k /\ ~(i > k)
      BY <1>0, <1>6, <2>1
    <3>2. after[i] = cut[i]
      BY <1>7, <2>1
    <3>3. cut[i].proc = list[i].proc /\ cut[i].expires = list[i].expires - 0
      BY <1>3, <3>1
    <3>4. list[i].expires \in Int
      BY <1>0, <3>1
    <3> QED BY <3>1, <3>2, <3>3, <3>4
  <2>2. CASE i = k
    BY <1>4, <1>6, <1>7, <2>2
  <2>3. CASE i > k
    <3>1. i - 1 \in 1 .. N /\ (i - 1 = k <=> i = k + 1)
      BY <1>0, <1>6, <2>3
    <3>2. ~(i < k) /\ i # k
      BY <1>6, <2>3
    <3>3. after[i] = cut[i - 1]
      BY <1>7, <3>2
    <3>4. /\ cut[i - 1].proc = list[i - 1].proc
          /\ cut[i - 1].expires = list[i - 1].expires - (IF i - 1 = k THEN r ELSE 0)
      BY <1>3, <3>1
    <3> QED BY <3>1, <3>2, <3>3, <3>4
  <2> QED BY <1>6, <2>1, <2>2, <2>3
<1> DEFINE t == [i \in 0 .. N + 1 |-> IF i < k THEN s[i] ELSE IF i = k THEN n ELSE s[i - 1]]
<1>9. SumOf(after, t)
  <2>1. t[0] = 0
    BY <1>0, <1>6
  <2>2. t \in [0 .. N + 1 -> Int]
    <3>1. ASSUME NEW i \in 0 .. N + 1 PROVE t[i] \in Int
      <4>1. i < k => i \in 0 .. N
        BY <1>0, <1>6
      <4>2. i > k => i - 1 \in 0 .. N
        BY <1>0, <1>6
      <4> QED BY <1>0, <1>6, <4>1, <4>2
    <3> QED BY <3>1
  <2>3. ASSUME NEW i \in 1 .. N + 1 PROVE t[i] = t[i - 1] + after[i].expires
    <3>0. i - 1 \in 0 .. N + 1 /\ i \in 0 .. N + 1 /\ i - 1 \in 0 .. N
      BY <1>0
    <3>1. CASE i < k
      <4>1. i - 1 < k /\ t[i] = s[i] /\ t[i - 1] = s[i - 1]
        BY <1>6, <3>0, <3>1
      <4> QED BY <1>0, <1>8, <3>1, <4>1
    <3>2. CASE i = k
      <4>1. t[i] = n /\ t[i - 1] = s[i - 1]
        BY <1>6, <3>0, <3>2
      <4>2. after[i].expires = n - s[i - 1] /\ s[i - 1] \in Int
        BY <1>0, <1>8, <3>0, <3>2 DEF s
      <4> QED BY <4>1, <4>2
    <3>3. CASE i = k + 1
      <4>1. t[i] = s[i - 1] /\ t[i - 1] = n /\ i - 1 = k /\ k \in 1 .. N
        BY <1>0, <1>6, <3>0, <3>3
      <4>2. after[i].expires = list[k].expires - r /\ s[k] = s[k - 1] + list[k].expires
            /\ list[k].expires \in Int
        <5>1. i > k
          BY <1>6, <3>3
        <5>2. after[i].expires = list[i - 1].expires - r
          BY <1>8, <3>3, <5>1
        <5> QED BY <1>0, <4>1, <5>2
      <4>3. r = n - s[k - 1] /\ s[k - 1] \in Int
        BY <1>0, <4>1 DEF s
      <4> QED BY <4>1, <4>2, <4>3
    <3>4. CASE i > k + 1
      <4>1. t[i] = s[i - 1] /\ t[i - 1] = s[(i - 1) - 1] /\ i - 1 \in 1 .. N
        BY <1>0, <1>6, <3>0, <3>4
      <4> HIDE DEF t
      <4>2. after[i].expires = list[i - 1].expires /\ list[i - 1].expires \in Int
        <5>1. i > k /\ i # k + 1
          BY <1>6, <3>4
        <5>2. after[i].expires = list[i - 1].expires - 0
          BY <1>8, <5>1
        <5>3. list[i - 1].expires \in Int
          BY <1>0, <4>1
        <5>4. \A a \in Int : a - 0 = a
          OBVIOUS
        <5> QED BY <5>2, <5>3, <5>4, Zenon
      <4> QED BY <1>0, <4>1, <4>2
    <3> QED BY <1>6, <3>1, <3>2, <3>3, <3>4
  <2> HIDE DEF t
  <2> QED BY <1>7, <2>1, <2>2, <2>3 DEF SumOf
<1>10. When(after) = t
  <2> HIDE DEF t
  <2> QED BY <1>7, <1>9, SumUnique
<1>11. \A i \in 1 .. N + 1 :
          When(after)[i] = IF i < k THEN s[i] ELSE IF i = k THEN n ELSE s[i - 1]
  BY <1>0, <1>10
<1>12. \A i, j \in 1 .. N + 1 : after[i].proc = after[j].proc => i = j
  <2> SUFFICES ASSUME NEW i \in 1 .. N + 1, NEW j \in 1 .. N + 1, after[i].proc = after[j].proc
               PROVE  i = j
      OBVIOUS
  <2>1. \A h \in 1 .. N : list[h].proc # p
    BY DEF N
  <2> DEFINE at(h) == IF h < k THEN h ELSE h - 1
  <2>2. ASSUME NEW h \in 1 .. N + 1, h # k
        PROVE  at(h) \in 1 .. N /\ after[h].proc = list[at(h)].proc
    <3>1. CASE h < k
      BY <1>8, <3>1
    <3>2. CASE h > k
      <4>1. ~(h < k)
        BY <1>6, <3>2
      <4> QED BY <1>8, <3>2, <4>1
    <3> QED BY <1>6, <2>2, <3>1, <3>2
  <2>3. CASE i # k /\ j # k
    <3>1. /\ at(i) \in 1 .. N /\ after[i].proc = list[at(i)].proc
          /\ at(j) \in 1 .. N /\ after[j].proc = list[at(j)].proc
      BY <2>2, <2>3
    <3>2. at(i) = at(j)
      <4> HIDE DEF at
      <4> QED BY <1>1a, <3>1
    <3> QED BY <1>6, <2>3, <3>2
  <2>6. CASE i = k /\ j = k
    BY <2>6
  <2>7. CASE i = k /\ j # k
    <3>1. after[i].proc = p
      BY <1>8, <2>7
    <3>2. at(j) \in 1 .. N /\ after[j].proc = list[at(j)].proc
      BY <2>2, <2>7
    <3> HIDE DEF at
    <3> QED BY <2>1, <3>1, <3>2
  <2>8. CASE i # k /\ j = k
    <3>1. after[j].proc = p
      BY <1>8, <2>8
    <3>2. at(i) \in 1 .. N /\ after[i].proc = list[at(i)].proc
      BY <2>2, <2>8
    <3> HIDE DEF at
    <3> QED BY <2>1, <3>1, <3>2
  <2> QED BY <2>3, <2>6, <2>7, <2>8
<1>13. after[1].expires > 0
  <2>1. 1 \in 1 .. N + 1
    BY <1>0
  <2>2. CASE k = 1
    BY <1>2, <1>8, <2>1, <2>2
  <2>3. CASE k # 1
    <3>1. 1 < k
      BY <1>6, <2>3
    <3> QED BY <1>1, <1>8, <2>1, <3>1
  <2> QED BY <2>2, <2>3
<1>14. When(after)[N + 1] <= MaxExpires
  <2>1. N + 1 \in 1 .. N + 1 /\ (N + 1) - 1 = N /\ N \in 0 .. N
    BY <1>0
  <2>2. When(after)[N + 1] = n \/ When(after)[N + 1] = s[N]
    BY <1>6, <1>11, <2>1
  <2> QED BY <1>0, <2>1, <2>2
<1>15. ListOK(after)
  BY <1>7, <1>12, <1>13, <1>14, Zenon DEF ListOK
<1>16. \A i \in 1 .. N + 1 :
          after[i].proc = IF i < k THEN list[i].proc ELSE IF i = k THEN p ELSE list[i - 1].proc
  BY <1>6, <1>8
<1> QED BY <1>7, <1>11, <1>15, <1>16 DEF N, s

(***************************************************************************)
(* del_timer keeps the times of the others.                                *)
(***************************************************************************)
LEMMA DelList ==
  ASSUME NEW list, ListOK(list), NEW h \in 1 .. Len(list), NEW after,
         after = RemoveAt([j \in 1 .. Len(list) |->
                             IF j = h + 1
                             THEN [list[j] EXCEPT !.expires = GivenOn(@, list[h].expires)]
                             ELSE list[j]], h)
  PROVE  /\ ListOK(after) /\ Len(after) = Len(list) - 1
         /\ \A j \in 1 .. Len(list) - 1 :
               /\ after[j].proc = IF j < h THEN list[j].proc ELSE list[j + 1].proc
               /\ When(after)[j] = IF j < h THEN When(list)[j] ELSE When(list)[j + 1]
<1> DEFINE N == Len(list)
           s == When(list)
           given == [j \in 1 .. N |->
                       IF j = h + 1
                       THEN [list[j] EXCEPT !.expires = GivenOn(@, list[h].expires)]
                       ELSE list[j]]
<1>0. /\ N \in Nat /\ list \in Seq(Timer) /\ s[0] = 0
      /\ \A i \in 0 .. N : s[i] \in 0 .. MaxExpires
      /\ \A i \in 1 .. N : /\ list[i].proc \in Proc /\ list[i].expires \in 0 .. MaxExpires
                            /\ s[i] = s[i - 1] + list[i].expires
  BY ListFacts DEF ListOK
<1>1. /\ list[1].expires > 0 /\ \A i, j \in 1 .. N : list[i].proc = list[j].proc => i = j
  BY <1>0 DEF ListOK
<1> HIDE DEF s
<1>2. h \in 1 .. N /\ h \in Int /\ h - 1 \in 0 .. N
  BY <1>0
<1>3. ASSUME h + 1 \in 1 .. N
      PROVE  /\ GivenOn(list[h + 1].expires, list[h].expires)
                   = list[h + 1].expires + list[h].expires
             /\ list[h + 1].expires + list[h].expires \in 0 .. MaxExpires
  <2>1. (h + 1) - 1 = h /\ h + 1 \in 0 .. N /\ h \in 0 .. N
    BY <1>2, <1>3
  <2>2. /\ s[h + 1] = s[h] + list[h + 1].expires /\ s[h] = s[h - 1] + list[h].expires
        /\ s[h + 1] \in 0 .. MaxExpires /\ s[h - 1] \in 0 .. MaxExpires
        /\ list[h].expires \in Nat /\ list[h + 1].expires \in Nat
    BY <1>0, <1>2, <1>3, <2>1
  <2>3. list[h + 1].expires + list[h].expires \in 0 .. MaxExpires
    <3>1. \A z \in 0 .. MaxExpires : \A a, b \in Nat :
             (z + a) + b \in 0 .. MaxExpires => b + a \in 0 .. MaxExpires
      OBVIOUS
    <3> QED BY <2>2, <3>1, Zenon
  <2> QED BY <2>3, NoWrap DEF GivenOn
<1>4. /\ given \in Seq(Timer) /\ Len(given) = N
      /\ \A i \in 1 .. N :
            /\ given[i].proc = list[i].proc
            /\ given[i].expires = list[i].expires + (IF i = h + 1 THEN list[h].expires ELSE 0)
  <2>1. ASSUME NEW i \in 1 .. N
        PROVE  /\ given[i].proc = list[i].proc /\ given[i] \in Timer
               /\ given[i].expires = list[i].expires + (IF i = h + 1 THEN list[h].expires ELSE 0)
    <3>0. list[i] \in Timer
      BY <1>0
    <3>1. CASE i = h + 1
      <4>1. given[i] = [list[i] EXCEPT !.expires = GivenOn(@, list[h].expires)]
        BY <3>1
      <4> HIDE DEF given
      <4>2. GivenOn(list[i].expires, list[h].expires) = list[i].expires + list[h].expires
            /\ list[i].expires + list[h].expires \in 0 .. MaxExpires
        BY <1>3, <3>1
      <4> QED BY <3>0, <3>1, <4>1, <4>2 DEF Timer
    <3>2. CASE i # h + 1
      <4>1. given[i] = list[i]
        BY <3>2
      <4> QED BY <1>0, <3>0, <3>2, <4>1
    <3> QED BY <3>1, <3>2
  <2>2. given = [i \in 1 .. N |-> given[i]]
    OBVIOUS
  <2> HIDE DEF given
  <2>3. given \in [1 .. N -> Timer]
    BY <2>1, <2>2
  <2>4. given \in Seq(Timer) /\ Len(given) = N
    <3>1. N \in Nat
      BY <1>0
    <3> HIDE DEF N
    <3> QED BY <2>3, <3>1, FunctionIsSeq
  <2>5. \A i \in 1 .. N :
            /\ given[i].proc = list[i].proc
            /\ given[i].expires = list[i].expires + (IF i = h + 1 THEN list[h].expires ELSE 0)
    BY <2>1
  <2> QED BY <2>4, <2>5, Zenon
<1>5. after = RemoveAt(given, h)
  OBVIOUS
<1> HIDE DEF given, N
<1>6. /\ after \in Seq(Timer) /\ Len(after) = N - 1
      /\ \A i \in 1 .. N - 1 : after[i] = IF i < h THEN given[i] ELSE given[i + 1]
  <2>1. given \in Seq(Timer) /\ Len(given) = N /\ h \in 1 .. Len(given)
    BY <1>2, <1>4
  <2>2. IsRemove(RemoveAt(given, h), given, h)
    BY <2>1, Removed
  <2>3. IsRemove(after, given, h)
    BY <1>5, <2>2
  <2> QED BY <2>1, <2>3, Zenon DEF IsRemove
<1>7. ASSUME NEW i \in 1 .. N - 1
      PROVE  /\ i < h => /\ i \in 1 .. N /\ after[i].proc = list[i].proc
                         /\ after[i].expires = list[i].expires
             /\ ~(i < h) => /\ i + 1 \in 1 .. N /\ after[i].proc = list[i + 1].proc
                            /\ after[i].expires = list[i + 1].expires
                                                     + (IF i = h THEN list[h].expires ELSE 0)
  <2>1. CASE i < h
    <3>1. i \in 1 .. N /\ i # h + 1
      BY <1>0, <1>2, <2>1
    <3>2. after[i] = given[i]
      BY <1>6, <2>1
    <3>3. given[i].proc = list[i].proc /\ given[i].expires = list[i].expires
      BY <1>0, <1>4, <3>1
    <3> QED BY <2>1, <3>1, <3>2, <3>3
  <2>2. CASE ~(i < h)
    <3>1. i + 1 \in 1 .. N /\ (i + 1 = h + 1 <=> i = h)
      BY <1>0, <1>2, <2>2
    <3>2. after[i] = given[i + 1]
      BY <1>6, <2>2
    <3>3. /\ given[i + 1].proc = list[i + 1].proc
          /\ given[i + 1].expires = list[i + 1].expires
                                      + (IF i + 1 = h + 1 THEN list[h].expires ELSE 0)
      BY <1>4, <3>1
    <3> QED BY <2>2, <3>1, <3>2, <3>3
  <2> QED BY <2>1, <2>2
<1> DEFINE t == [i \in 0 .. N - 1 |-> IF i < h THEN s[i] ELSE s[i + 1]]
<1>8. SumOf(after, t)
  <2>1. t[0] = 0
    BY <1>0, <1>2
  <2>2. t \in [0 .. N - 1 -> Int]
    <3>1. ASSUME NEW i \in 0 .. N - 1 PROVE t[i] \in Int
      <4>1. i \in 0 .. N /\ i + 1 \in 0 .. N
        BY <1>0
      <4> QED BY <1>0, <4>1
    <3> QED BY <3>1
  <2>3. ASSUME NEW i \in 1 .. N - 1 PROVE t[i] = t[i - 1] + after[i].expires
    <3>0. i - 1 \in 0 .. N - 1 /\ i \in 0 .. N - 1 /\ i \in 1 .. N /\ i + 1 \in 1 .. N
          /\ (i + 1) - 1 = i /\ (i - 1) + 1 = i
      BY <1>0
    <3>1. CASE i < h
      <4>1. i - 1 < h /\ t[i] = s[i] /\ t[i - 1] = s[i - 1]
        BY <1>2, <3>0, <3>1
      <4> QED BY <1>0, <1>7, <3>0, <3>1, <4>1
    <3>2. CASE i = h
      <4>1. t[i] = s[i + 1] /\ t[i - 1] = s[i - 1] /\ ~(i < h)
        BY <1>2, <3>0, <3>2
      <4> HIDE DEF t
      <4>2. after[i].expires = list[i + 1].expires + list[i].expires
        BY <1>7, <3>2, <4>1
      <4>3. s[i + 1] = s[i] + list[i + 1].expires /\ s[i] = s[i - 1] + list[i].expires
            /\ list[i].expires \in Int /\ list[i + 1].expires \in Int /\ s[i - 1] \in Int
        <5>1. s[i + 1] = s[i] + list[i + 1].expires /\ s[i] = s[i - 1] + list[i].expires
          BY <1>0, <3>0, Zenon
        <5>2. i - 1 \in 0 .. N /\ 0 .. MaxExpires \subseteq Int
          BY <1>0
        <5> QED BY <1>0, <3>0, <5>1, <5>2, Zenon
      <4> QED BY <4>1, <4>2, <4>3
    <3>3. CASE i > h
      <4>1. t[i] = s[i + 1] /\ t[i - 1] = s[i] /\ ~(i < h) /\ i # h
        <5>1. ~(i < h) /\ ~(i - 1 < h) /\ i # h
          BY <1>2, <3>3
        <5> QED BY <3>0, <5>1
      <4> HIDE DEF t
      <4>2. after[i].expires = list[i + 1].expires + 0
        BY <1>7, <4>1
      <4>3. s[i + 1] = s[i] + list[i + 1].expires /\ list[i + 1].expires \in Int
        BY <1>0, <3>0
      <4> QED BY <4>1, <4>2, <4>3
    <3> QED BY <1>2, <3>1, <3>2, <3>3
  <2> HIDE DEF t
  <2> QED BY <1>6, <2>1, <2>2, <2>3 DEF SumOf
<1>9. When(after) = t
  <2> HIDE DEF t
  <2> QED BY <1>6, <1>8, SumUnique
<1>10. \A i \in 0 .. N - 1 : When(after)[i] = IF i < h THEN s[i] ELSE s[i + 1]
  BY <1>9
<1>11. \A i, j \in 1 .. N - 1 : after[i].proc = after[j].proc => i = j
  <2> SUFFICES ASSUME NEW i \in 1 .. N - 1, NEW j \in 1 .. N - 1, after[i].proc = after[j].proc
               PROVE  i = j
      OBVIOUS
  <2> DEFINE at(g) == IF g < h THEN g ELSE g + 1
  <2>1. /\ at(i) \in 1 .. N /\ after[i].proc = list[at(i)].proc
        /\ at(j) \in 1 .. N /\ after[j].proc = list[at(j)].proc
    BY <1>7
  <2>2. at(i) = at(j)
    <3> HIDE DEF at
    <3> QED BY <1>1, <2>1
  <2> QED BY <1>2, <2>2
<1>12. N - 1 > 0 => after[1].expires > 0
  <2>1. ASSUME N - 1 > 0 PROVE after[1].expires > 0
    <3>1. 1 \in 1 .. N - 1
      BY <1>0, <2>1
    <3>2. CASE 1 < h
      BY <1>1, <1>7, <3>1, <3>2
    <3>3. CASE h = 1
      <4>1. ~(1 < h) /\ 1 + 1 \in 1 .. N
        BY <1>0, <2>1, <3>3
      <4>2. after[1].expires = list[1 + 1].expires + list[1].expires
        BY <1>7, <3>1, <3>3, <4>1
      <4>3. list[1 + 1].expires \in Nat /\ list[1].expires \in Nat
        BY <1>0, <1>2, <3>3, <4>1
      <4> QED BY <1>1, <4>2, <4>3
    <3> QED BY <1>2, <3>2, <3>3
  <2> QED BY <2>1
<1>13. When(after)[N - 1] <= MaxExpires
  <2>1. N - 1 \in 0 .. N - 1 /\ (N - 1) + 1 = N /\ N \in 0 .. N /\ N - 1 \in 0 .. N
    BY <1>0, <1>2
  <2>2. When(after)[N - 1] = s[N - 1] \/ When(after)[N - 1] = s[N]
    BY <1>10, <2>1
  <2> QED BY <1>0, <2>1, <2>2
<1>14. ListOK(after)
  BY <1>6, <1>11, <1>12, <1>13 DEF ListOK
<1>15. \A i \in 1 .. N - 1 : /\ after[i].proc = IF i < h THEN list[i].proc ELSE list[i + 1].proc
                             /\ When(after)[i] = IF i < h THEN s[i] ELSE s[i + 1]
  <2> SUFFICES ASSUME NEW i \in 1 .. N - 1
               PROVE  /\ after[i].proc = IF i < h THEN list[i].proc ELSE list[i + 1].proc
                      /\ When(after)[i] = IF i < h THEN s[i] ELSE s[i + 1]
      OBVIOUS
  <2>1. i \in 0 .. N - 1
    BY <1>0
  <2> QED BY <1>7, <1>10, <2>1
<1> QED BY <1>6, <1>14, <1>15 DEF N, s

\* The steps of run_timer_list: the tick, the k timers that are at 0, what is
\* left of the list.
TickOff(list) == [list EXCEPT ![1].expires = (@ - 1) % (MaxExpires + 1)]
Expired(list, k) ==
    /\ \A i \in 1 .. k : list[i].expires = 0
    /\ k < Len(list) => list[k + 1].expires # 0
Remaining(list, k) == SubSeq(list, k + 1, Len(list))

(***************************************************************************)
(* run_timer_list takes a tick off every time; what is at 0 goes off.      *)
(***************************************************************************)
LEMMA TickList ==
  ASSUME NEW list, ListOK(list), Len(list) > 0, NEW ticked,
         ticked = TickOff(list), NEW k \in 0 .. Len(ticked), Expired(ticked, k),
         NEW after, after = Remaining(ticked, k)
  PROVE  /\ ListOK(after) /\ Len(ticked) = Len(list) /\ Len(after) = Len(list) - k
         /\ k \in 0 .. Len(list)
         /\ \A i \in 1 .. Len(list) : /\ ticked[i].proc = list[i].proc
                                      /\ i <= k <=> When(list)[i] = 1
         /\ \A j \in 1 .. Len(list) - k : /\ after[j].proc = list[j + k].proc
                                          /\ When(after)[j] = When(list)[j + k] - 1
<1> DEFINE N == Len(list)
           s == When(list)
<1>0. /\ N \in Nat /\ list \in Seq(Timer) /\ s[0] = 0
      /\ \A i \in 0 .. N : s[i] \in 0 .. MaxExpires
      /\ \A i \in 1 .. N : /\ list[i].proc \in Proc /\ list[i].expires \in 0 .. MaxExpires
                            /\ s[i] = s[i - 1] + list[i].expires /\ s[i] > 0
  BY ListFacts DEF ListOK
<1>1. /\ list[1].expires > 0 /\ \A i, j \in 1 .. N : list[i].proc = list[j].proc => i = j
  BY DEF ListOK
<1> HIDE DEF s
<1>2. N > 0 /\ 1 \in 1 .. N
  BY <1>0
<1>3. /\ ticked \in Seq(Timer) /\ Len(ticked) = N
      /\ \A i \in 1 .. N :
            /\ ticked[i].proc = list[i].proc
            /\ ticked[i].expires = list[i].expires - (IF i = 1 THEN 1 ELSE 0)
  <2>1. list \in [1 .. N -> Timer]
    BY <1>0
  <2>2. list[1].expires - 1 \in 0 .. MaxExpires
    <3>1. list[1].expires \in 0 .. MaxExpires /\ list[1].expires > 0
      BY <1>0, <1>1, <1>2
    <3> QED BY <3>1
  <2>3. (list[1].expires - 1) % (MaxExpires + 1) = list[1].expires - 1
    BY <2>2, NoWrap
  <2>4. ASSUME NEW i \in 1 .. N
        PROVE  /\ ticked[i].proc = list[i].proc /\ ticked[i] \in Timer
               /\ ticked[i].expires = list[i].expires - (IF i = 1 THEN 1 ELSE 0)
    <3>0. list[i] \in Timer
      BY <2>1
    <3>1. CASE i = 1
      <4>1. ticked[i] = [list[i] EXCEPT !.expires = (@ - 1) % (MaxExpires + 1)]
        BY <2>1, <3>1 DEF TickOff
      <4>2. ticked[i] = [list[i] EXCEPT !.expires = list[1].expires - 1]
        BY <2>3, <3>0, <3>1, <4>1 DEF Timer
      <4> QED BY <2>2, <3>0, <3>1, <4>2 DEF Timer
    <3>2. CASE i # 1
      <4>1. ticked[i] = list[i]
        BY <2>1, <3>2 DEF TickOff
      <4> QED BY <1>0, <3>0, <3>2, <4>1
    <3> QED BY <3>1, <3>2
  <2>5. ticked = [i \in 1 .. N |-> ticked[i]]
    BY <2>1 DEF TickOff
  <2>6. ticked \in [1 .. N -> Timer]
    BY <2>4, <2>5
  <2>7. ticked \in Seq(Timer) /\ Len(ticked) = N
    <3>1. N \in Nat
      BY <1>0
    <3> HIDE DEF N
    <3> QED BY <2>6, <3>1, FunctionIsSeq
  <2> QED BY <2>4, <2>7
<1> HIDE DEF N
<1> DEFINE u == [i \in 0 .. N |-> IF i = 0 THEN 0 ELSE s[i] - 1]
<1>4. SumOf(ticked, u)
  <2>1. u \in [0 .. N -> Int] /\ u[0] = 0
    BY <1>0
  <2>2. ASSUME NEW i \in 1 .. N PROVE u[i] = u[i - 1] + ticked[i].expires
    <3>0. i \in 0 .. N /\ i - 1 \in 0 .. N
      BY <1>0
    <3>1. u[i] = s[i] - 1 /\ s[i] = s[i - 1] + list[i].expires
      <4>1. i # 0
        OBVIOUS
      <4>2. u[i] = s[i] - 1
        BY <3>0, <4>1
      <4> QED BY <1>0, <4>2, Zenon
    <3>2. s[i - 1] \in Int /\ s[i] \in Int /\ list[i].expires \in Int
      <4>1. 0 .. MaxExpires \subseteq Int
        OBVIOUS
      <4> QED BY <1>0, <3>0, <4>1, Zenon
    <3>3. CASE i = 1
      <4>1. u[i - 1] = 0 /\ s[i - 1] = 0
        BY <1>0, <3>0, <3>3
      <4> QED BY <1>3, <3>1, <3>2, <3>3, <4>1
    <3>4. CASE i # 1
      <4>1. u[i - 1] = s[i - 1] - 1
        BY <3>0, <3>4
      <4> HIDE DEF u
      <4>2. ticked[i].expires = list[i].expires - 0
        BY <1>3, <3>4
      <4>3. \A a, e \in Int : (a + e) - 1 = (a - 1) + (e - 0)
        OBVIOUS
      <4> QED BY <3>1, <3>2, <4>1, <4>2, <4>3, Zenon
    <3> QED BY <3>3, <3>4
  <2> HIDE DEF u
  <2> QED BY <1>3, <2>1, <2>2 DEF SumOf
<1>5. k \in 0 .. N /\ k \in Nat /\ N \in Nat /\ k <= N /\ N - k \in Nat
  BY <1>0, <1>3
<1>6. \A i \in 1 .. N : u[i] = s[i] - 1 /\ u[i] \in Int
  BY <1>0
<1>6a. u[0] = 0 /\ \A i \in 0 .. N : u[i] \in Int
  BY <1>0
<1> HIDE DEF u
<1>7. \A i \in 0 .. k : u[i] = 0
  <2> DEFINE T == {i \in 0 .. k : u[i] = 0}
  <2>1. 0 \in T
    BY <1>5, <1>6a
  <2>2. ASSUME NEW i \in 0 .. k - 1, i \in T PROVE i + 1 \in T
    <3>1. i + 1 \in 1 .. N /\ (i + 1) - 1 = i /\ i + 1 \in 0 .. k /\ i + 1 \in 1 .. k
      BY <1>5
    <3>2. u[i + 1] = u[i] + ticked[i + 1].expires
      BY <1>3, <1>4, <3>1 DEF SumOf
    <3>3. ticked[i + 1].expires = 0 /\ u[i] = 0
      BY <2>2, <3>1 DEF Expired
    <3> QED BY <3>1, <3>2, <3>3
  <2> HIDE DEF T
  <2>3. \A i \in 0 .. k : i \in T
    BY <1>5, <2>1, <2>2, LoopInduction
  <2> QED BY <2>3 DEF T
<1>8. ASSUME NEW i \in 1 .. N, i > k PROVE u[i] > 0
  <2>1. k + 1 \in 1 .. N /\ (k + 1) - 1 = k /\ k + 1 \in 0 .. N /\ i \in 0 .. N /\ k + 1 <= i
        /\ k < N /\ k \in 0 .. k
    BY <1>5, <1>8
  <2>2. u[k + 1] = u[k] + ticked[k + 1].expires
    BY <1>3, <1>4, <2>1 DEF SumOf
  <2>3. ticked[k + 1].expires # 0 /\ ticked[k + 1].expires \in Nat
    BY <1>3, <2>1, TimerAt DEF Expired
  <2>4. u[k] = 0
    BY <1>7, <2>1
  <2>5. u[k + 1] <= u[i]
    BY <1>3, <1>4, <2>1, SumGrows
  <2> QED BY <1>6, <2>1, <2>2, <2>3, <2>4, <2>5
<1>9. ASSUME NEW i \in 1 .. N PROVE i <= k <=> s[i] = 1
  <2>1. s[i] \in Int
    BY <1>0
  <2>2. CASE i <= k
    <3>1. i \in 0 .. k
      BY <1>5, <2>2
    <3> QED BY <1>6, <1>7, <2>1, <2>2, <3>1
  <2>3. CASE i > k
    <3>1. u[i] > 0 /\ ~(i <= k)
      BY <1>5, <1>8, <2>3
    <3> QED BY <1>6, <2>1, <3>1
  <2> QED BY <1>5, <2>2, <2>3
<1>10. /\ after \in Seq(Timer) /\ Len(after) = N - k
       /\ \A j \in 1 .. N - k : /\ j + k \in 1 .. N /\ after[j] = ticked[j + k]
  <2>1. after = SubSeq(ticked, k + 1, N)
    BY <1>3 DEF Remaining
  <2>2. \A j \in 1 .. N - k : j + k \in 1 .. N
    BY <1>0, <1>5
  <2>3. after \in Seq(Timer) /\ Len(after) = N - k
    BY <1>0, <1>3, <1>5, <2>1
  <2>4. ASSUME NEW j \in 1 .. N - k PROVE after[j] = ticked[j + k]
    <3>1. (k + 1) + j - 1 = j + k
      BY <1>5
    <3> QED BY <1>0, <1>3, <1>5, <2>1, <2>2, <3>1
  <2> QED BY <2>2, <2>3, <2>4
<1>11. \A j \in 1 .. N - k : after[j].proc = list[j + k].proc
  BY <1>3, <1>10
<1> DEFINE t == [j \in 0 .. N - k |-> u[j + k]]
<1>12. SumOf(after, t)
  <2>0. \A j \in 0 .. N - k : j + k \in 0 .. N
    BY <1>5
  <2>1. t \in [0 .. N - k -> Int]
    BY <1>6a, <2>0
  <2>2. t[0] = 0
    <3>1. 0 \in 0 .. N - k /\ 0 + k = k /\ k \in 0 .. k
      BY <1>5
    <3> QED BY <1>7, <3>1
  <2>3. ASSUME NEW j \in 1 .. N - k PROVE t[j] = t[j - 1] + after[j].expires
    <3>1. j \in 0 .. N - k /\ j - 1 \in 0 .. N - k /\ (j - 1) + k = (j + k) - 1 /\ j + k \in 1 .. N
      BY <1>5
    <3>2. t[j] = u[j + k] /\ t[j - 1] = u[(j + k) - 1]
      BY <3>1
    <3> HIDE DEF t
    <3>3. u[j + k] = u[(j + k) - 1] + ticked[j + k].expires
      BY <1>3, <1>4, <3>1 DEF SumOf
    <3>4. after[j].expires = ticked[j + k].expires
      BY <1>10
    <3> QED BY <3>2, <3>3, <3>4
  <2> HIDE DEF t
  <2> QED BY <1>10, <2>1, <2>2, <2>3 DEF SumOf
<1>13. When(after) = t
  <2> HIDE DEF t
  <2> QED BY <1>10, <1>12, SumUnique
<1>14. ASSUME NEW j \in 1 .. N - k PROVE When(after)[j] = s[j + k] - 1
  <2>1. j \in 0 .. N - k /\ j + k \in 1 .. N
    BY <1>5
  <2> QED BY <1>6, <1>13, <2>1
<1>15. \A i, j \in 1 .. N - k : after[i].proc = after[j].proc => i = j
  <2> SUFFICES ASSUME NEW i \in 1 .. N - k, NEW j \in 1 .. N - k, after[i].proc = after[j].proc
               PROVE  i = j
      OBVIOUS
  <2>1. i + k \in 1 .. N /\ j + k \in 1 .. N /\ list[i + k].proc = list[j + k].proc
    BY <1>10, <1>11
  <2>2. i + k = j + k
    BY <1>1, <2>1
  <2> QED BY <1>5, <2>2
<1>16. N - k > 0 => after[1].expires > 0
  <2>1. ASSUME N - k > 0 PROVE after[1].expires > 0
    <3>1. 1 \in 1 .. N - k /\ 1 + k = k + 1 /\ k < N /\ k + 1 \in 1 .. N
      BY <1>5, <2>1
    <3>2. after[1] = ticked[k + 1]
      BY <1>10, <3>1
    <3>3. ticked[k + 1].expires # 0 /\ ticked[k + 1].expires \in Nat
      BY <1>3, <3>1, TimerAt DEF Expired
    <3> QED BY <3>2, <3>3
  <2> QED BY <2>1
<1>17. When(after)[N - k] <= MaxExpires
  <2>1. N - k \in 0 .. N - k /\ (N - k) + k = N /\ N \in 0 .. N /\ N \in 1 .. N
    BY <1>0, <1>2, <1>5
  <2>2. When(after)[N - k] = u[N]
    BY <1>13, <2>1
  <2>3. u[N] = s[N] - 1 /\ s[N] \in 0 .. MaxExpires
    BY <1>0, <1>6, <2>1
  <2> QED BY <2>2, <2>3
<1>18. ListOK(after)
  BY <1>10, <1>15, <1>16, <1>17 DEF ListOK
<1> QED BY <1>3, <1>5, <1>9, <1>10, <1>11, <1>14, <1>18 DEF N, s

----------------------------------------------------------------------------
(* The countdowns.                                                         *)

TimerInv == ListOK(timer_list) /\ panic = FALSE

\* The countdown of every process.
Lefts == [p \in Proc |-> Left(p)]

(***************************************************************************)
(* The countdown of a process is the time of its timer.                    *)
(***************************************************************************)
LEMMA LeftIs ==
  ASSUME ListOK(timer_list)
  PROVE  \A p : /\ Position(p) = {} => Left(p) = 0
                /\ \A i \in Position(p) : /\ Left(p) = When(timer_list)[i]
                                          /\ Left(p) > 0 /\ Left(p) \in Nat
<1> SUFFICES ASSUME NEW p
             PROVE  /\ Position(p) = {} => Left(p) = 0
                    /\ \A i \in Position(p) : /\ Left(p) = When(timer_list)[i]
                                              /\ Left(p) > 0 /\ Left(p) \in Nat
    OBVIOUS
<1>1. ASSUME NEW i \in Position(p)
      PROVE  Left(p) = When(timer_list)[i] /\ Left(p) > 0 /\ Left(p) \in Nat
  <2> DEFINE c == CHOOSE j \in Position(p) : TRUE
  <2>1. c \in Position(p)
    BY <1>1
  <2>2. Left(p) = When(timer_list)[c]
    BY <1>1 DEF Left
  <2> HIDE DEF c
  <2>3. c = i /\ i \in 1 .. Len(timer_list) /\ i \in 0 .. Len(timer_list)
    <3>1. /\ c \in 1 .. Len(timer_list) /\ i \in 1 .. Len(timer_list)
          /\ timer_list[c].proc = timer_list[i].proc
      BY <2>1 DEF Position
    <3> QED BY <3>1 DEF ListOK
  <2>4. When(timer_list)[i] > 0 /\ When(timer_list)[i] \in 0 .. MaxExpires
    BY <2>3, ListFacts
  <2> QED BY <2>2, <2>3, <2>4
<1>2. ASSUME Position(p) = {} PROVE Left(p) = 0
  BY <1>2 DEF Left
<1> QED BY <1>1, <1>2

(***************************************************************************)
(* The same after a step.                                                  *)
(***************************************************************************)
LEMMA LeftIsNext ==
  ASSUME ListOK(timer_list')
  PROVE  \A p : /\ Position(p)' = {} => Left(p)' = 0
                /\ \A i \in Position(p)' : Left(p)' = When(timer_list')[i]
<1>1. (ListOK(timer_list) =>
          \A p : /\ Position(p) = {} => Left(p) = 0
                 /\ \A i \in Position(p) : /\ Left(p) = When(timer_list)[i]
                                           /\ Left(p) > 0 /\ Left(p) \in Nat)'
  BY LeftIs, PTL
<1> QED BY <1>1

(***************************************************************************)
(* add_timer starts a countdown.                                           *)
(***************************************************************************)
LEMMA AddRefines ==
  ASSUME TimerInv, NEW p \in Proc, NEW n \in 1 .. MaxExpires, add_timer(p, n)
  PROVE  TimerInv' /\ Deadlines!Add(p, n)
<1> DEFINE N == Len(timer_list)
<1>0. ListOK(timer_list) /\ N \in Nat
  BY ListFacts DEF TimerInv
<1>1. Position(p) = {} /\ fired' = {} /\ panic' = panic
  BY DEF add_timer
<1>2. PICK k \in 1 .. N + 1 :
         /\ Stops(timer_list, n, k)
         /\ timer_list' = Linked(timer_list, k, p, n - When(timer_list)[k - 1])
  BY DEF add_timer, Stops, Linked
<1>3. \A i \in 1 .. N : timer_list[i].proc # p
  BY <1>1 DEF Position
<1>4. /\ ListOK(timer_list') /\ Len(timer_list') = N + 1
      /\ \A i \in 1 .. N + 1 :
            /\ timer_list'[i].proc = IF i < k THEN timer_list[i].proc
                                     ELSE IF i = k THEN p ELSE timer_list[i - 1].proc
            /\ When(timer_list')[i] = IF i < k THEN When(timer_list)[i]
                                      ELSE IF i = k THEN n ELSE When(timer_list)[i - 1]
  BY <1>0, <1>2, <1>3, AddList
<1>5. TimerInv'
  BY <1>1, <1>4 DEF TimerInv
<1>6. k \in 1 .. N + 1 /\ k \in Int /\ N \in Nat
  BY <1>0
<1>7. \A q : Position(q)' = {i \in 1 .. N + 1 : timer_list'[i].proc = q}
  BY <1>4 DEF Position
<1>8. \A q : Position(q) = {i \in 1 .. N : timer_list[i].proc = q}
  BY DEF Position
<1>9. \A q : /\ Position(q) = {} => Left(q) = 0
             /\ \A i \in Position(q) : Left(q) = When(timer_list)[i]
             /\ Position(q)' = {} => Left(q)' = 0
             /\ \A i \in Position(q)' : Left(q)' = When(timer_list')[i]
  BY <1>0, <1>4, LeftIs, LeftIsNext
<1> HIDE DEF N
<1>10. Left(p)' = n /\ Left(p) = 0
  <2>1. k \in Position(p)' /\ When(timer_list')[k] = n
    BY <1>4, <1>6, <1>7
  <2> QED BY <1>1, <1>9, <2>1
<1>11. ASSUME NEW q \in Proc, q # p PROVE Left(q)' = Left(q)
  <2>1. CASE Position(q) = {}
    <3>1. \A i \in 1 .. N : timer_list[i].proc # q
      BY <1>8, <2>1
    <3>2. ASSUME NEW i \in 1 .. N + 1 PROVE timer_list'[i].proc # q
      <4>1. (i < k => i \in 1 .. N) /\ (~(i < k) /\ i # k => i - 1 \in 1 .. N)
        BY <1>6
      <4> QED BY <1>4, <1>11, <3>1, <4>1
    <3>3. Position(q)' = {}
      BY <1>7, <3>2
    <3> QED BY <1>9, <2>1, <3>3
  <2>2. ASSUME NEW i \in Position(q) PROVE Left(q)' = Left(q)
    <3>1. i \in 1 .. N /\ timer_list[i].proc = q /\ Left(q) = When(timer_list)[i]
      BY <1>8, <1>9
    <3>2. CASE i < k
      <4>1. i \in 1 .. N + 1
        BY <1>6, <3>1
      <4>2. timer_list'[i].proc = q /\ When(timer_list')[i] = When(timer_list)[i]
        BY <1>4, <3>1, <3>2, <4>1
      <4> QED BY <1>7, <1>9, <3>1, <4>1, <4>2
    <3>3. CASE ~(i < k)
      <4>1. i + 1 \in 1 .. N + 1 /\ ~(i + 1 < k) /\ i + 1 # k /\ (i + 1) - 1 = i
        BY <1>6, <3>1, <3>3
      <4>2. timer_list'[i + 1].proc = q /\ When(timer_list')[i + 1] = When(timer_list)[i]
        BY <1>4, <3>1, <4>1
      <4> QED BY <1>7, <1>9, <3>1, <4>1, <4>2
    <3> QED BY <3>2, <3>3
  <2> QED BY <2>1, <2>2
<1>12. Lefts' = [Lefts EXCEPT ![p] = n] /\ Lefts[p] = 0
  BY <1>10, <1>11 DEF Lefts
<1> QED BY <1>1, <1>5, <1>12 DEF Deadlines!Add, Lefts

(***************************************************************************)
(* del_timer ends one.                                                     *)
(***************************************************************************)
LEMMA DelRefines ==
  ASSUME TimerInv, NEW p \in Proc, del_timer(p)
  PROVE  TimerInv' /\ Deadlines!Del(p)
<1> DEFINE N == Len(timer_list)
<1>0. ListOK(timer_list) /\ N \in Nat
  BY ListFacts DEF TimerInv
<1>1. fired' = {} /\ panic' = panic
  BY DEF del_timer
<1>2. PICK h \in Position(p) :
         timer_list' = RemoveAt([j \in 1 .. N |->
              IF j = h + 1
              THEN [timer_list[j] EXCEPT !.expires = GivenOn(@, timer_list[h].expires)]
              ELSE timer_list[j]], h)
  BY DEF del_timer
<1>3. h \in 1 .. N /\ timer_list[h].proc = p
  BY DEF Position
<1>4. /\ ListOK(timer_list') /\ Len(timer_list') = N - 1
      /\ \A j \in 1 .. N - 1 :
            /\ timer_list'[j].proc = IF j < h THEN timer_list[j].proc ELSE timer_list[j + 1].proc
            /\ When(timer_list')[j] = IF j < h THEN When(timer_list)[j]
                                               ELSE When(timer_list)[j + 1]
  BY ONLY <1>0, <1>2, <1>3, DelList, Zenon
<1>5. TimerInv'
  BY <1>1, <1>4 DEF TimerInv
<1>6. \A q : Position(q)' = {i \in 1 .. N - 1 : timer_list'[i].proc = q}
  BY <1>4 DEF Position
<1>7. \A q : Position(q) = {i \in 1 .. N : timer_list[i].proc = q}
  BY DEF Position
<1>8. \A q : /\ Position(q) = {} => Left(q) = 0
             /\ \A i \in Position(q) : Left(q) = When(timer_list)[i]
             /\ Position(q)' = {} => Left(q)' = 0
             /\ \A i \in Position(q)' : Left(q)' = When(timer_list')[i]
  BY <1>0, <1>4, LeftIs, LeftIsNext
<1>9. \A i, j \in 1 .. N : timer_list[i].proc = timer_list[j].proc => i = j
  BY <1>0 DEF ListOK
<1> HIDE DEF N
<1>10. Left(p)' = 0
  <2>1. ASSUME NEW j \in 1 .. N - 1 PROVE timer_list'[j].proc # p
    <3>1. CASE j < h
      <4>1. j \in 1 .. N /\ j # h
        BY <1>0, <1>3, <3>1
      <4>2. timer_list[j].proc # p
        BY <1>3, <1>9, <4>1
      <4> QED BY <1>4, <3>1, <4>2
    <3>2. CASE ~(j < h)
      <4>1. j + 1 \in 1 .. N /\ j + 1 # h
        BY <1>0, <1>3, <3>2
      <4>2. timer_list[j + 1].proc # p
        BY <1>3, <1>9, <4>1
      <4> QED BY <1>4, <3>2, <4>2
    <3> QED BY <3>1, <3>2
  <2>2. Position(p)' = {}
    BY <1>6, <2>1
  <2> QED BY <1>8, <2>2
<1>11. ASSUME NEW q \in Proc, q # p PROVE Left(q)' = Left(q)
  <2>1. CASE Position(q) = {}
    <3>1. \A i \in 1 .. N : timer_list[i].proc # q
      BY <1>7, <2>1
    <3>2. ASSUME NEW i \in 1 .. N - 1 PROVE timer_list'[i].proc # q
      <4>1. i \in 1 .. N /\ i + 1 \in 1 .. N
        BY <1>0
      <4> QED BY <1>4, <3>1, <4>1
    <3>3. Position(q)' = {}
      BY <1>6, <3>2
    <3> QED BY <1>8, <2>1, <3>3
  <2>2. ASSUME NEW i \in Position(q) PROVE Left(q)' = Left(q)
    <3>1. i \in 1 .. N /\ timer_list[i].proc = q /\ Left(q) = When(timer_list)[i] /\ i # h
      BY <1>3, <1>7, <1>8, <1>11
    <3>2. CASE i < h
      <4>1. i \in 1 .. N - 1
        BY <1>0, <1>3, <3>1, <3>2
      <4>2. timer_list'[i].proc = q /\ When(timer_list')[i] = When(timer_list)[i]
        BY <1>4, <3>1, <3>2, <4>1
      <4> QED BY <1>6, <1>8, <3>1, <4>1, <4>2
    <3>3. CASE ~(i < h)
      <4>1. i - 1 \in 1 .. N - 1 /\ ~(i - 1 < h) /\ (i - 1) + 1 = i
        BY <1>0, <1>3, <3>1, <3>3
      <4>2. timer_list'[i - 1].proc = q /\ When(timer_list')[i - 1] = When(timer_list)[i]
        BY <1>4, <3>1, <4>1
      <4> QED BY <1>6, <1>8, <3>1, <4>1, <4>2
    <3> QED BY <3>2, <3>3
  <2> QED BY <2>1, <2>2
<1>12. Lefts' = [Lefts EXCEPT ![p] = 0]
  BY <1>10, <1>11 DEF Lefts
<1> QED BY <1>1, <1>5, <1>12 DEF Deadlines!Del, Lefts

(***************************************************************************)
(* run_timer_list is a tick of all countdowns, and its assertion holds.    *)
(***************************************************************************)
LEMMA TickRefines ==
  ASSUME TimerInv, run_timer_list
  PROVE  TimerInv' /\ Deadlines!Tick
<1> DEFINE N == Len(timer_list)
<1>0. ListOK(timer_list) /\ N \in Nat /\ panic = FALSE /\ timer_list \in Seq(Timer)
  BY ListFacts DEF TimerInv, ListOK
<1>1. \A q : /\ Position(q) = {} => Left(q) = 0
             /\ \A i \in Position(q) : /\ Left(q) = When(timer_list)[i]
                                       /\ Left(q) > 0 /\ Left(q) \in Nat
  BY <1>0, LeftIs
<1>2. \A q : Position(q) = {i \in 1 .. N : timer_list[i].proc = q}
  BY DEF Position
<1> SUFFICES /\ TimerInv'
             /\ Lefts' = [q \in Proc |-> IF Left(q) > 0 THEN Left(q) - 1 ELSE 0]
             /\ fired' = {q \in Proc : Left(q) = 1}
  <2>1. [q \in Proc |-> IF Lefts[q] > 0 THEN Lefts[q] - 1 ELSE 0]
           = [q \in Proc |-> IF Left(q) > 0 THEN Left(q) - 1 ELSE 0]
    BY DEF Lefts
  <2>2. {q \in Proc : Lefts[q] = 1} = {q \in Proc : Left(q) = 1}
    BY DEF Lefts
  <2> QED BY <2>1, <2>2 DEF Deadlines!Tick, Lefts
<1>3. CASE timer_list = <<>>
  <2>1. timer_list' = timer_list /\ fired' = {} /\ panic' = panic
    BY <1>3 DEF run_timer_list
  <2>2. TimerInv'
    BY <2>1 DEF TimerInv
  <2>3. \A q : Left(q) = 0
    BY <1>1, <1>2, <1>3
  <2>4. \A q : Left(q)' = Left(q)
    BY <2>1 DEF Left, Position
  <2> QED BY <2>1, <2>2, <2>3, <2>4 DEF Lefts
<1>4. CASE timer_list # <<>>
  <2>0. N > 0
    BY <1>0, <1>4
  <2>1. PICK ticked : ticked = TickOff(timer_list)
    OBVIOUS
  <2>2. PICK k \in 0 .. Len(ticked) :
           /\ Expired(ticked, k) /\ timer_list' = Remaining(ticked, k)
           /\ fired' = {ticked[i].proc : i \in 1 .. k}
           /\ panic' = (panic \/ timer_list[1].expires = 0)
    BY <1>4, <2>1 DEF run_timer_list, TickOff, Expired, Remaining
  <2>3. /\ ListOK(timer_list') /\ Len(timer_list') = N - k /\ k \in 0 .. N
        /\ \A i \in 1 .. N : /\ ticked[i].proc = timer_list[i].proc
                             /\ i <= k <=> When(timer_list)[i] = 1
        /\ \A j \in 1 .. N - k : /\ timer_list'[j].proc = timer_list[j + k].proc
                                 /\ When(timer_list')[j] = When(timer_list)[j + k] - 1
    BY <1>0, <2>0, <2>1, <2>2, TickList
  <2>4. timer_list[1].expires # 0
    <3>1. timer_list[1].expires > 0
      BY <1>0, <2>0 DEF ListOK
    <3> QED BY <3>1
  <2>5. TimerInv'
    BY <1>0, <2>2, <2>3, <2>4 DEF TimerInv
  <2>6. \A q : Position(q)' = {i \in 1 .. N - k : timer_list'[i].proc = q}
    BY <2>3 DEF Position
  <2>7. \A q : /\ Position(q)' = {} => Left(q)' = 0
               /\ \A i \in Position(q)' : Left(q)' = When(timer_list')[i]
    BY <2>3, LeftIsNext
  <2>8. \A i, j \in 1 .. N : timer_list[i].proc = timer_list[j].proc => i = j
    BY <1>0 DEF ListOK
  <2>9. \A i \in 1 .. N : timer_list[i].proc \in Proc
    BY <1>0, ListFacts
  <2> HIDE DEF N
  <2>10. k \in Nat /\ k <= N /\ N \in Nat
    BY <1>0, <2>3
  <2>11. ASSUME NEW q \in Proc
         PROVE  /\ Left(q)' = IF Left(q) > 0 THEN Left(q) - 1 ELSE 0
                /\ q \in fired' <=> Left(q) = 1
    <3>1. CASE Position(q) = {}
      <4>1. \A i \in 1 .. N : timer_list[i].proc # q
        BY <1>2, <3>1
      <4>2. ASSUME NEW j \in 1 .. N - k PROVE timer_list'[j].proc # q
        <5>1. j + k \in 1 .. N
          BY <2>10
        <5> QED BY <2>3, <4>1, <5>1
      <4>3. Position(q)' = {}
        BY <2>6, <4>2
      <4>4. q \notin fired'
        <5>1. \A i \in 1 .. k : i \in 1 .. N
          BY <2>10
        <5> QED BY <2>2, <2>3, <4>1, <5>1
      <4>5. Left(q) = 0 /\ Left(q)' = 0
        BY <1>1, <2>7, <3>1, <4>3
      <4> QED BY <4>4, <4>5
    <3>2. ASSUME NEW i \in Position(q)
          PROVE  /\ Left(q)' = IF Left(q) > 0 THEN Left(q) - 1 ELSE 0
                 /\ q \in fired' <=> Left(q) = 1
      <4>1. /\ i \in 1 .. N /\ timer_list[i].proc = q
            /\ Left(q) = When(timer_list)[i] /\ Left(q) > 0 /\ Left(q) \in Nat
        BY <1>1, <1>2
      <4>2. i <= k <=> Left(q) = 1
        BY <2>3, <4>1
      <4>3. q \in fired' <=> i <= k
        <5>1. ASSUME i <= k PROVE q \in fired'
          <6>1. i \in 1 .. k
            BY <2>10, <4>1, <5>1
          <6>2. ticked[i].proc = q
            BY <2>3, <4>1
          <6> QED BY <2>2, <6>1, <6>2
        <5>2. ASSUME q \in fired' PROVE i <= k
          <6>1. PICK j \in 1 .. k : ticked[j].proc = q
            BY <2>2, <5>2
          <6>2. j \in 1 .. N /\ j <= k
            BY <2>10
          <6>3. timer_list[j].proc = q
            BY <2>3, <6>1, <6>2
          <6>4. j = i
            BY <2>8, <4>1, <6>2, <6>3
          <6> QED BY <6>2, <6>4
        <5> QED BY <5>1, <5>2
      <4>4. CASE i <= k
        <5>1. ASSUME NEW j \in 1 .. N - k PROVE timer_list'[j].proc # q
          <6>1. j + k \in 1 .. N /\ j + k # i
            BY <2>10, <4>1, <4>4
          <6>2. timer_list[j + k].proc # q
            BY <2>8, <4>1, <6>1
          <6> QED BY <2>3, <6>2
        <5>2. Position(q)' = {}
          BY <2>6, <5>1
        <5>3. Left(q)' = 0 /\ Left(q) = 1
          BY <2>7, <4>2, <4>4, <5>2
        <5> QED BY <4>3, <4>4, <5>3
      <4>5. CASE ~(i <= k)
        <5>1. i - k \in 1 .. N - k /\ (i - k) + k = i
          BY <2>10, <4>1, <4>5
        <5>2. timer_list'[i - k].proc = q /\ When(timer_list')[i - k] = When(timer_list)[i] - 1
          BY <2>3, <4>1, <5>1
        <5>3. Left(q)' = Left(q) - 1
          BY <2>6, <2>7, <4>1, <5>1, <5>2
        <5> QED BY <4>1, <4>2, <4>3, <4>5, <5>3
      <4> QED BY <4>4, <4>5
    <3> QED BY <3>1, <3>2
  <2>12. fired' \subseteq Proc
    <3>1. ASSUME NEW i \in 1 .. k PROVE ticked[i].proc \in Proc
      <4>1. i \in 1 .. N
        BY <2>10
      <4> QED BY <2>3, <2>9, <4>1
    <3> QED BY <2>2, <3>1
  <2>13. Lefts' = [q \in Proc |-> IF Left(q) > 0 THEN Left(q) - 1 ELSE 0]
    BY <2>11 DEF Lefts
  <2>14. fired' = {q \in Proc : Left(q) = 1}
    BY <2>11, <2>12
  <2> QED BY <2>5, <2>13, <2>14
<1> QED BY <1>3, <1>4

----------------------------------------------------------------------------
(* The theorem.                                                            *)

(***************************************************************************)
(* The list starts empty, with no countdown under way.                     *)
(***************************************************************************)
LEMMA TimerInit == Init => TimerInv /\ Deadlines!Init
<1> SUFFICES ASSUME Init PROVE TimerInv /\ Deadlines!Init
    OBVIOUS
<1>1. timer_list = <<>> /\ fired = {} /\ panic = FALSE
  BY DEF Init
<1>2. timer_list \in Seq(Timer) /\ Len(timer_list) = 0
  BY <1>1
<1>3. When(timer_list)[0] = 0
  <2>1. SumOf(timer_list, When(timer_list))
    BY <1>2, WhenSums
  <2> QED BY <2>1 DEF SumOf
<1>4. ListOK(timer_list)
  BY <1>2, <1>3 DEF ListOK
<1>5. \A p : Position(p) = {}
  BY <1>2 DEF Position
<1>6. Lefts = [p \in Proc |-> 0]
  BY <1>5 DEF Lefts, Left
<1> QED BY <1>1, <1>4, <1>6 DEF TimerInv, Deadlines!Init, Lefts

(***************************************************************************)
(* Each timer goes off at the tick it was set for and no other, no         *)
(* difference overflows, and run_timer_list never meets a timer that is at *)
(* 0 already: the list implements the countdowns, for every set of         *)
(* processes and every width of timer_t.expires.                           *)
(***************************************************************************)
THEOREM TimersFireOnTime == Spec => FiresOnTime
<1>1. TimerInv /\ [Next]_vars => TimerInv' /\ [Deadlines!Next]_<<Lefts, fired>>
  <2> SUFFICES ASSUME TimerInv, [Next]_vars
               PROVE  TimerInv' /\ [Deadlines!Next]_<<Lefts, fired>>
      OBVIOUS
  <2>1. ASSUME NEW p \in Proc, NEW n \in 1 .. MaxExpires, add_timer(p, n)
        PROVE  TimerInv' /\ Deadlines!Next
    <3>1. TimerInv' /\ Deadlines!Add(p, n)
      BY <2>1, AddRefines
    <3> QED BY <3>1 DEF Deadlines!Next
  <2>2. ASSUME NEW p \in Proc, del_timer(p) PROVE TimerInv' /\ Deadlines!Next
    <3>1. TimerInv' /\ Deadlines!Del(p)
      BY <2>2, DelRefines
    <3> QED BY <3>1 DEF Deadlines!Next
  <2>3. CASE run_timer_list
    <3>1. TimerInv' /\ Deadlines!Tick
      BY <2>3, TickRefines
    <3> QED BY <3>1 DEF Deadlines!Next
  <2>4. CASE UNCHANGED vars
    <3>1. timer_list' = timer_list /\ fired' = fired /\ panic' = panic
      BY <2>4 DEF vars
    <3>2. TimerInv'
      BY <3>1 DEF TimerInv
    <3>3. Lefts' = Lefts
      BY <3>1 DEF Lefts, Left, Position
    <3> QED BY <3>1, <3>2, <3>3
  <2> QED BY <2>1, <2>2, <2>3, <2>4 DEF Next
<1>2. TimerInv => HeadNotExpired
  BY DEF TimerInv, HeadNotExpired
<1>3. [][Deadlines!Next]_<<Lefts, fired>> => [][Deadlines!Next]_<<[p \in Proc |-> Left(p)], fired>>
  BY DEF Lefts
<1> QED BY <1>1, <1>2, <1>3, TimerInit, PTL DEF Spec, FiresOnTime, Deadlines!Spec
=============================================================================
