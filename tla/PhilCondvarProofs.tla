------------------------- MODULE PhilCondvarProofs -------------------------
(***************************************************************************)
(* Proofs about modules Monitor and PhilCondvar, for every number of       *)
(* philosophers and of meals.                                              *)
(***************************************************************************)
EXTENDS PhilCondvar, FiniteSetTheorems, TLAPS

----------------------------------------------------------------------------
(* The monitor.                                                            *)

\* The labels at which a thread that is not blocked owns the monitor, and the
\* others, at which it has given the monitor away or has not got it.
Owning == {"in", "sig_back", "wait_back"}
Outside == {"out", "sig_down", "wait_down"}

MonTypeOK ==
    /\ value \in [Sem -> Nat]
    /\ wait_queue \in [Sem -> Seq(Thread)]
    /\ blocked \in [Thread -> BOOLEAN]
    /\ next_count \in Nat
    /\ count \in [Cond -> Nat]
    /\ mpc \in [Thread -> Owning \cup Outside]
    /\ cv \in [Thread -> Cond]

\* A thread whose next label is l sleeps, or has slept, in down(s).
Downs(t, s, l) == \/ s = mutex /\ l = "in"
                  \/ s = next /\ l = "sig_back"
                  \/ s = cvsem(cv[t]) /\ l = "wait_back"

Queued(t, s) == \E i \in 1 .. Len(wait_queue[s]) : wait_queue[s][i] = t

\* The queue of a semaphore holds, once each, threads that sleep in a down()
\* of this semaphore.
QueueExact ==
    /\ \A s \in Sem : \A t \in Thread : Queued(t, s) => blocked[t] /\ Downs(t, s, mpc[t])
    /\ \A s \in Sem : \A i, j \in 1 .. Len(wait_queue[s]) :
          wait_queue[s][i] = wait_queue[s][j] => i = j
    /\ \A t \in Thread : blocked[t] => mpc[t] \in Owning

\* OneInMonitor without counting: one thread is active and no permit is free,
\* or no thread is and one permit is.
OneHand ==
    \/ /\ \E t \in Thread : Active(t) /\ \A u \in Thread : Active(u) => u = t
       /\ \A s \in Sem : value[s] = 0
    \/ /\ \A t \in Thread : ~Active(t)
       /\ \E s \in Sem : value[s] = 1 /\ \A r \in Sem \ {s} : value[r] = 0

\* The inductive invariant of the monitor.
MonInv == MonTypeOK /\ QueueExact /\ OneHand

(***************************************************************************)
(* The semaphores of a monitor_t are different semaphores.                 *)
(***************************************************************************)
LEMMA SemsDiffer ==
    /\ mutex \in Sem /\ next \in Sem /\ \A c \in Cond : cvsem(c) \in Sem
    /\ mutex # next
    /\ \A c : cvsem(c) # mutex /\ cvsem(c) # next
    /\ \A c, d : cvsem(c) = cvsem(d) => c = d
  BY DEF mutex, next, cvsem, Sem

(***************************************************************************)
(* up() by the thread that has the monitor hands it to one thread that     *)
(* slept on that semaphore, or leaves it as a permit.                      *)
(***************************************************************************)
LEMMA UpStep ==
  ASSUME MonInv, NEW t \in Thread, NEW s \in Sem, NEW l \in Outside,
         At(t, "in"), S!up(s), Goto(t, l), cv' \in [Thread -> Cond],
         \A u \in Thread \ {t} : cv'[u] = cv[u]
  PROVE  /\ value' \in [Sem -> Nat] /\ wait_queue' \in [Sem -> Seq(Thread)]
         /\ blocked' \in [Thread -> BOOLEAN] /\ mpc' \in [Thread -> Owning \cup Outside]
         /\ QueueExact' /\ OneHand'
         /\ \A r \in Sem : r # s => value'[r] = 0
         /\ \A u \in Thread : ~blocked'[u] =>
               ~blocked[u] \/ Downs(u, s, mpc[u])
<1> USE DEF MonInv, MonTypeOK
<1>1. /\ mpc[t] = "in" /\ ~blocked[t] /\ mpc' = [mpc EXCEPT ![t] = l]
      /\ l \notin Owning /\ l \in Owning \cup Outside
  BY DEF At, Goto, Outside, Owning
<1>2. Active(t)
  BY <1>1 DEF Active
<1>3. (\A u \in Thread : Active(u) => u = t) /\ (\A r \in Sem : value[r] = 0)
  BY <1>2 DEF OneHand
<1>4. \A r \in Sem : ~Queued(t, r)
  BY <1>1 DEF QueueExact
<1>5. CASE wait_queue[s] = <<>>
  <2>1. /\ value' = [value EXCEPT ![s] = 1]
        /\ wait_queue' = wait_queue /\ blocked' = blocked
    BY <1>3, <1>5 DEF S!up
  <2>2. QueueExact'
    <3>1. ASSUME NEW u \in Thread, NEW r \in Sem, Queued(u, r)'
          PROVE  blocked'[u] /\ Downs(u, r, mpc[u])' /\ mpc'[u] = mpc[u]
      <4>1. Queued(u, r)
        BY <2>1, <3>1 DEF Queued
      <4>2. u # t /\ blocked[u] /\ Downs(u, r, mpc[u])
        BY <1>4, <4>1 DEF QueueExact
      <4>3. mpc'[u] = mpc[u] /\ cv'[u] = cv[u] /\ blocked'[u]
        BY <1>1, <2>1, <4>2
      <4> QED BY <4>2, <4>3 DEF Downs
    <3>2. \A r \in Sem : \A i, j \in 1 .. Len(wait_queue'[r]) :
             wait_queue'[r][i] = wait_queue'[r][j] => i = j
      BY <2>1 DEF QueueExact
    <3>3. ASSUME NEW u \in Thread, blocked'[u] PROVE mpc'[u] \in Owning
      <4>1. u # t /\ mpc[u] \in Owning
        BY <1>1, <2>1, <3>3 DEF QueueExact
      <4> QED BY <1>1, <4>1
    <3> QED BY <3>1, <3>2, <3>3 DEF QueueExact
  <2>3. \A u \in Thread : ~Active(u)'
    BY <1>1, <1>3, <2>1 DEF Active, Owning
  <2>4. value'[s] = 1 /\ \A r \in Sem \ {s} : value'[r] = 0
    BY <1>3, <2>1
  <2>5. OneHand'
    BY <2>3, <2>4 DEF OneHand
  <2> QED BY <1>1, <2>1, <2>2, <2>4, <2>5
<1>6. CASE wait_queue[s] # <<>>
  <2>0. PICK h \in Thread : h = Head(wait_queue[s])
    BY <1>6
  <2>1. /\ wait_queue' = [wait_queue EXCEPT ![s] = Tail(@)]
        /\ blocked' = [blocked EXCEPT ![h] = FALSE] /\ value' = value
    BY <1>6, <2>0 DEF S!up
  <2>2. /\ wait_queue[s] \in Seq(Thread) /\ h \in Thread
        /\ h = wait_queue[s][1] /\ Len(wait_queue[s]) \in Nat /\ Len(wait_queue[s]) >= 1
        /\ Tail(wait_queue[s]) \in Seq(Thread)
        /\ Len(Tail(wait_queue[s])) = Len(wait_queue[s]) - 1
        /\ \A i \in 1 .. Len(wait_queue[s]) - 1 : Tail(wait_queue[s])[i] = wait_queue[s][i + 1]
    BY <1>6, <2>0
  <2>3. Queued(h, s)
    BY <2>2 DEF Queued
  <2>4. h # t /\ blocked[h] /\ Downs(h, s, mpc[h]) /\ mpc[h] \in Owning
    BY <1>4, <2>2, <2>3 DEF QueueExact
  <2>5. \A i, j \in 1 .. Len(wait_queue[s]) : wait_queue[s][i] = wait_queue[s][j] => i = j
    BY DEF QueueExact
  <2>6. wait_queue'[s] = Tail(wait_queue[s])
    BY <2>1
  <2>7. \A r \in Sem \ {s} : wait_queue'[r] = wait_queue[r]
    BY <2>1
  <2>8. \A r \in Sem, u \in Thread : Queued(u, r)' => Queued(u, r) /\ u # h
    <3> SUFFICES ASSUME NEW r \in Sem, NEW u \in Thread, Queued(u, r)'
                 PROVE  Queued(u, r) /\ u # h
        OBVIOUS
    <3>1. CASE r = s
      <4>1. PICK i \in 1 .. Len(wait_queue[s]) - 1 : wait_queue[s][i + 1] = u
        BY <2>2, <2>6, <3>1 DEF Queued
      <4>2. i + 1 \in 1 .. Len(wait_queue[s]) /\ 1 \in 1 .. Len(wait_queue[s]) /\ i + 1 # 1
        BY <2>2, <4>1
      <4> QED BY <2>2, <2>5, <3>1, <4>1, <4>2 DEF Queued
    <3>2. CASE r # s
      <4>1. Queued(u, r)
        BY <2>7, <3>2 DEF Queued
      <4>2. Downs(u, r, mpc[u])
        BY <4>1 DEF QueueExact
      <4>3. u # h
        BY <2>4, <3>2, <4>2 DEF Downs
      <4> QED BY <4>1, <4>3
    <3> QED BY <3>1, <3>2
  <2>9. QueueExact'
    <3>1. ASSUME NEW r \in Sem, NEW u \in Thread, Queued(u, r)'
          PROVE  blocked'[u] /\ Downs(u, r, mpc[u])'
      <4>1. Queued(u, r) /\ u # h /\ u # t
        BY <1>4, <2>8, <3>1
      <4>2. blocked[u] /\ Downs(u, r, mpc[u])
        BY <4>1 DEF QueueExact
      <4>3. blocked'[u] /\ mpc'[u] = mpc[u] /\ cv'[u] = cv[u]
        BY <1>1, <2>1, <2>2, <4>1, <4>2
      <4> QED BY <4>2, <4>3 DEF Downs
    <3>2. ASSUME NEW r \in Sem, NEW i \in 1 .. Len(wait_queue'[r]),
                 NEW j \in 1 .. Len(wait_queue'[r]),
                 wait_queue'[r][i] = wait_queue'[r][j]
          PROVE  i = j
      <4>1. CASE r = s
        <5>1. i + 1 \in 1 .. Len(wait_queue[s]) /\ j + 1 \in 1 .. Len(wait_queue[s])
              /\ wait_queue[s][i + 1] = wait_queue[s][j + 1]
          <6>1. i \in 1 .. Len(wait_queue[s]) - 1 /\ j \in 1 .. Len(wait_queue[s]) - 1
            BY <2>2, <2>6, <3>2, <4>1
          <6>2. Tail(wait_queue[s])[i] = Tail(wait_queue[s])[j]
            BY <2>6, <3>2, <4>1
          <6> QED BY <2>2, <6>1, <6>2
        <5>2. i + 1 = j + 1
          BY <2>5, <5>1
        <5> QED BY <5>2
      <4>2. CASE r # s
        BY <2>7, <3>2, <4>2 DEF QueueExact
      <4> QED BY <4>1, <4>2
    <3>3. \A u \in Thread : blocked'[u] => mpc'[u] \in Owning
      BY <1>1, <2>1, <2>2 DEF QueueExact
    <3> QED BY <3>1, <3>2, <3>3 DEF QueueExact
  <2>10. mpc'[h] \in Owning /\ ~blocked'[h] /\ mpc'[t] \notin Owning
    BY <1>1, <2>1, <2>2, <2>4
  <2>11. \A u \in Thread \ {h, t} : mpc'[u] = mpc[u] /\ blocked'[u] = blocked[u]
    BY <1>1, <2>1, <2>2
  <2>12. Active(h)' /\ \A u \in Thread : Active(u)' => u = h
    BY <1>3, <2>2, <2>10, <2>11 DEF Active, Owning
  <2>13. OneHand'
    BY <1>3, <2>1, <2>2, <2>12 DEF OneHand
  <2>14. wait_queue' \in [Sem -> Seq(Thread)]
    BY <2>1, <2>2
  <2> QED BY <1>1, <1>3, <2>1, <2>2, <2>4, <2>9, <2>13, <2>14
<1> QED BY <1>5, <1>6

(***************************************************************************)
(* down() by a thread without the monitor gets it from a permit, or queues *)
(* the thread for it.                                                      *)
(***************************************************************************)
LEMMA DownStep ==
  ASSUME MonInv, NEW t \in Thread, NEW s \in Sem, NEW l \in Owning,
         ~blocked[t], mpc[t] \in Outside, Downs(t, s, l),
         S!down(t, s), Goto(t, l), cv' = cv
  PROVE  /\ value' \in [Sem -> Nat] /\ wait_queue' \in [Sem -> Seq(Thread)]
         /\ blocked' \in [Thread -> BOOLEAN] /\ mpc' \in [Thread -> Owning \cup Outside]
         /\ QueueExact' /\ OneHand'
         /\ \A r \in Sem : value'[r] > 0 => value[r] > 0
         /\ \A u \in Thread : ~blocked'[u] => ~blocked[u]
         /\ ~blocked'[t] => value[s] > 0
<1> USE DEF MonInv, MonTypeOK
<1>1. /\ mpc' = [mpc EXCEPT ![t] = l] /\ mpc[t] \notin Owning
      /\ l \in Owning \cup Outside
  BY DEF Goto, Outside, Owning
<1>2. ~Active(t) /\ \A r \in Sem : ~Queued(t, r)
  BY <1>1 DEF Active, Owning, QueueExact
<1>3. CASE value[s] > 0
  <2>1. /\ value' = [value EXCEPT ![s] = value[s] - 1]
        /\ wait_queue' = wait_queue /\ blocked' = blocked
    BY <1>3 DEF S!down
  <2>2. /\ \A u \in Thread : ~Active(u)
        /\ value[s] = 1 /\ \A r \in Sem \ {s} : value[r] = 0
    BY <1>3 DEF OneHand
  <2>3. QueueExact'
    BY <1>1, <1>2, <2>1 DEF QueueExact, Queued, Downs
  <2>4. \A r \in Sem : value'[r] = 0
    BY <2>1, <2>2
  <2>5. mpc'[t] \in Owning /\ ~blocked'[t]
    BY <1>1, <2>1
  <2>6. \A u \in Thread \ {t} : mpc'[u] = mpc[u] /\ blocked'[u] = blocked[u]
    BY <1>1, <2>1
  <2>7. Active(t)' /\ \A u \in Thread : Active(u)' => u = t
    BY <2>2, <2>5, <2>6 DEF Active, Owning
  <2>8. OneHand'
    BY <2>4, <2>7 DEF OneHand
  <2> QED BY <1>1, <1>3, <2>1, <2>3, <2>4, <2>8
<1>4. CASE ~(value[s] > 0)
  <2>1. /\ wait_queue' = [wait_queue EXCEPT ![s] = Append(@, t)]
        /\ blocked' = [blocked EXCEPT ![t] = TRUE] /\ value' = value
    BY <1>4 DEF S!down
  <2> DEFINE q == wait_queue[s]
  <2>2. /\ q \in Seq(Thread) /\ Len(q) \in Nat
        /\ Append(q, t) \in Seq(Thread) /\ Len(Append(q, t)) = Len(q) + 1
        /\ Append(q, t)[Len(q) + 1] = t
        /\ \A i \in 1 .. Len(q) : Append(q, t)[i] = q[i]
    OBVIOUS
  <2>3. wait_queue'[s] = Append(q, t) /\ \A r \in Sem \ {s} : wait_queue'[r] = wait_queue[r]
    BY <2>1
  <2>4. \A r \in Sem, u \in Thread : Queued(u, r)' => Queued(u, r) \/ (u = t /\ r = s)
    <3> SUFFICES ASSUME NEW r \in Sem, NEW u \in Thread, Queued(u, r)'
                 PROVE  Queued(u, r) \/ (u = t /\ r = s)
        OBVIOUS
    <3>1. CASE r = s
      <4>1. PICK i \in 1 .. Len(q) + 1 : Append(q, t)[i] = u
        BY <2>2, <2>3, <3>1 DEF Queued
      <4>2. CASE i = Len(q) + 1
        BY <2>2, <3>1, <4>1, <4>2
      <4>3. CASE i \in 1 .. Len(q)
        BY <2>2, <3>1, <4>1, <4>3 DEF Queued
      <4> QED BY <2>2, <4>1, <4>2, <4>3
    <3>2. CASE r # s
      BY <2>3, <3>2 DEF Queued
    <3> QED BY <3>1, <3>2
  <2>5. QueueExact'
    <3>1. ASSUME NEW r \in Sem, NEW u \in Thread, Queued(u, r)'
          PROVE  blocked'[u] /\ Downs(u, r, mpc[u])'
      <4>1. CASE u = t /\ r = s
        BY <1>1, <2>1, <4>1 DEF Downs
      <4>2. CASE Queued(u, r)
        BY <1>1, <1>2, <2>1, <4>2 DEF QueueExact, Downs
      <4> QED BY <2>4, <3>1, <4>1, <4>2
    <3>2. ASSUME NEW r \in Sem, NEW i \in 1 .. Len(wait_queue'[r]),
                 NEW j \in 1 .. Len(wait_queue'[r]),
                 wait_queue'[r][i] = wait_queue'[r][j]
          PROVE  i = j
      <4>1. CASE r = s
        <5>1. /\ i \in 1 .. Len(q) + 1 /\ j \in 1 .. Len(q) + 1
              /\ Append(q, t)[i] = Append(q, t)[j]
          BY <2>2, <2>3, <3>2, <4>1
        <5>2. \A k \in 1 .. Len(q) : q[k] # t
          BY <1>2 DEF Queued
        <5>3. \A k, m \in 1 .. Len(q) : q[k] = q[m] => k = m
          BY DEF QueueExact
        <5> HIDE DEF q
        <5>4. CASE i = Len(q) + 1
          BY <2>2, <5>1, <5>2, <5>4
        <5>5. CASE j = Len(q) + 1
          BY <2>2, <5>1, <5>2, <5>5
        <5>6. CASE i \in 1 .. Len(q) /\ j \in 1 .. Len(q)
          BY <2>2, <5>1, <5>3, <5>6
        <5>7. i = Len(q) + 1 \/ j = Len(q) + 1 \/ (i \in 1 .. Len(q) /\ j \in 1 .. Len(q))
          BY <2>2, <5>1
        <5> QED BY <5>4, <5>5, <5>6, <5>7
      <4>2. CASE r # s
        BY <2>3, <3>2, <4>2 DEF QueueExact
      <4> QED BY <4>1, <4>2
    <3>3. \A u \in Thread : blocked'[u] => mpc'[u] \in Owning
      BY <1>1, <2>1 DEF QueueExact
    <3> QED BY <3>1, <3>2, <3>3 DEF QueueExact
  <2>6. /\ blocked'[t]
        /\ \A u \in Thread \ {t} : mpc'[u] = mpc[u] /\ blocked'[u] = blocked[u]
    BY <1>1, <2>1
  <2>7. \A u \in Thread : Active(u)' <=> Active(u)
    BY <1>2, <2>6 DEF Active
  <2>8. OneHand'
    BY <2>1, <2>7 DEF OneHand
  <2>9. wait_queue' \in [Sem -> Seq(Thread)]
    BY <2>1, <2>2
  <2> QED BY <1>1, <2>1, <2>5, <2>6, <2>8, <2>9
<1> QED BY <1>3, <1>4

(***************************************************************************)
(* The end of cond_signal and of cond_wait: the thread keeps the monitor.  *)
(***************************************************************************)
LEMMA BackStep ==
  ASSUME MonInv, NEW t \in Thread, ~blocked[t], mpc[t] \in Owning, Goto(t, "in"),
         UNCHANGED <<value, wait_queue, blocked, cv>>
  PROVE  mpc' \in [Thread -> Owning \cup Outside] /\ QueueExact' /\ OneHand'
<1> USE DEF MonInv, MonTypeOK
<1>1. /\ mpc' = [mpc EXCEPT ![t] = "in"] /\ "in" \in Owning
      /\ mpc' \in [Thread -> Owning \cup Outside]
  BY DEF Goto, Owning
<1>2. \A r \in Sem : ~Queued(t, r)
  BY DEF QueueExact
<1>3. QueueExact'
  BY <1>1, <1>2 DEF QueueExact, Queued, Downs
<1>4. \A u \in Thread : Active(u)' <=> Active(u)
  BY <1>1 DEF Active, Owning
<1> QED BY <1>1, <1>3, <1>4 DEF OneHand

(***************************************************************************)
(* HandOver is up() of next or of mutex.                                   *)
(***************************************************************************)
LEMMA HandOverIsUp == HandOver => \E s \in {mutex, next} : S!up(s)
  BY DEF HandOver

\* The threads that the two counters count.
Signallers == {t \in Thread : mpc[t] \in {"sig_down", "sig_back"}}
Waiters(c) == {t \in Thread : mpc[t] \in {"wait_down", "wait_back"} /\ cv[t] = c}

(***************************************************************************)
(* There are finitely many of them.                                        *)
(***************************************************************************)
LEMMA CountedFinite ==
    /\ IsFiniteSet(Thread) /\ IsFiniteSet(Cond)
    /\ IsFiniteSet(Signallers) /\ \A c : IsFiniteSet(Waiters(c))
<1>1. IsFiniteSet(Thread) /\ IsFiniteSet(Cond)
  <2>1. IsFiniteSet(0 .. N - 1)
    <3>1. 0 \in Int /\ N - 1 \in Int
      BY PhilAssumption
    <3> QED BY <3>1, FS_Interval
  <2> QED BY <2>1, PhilsAreThreads
<1>2. Signallers \in SUBSET Thread /\ \A c : Waiters(c) \in SUBSET Thread
  BY DEF Signallers, Waiters
<1> QED BY <1>1, <1>2, FS_Subset

\* Every operation of the monitor.
MonOp(t) == \/ enter(t) \/ leave(t) \/ MonStep(t)
            \/ \E c \in Cond : cond_signal(t, c) \/ cond_wait(t, c)

(***************************************************************************)
(* Every operation keeps the monitor in one pair of hands.                 *)
(***************************************************************************)
LEMMA MonOpKeepsInv ==
  ASSUME MonInv, CountersExact, NEW t \in Thread, MonOp(t)
  PROVE  MonInv'
<1> USE DEF MonInv
<1>0. MonTypeOK
  OBVIOUS
<1>1. CASE enter(t)
  <2>1. /\ ~blocked[t] /\ mpc[t] \in Outside /\ "in" \in Owning /\ Downs(t, mutex, "in")
        /\ mutex \in Sem /\ S!down(t, mutex) /\ Goto(t, "in")
        /\ UNCHANGED <<next_count, count, cv>>
    BY <1>1, SemsDiffer DEF enter, At, Outside, Owning, Downs
  <2> QED BY <1>0, <2>1, DownStep DEF MonTypeOK
<1>2. CASE leave(t)
  <2>1. At(t, "in") /\ Goto(t, "out") /\ "out" \in Outside /\ HandOver
        /\ UNCHANGED <<next_count, count, cv>>
    BY <1>2 DEF leave, Outside
  <2>2. PICK s \in Sem : S!up(s)
    BY <2>1, HandOverIsUp, SemsDiffer
  <2> QED BY <1>0, <2>1, <2>2, UpStep DEF MonTypeOK
<1>3. ASSUME NEW c \in Cond, cond_signal(t, c) PROVE MonInv'
  <2>1. CASE count[c] > 0
    <3>1. At(t, "in") /\ Goto(t, "sig_down") /\ "sig_down" \in Outside
          /\ cvsem(c) \in Sem /\ S!up(cvsem(c)) /\ UNCHANGED <<count, cv>>
          /\ next_count' = next_count + 1
      BY <1>3, <2>1, SemsDiffer DEF cond_signal, Outside
    <3> QED BY <1>0, <3>1, UpStep DEF MonTypeOK
  <2>2. CASE ~(count[c] > 0)
    BY <1>0, <1>3, <2>2 DEF cond_signal, MonTypeOK, QueueExact, Queued, Downs, OneHand, Active
  <2> QED BY <2>1, <2>2
<1>4. ASSUME NEW c \in Cond, cond_wait(t, c) PROVE MonInv'
  <2>1. At(t, "in") /\ Goto(t, "wait_down") /\ "wait_down" \in Outside /\ HandOver
        /\ cv' = [cv EXCEPT ![t] = c] /\ count' = [count EXCEPT ![c] = @ + 1]
        /\ next_count' = next_count
    BY <1>4 DEF cond_wait, Outside
  <2>2. PICK s \in Sem : S!up(s)
    BY <2>1, HandOverIsUp, SemsDiffer
  <2>3. /\ cv' \in [Thread -> Cond] /\ count' \in [Cond -> Nat] /\ next_count' \in Nat
        /\ \A u \in Thread \ {t} : cv'[u] = cv[u]
    BY <1>0, <2>1 DEF MonTypeOK
  <2> QED BY <1>0, <2>1, <2>2, <2>3, UpStep DEF MonTypeOK
<1>5. CASE signal_down(t)
  <2>1. /\ ~blocked[t] /\ mpc[t] \in Outside /\ "sig_back" \in Owning
        /\ Downs(t, next, "sig_back") /\ next \in Sem /\ S!down(t, next)
        /\ Goto(t, "sig_back") /\ UNCHANGED <<next_count, count, cv>>
    BY <1>5, SemsDiffer DEF signal_down, At, Outside, Owning, Downs
  <2> QED BY <1>0, <2>1, DownStep DEF MonTypeOK
<1>6. CASE wait_down(t)
  <2>1. /\ ~blocked[t] /\ mpc[t] \in Outside /\ "wait_back" \in Owning
        /\ Downs(t, cvsem(cv[t]), "wait_back") /\ cvsem(cv[t]) \in Sem
        /\ S!down(t, cvsem(cv[t])) /\ Goto(t, "wait_back")
        /\ UNCHANGED <<next_count, count, cv>>
    BY <1>0, <1>6, SemsDiffer DEF wait_down, At, Outside, Owning, Downs, MonTypeOK
  <2> QED BY <1>0, <2>1, DownStep DEF MonTypeOK
<1>7. CASE signal_back(t)
  <2>1. /\ ~blocked[t] /\ mpc[t] \in Owning /\ mpc[t] = "sig_back" /\ Goto(t, "in")
        /\ UNCHANGED <<value, wait_queue, blocked, count, cv>>
        /\ next_count' = next_count - 1
    BY <1>7 DEF signal_back, At, Owning
  <2>2. next_count > 0
    <3>1. t \in Signallers /\ IsFiniteSet(Signallers) /\ next_count = Cardinality(Signallers)
      BY <2>1, CountedFinite DEF Signallers, CountersExact
    <3> QED BY <1>0, <3>1, FS_EmptySet, FS_CardinalityType DEF MonTypeOK
  <2> QED BY <1>0, <2>1, <2>2, BackStep DEF MonTypeOK
<1>8. CASE wait_back(t)
  <2>1. /\ ~blocked[t] /\ mpc[t] \in Owning /\ mpc[t] = "wait_back" /\ Goto(t, "in")
        /\ UNCHANGED <<value, wait_queue, blocked, next_count, cv>>
        /\ count' = [count EXCEPT ![cv[t]] = @ - 1] /\ cv[t] \in Cond
    BY <1>0, <1>8 DEF wait_back, At, Owning, MonTypeOK
  <2>2. count[cv[t]] > 0
    <3>1. /\ t \in Waiters(cv[t]) /\ IsFiniteSet(Waiters(cv[t]))
          /\ count[cv[t]] = Cardinality(Waiters(cv[t]))
      BY <2>1, CountedFinite DEF Waiters, CountersExact
    <3> QED BY <1>0, <3>1, FS_EmptySet, FS_CardinalityType DEF MonTypeOK
  <2> QED BY <1>0, <2>1, <2>2, BackStep DEF MonTypeOK
<1> QED BY <1>1, <1>2, <1>3, <1>4, <1>5, <1>6, <1>7, <1>8 DEF MonOp, MonStep

(***************************************************************************)
(* Every operation keeps the counters exact: a thread joins those that are *)
(* counted where the counter goes up and leaves them where it goes down.   *)
(***************************************************************************)
LEMMA MonOpKeepsCounters ==
  ASSUME MonInv, CountersExact, NEW t \in Thread, MonOp(t)
  PROVE  CountersExact'
<1> USE DEF MonInv
<1>0. MonTypeOK /\ IsFiniteSet(Signallers) /\ \A c : IsFiniteSet(Waiters(c))
  BY CountedFinite
<1>a. next_count = Cardinality(Signallers) /\ \A c \in Cond : count[c] = Cardinality(Waiters(c))
  BY DEF CountersExact, Signallers, Waiters
<1>b. CountersExact' <=> /\ next_count' = Cardinality(Signallers')
                         /\ \A c \in Cond : count'[c] = Cardinality(Waiters(c)')
  BY DEF CountersExact, Signallers, Waiters
<1>c. ASSUME Signallers' = Signallers, \A c \in Cond : Waiters(c)' = Waiters(c),
             UNCHANGED <<next_count, count>>
      PROVE  CountersExact'
  BY <1>a, <1>b, <1>c
<1>1. CASE enter(t) \/ leave(t) \/ signal_down(t) \/ wait_down(t)
  BY <1>0, <1>1, <1>c
     DEF enter, leave, signal_down, wait_down, At, Goto, Signallers, Waiters, MonTypeOK
<1>2. ASSUME NEW c \in Cond, cond_signal(t, c) PROVE CountersExact'
  <2>1. CASE count[c] > 0
    <3>1. /\ mpc[t] = "in" /\ mpc' = [mpc EXCEPT ![t] = "sig_down"]
          /\ next_count' = next_count + 1 /\ UNCHANGED <<count, cv>>
      BY <1>2, <2>1 DEF cond_signal, At, Goto
    <3>2. /\ Signallers' = Signallers \cup {t} /\ t \notin Signallers
          /\ \A d \in Cond : Waiters(d)' = Waiters(d)
      BY <1>0, <3>1 DEF Signallers, Waiters, MonTypeOK
    <3>3. Cardinality(Signallers \cup {t}) = Cardinality(Signallers) + 1
      BY <1>0, <3>2, FS_AddElement
    <3> QED BY <1>a, <1>b, <3>1, <3>2, <3>3
  <2>2. CASE ~(count[c] > 0)
    BY <1>2, <1>c, <2>2 DEF cond_signal, Signallers, Waiters
  <2> QED BY <2>1, <2>2
<1>3. ASSUME NEW c \in Cond, cond_wait(t, c) PROVE CountersExact'
  <2>1. /\ mpc[t] = "in" /\ mpc' = [mpc EXCEPT ![t] = "wait_down"]
        /\ cv' = [cv EXCEPT ![t] = c] /\ count' = [count EXCEPT ![c] = @ + 1]
        /\ next_count' = next_count
    BY <1>3 DEF cond_wait, At, Goto
  <2>2. /\ Signallers' = Signallers /\ Waiters(c)' = Waiters(c) \cup {t} /\ t \notin Waiters(c)
        /\ \A d \in Cond \ {c} : Waiters(d)' = Waiters(d)
    BY <1>0, <2>1 DEF Signallers, Waiters, MonTypeOK
  <2>3. Cardinality(Waiters(c) \cup {t}) = Cardinality(Waiters(c)) + 1
    BY <1>0, <2>2, FS_AddElement
  <2>4. count'[c] = count[c] + 1 /\ \A d \in Cond \ {c} : count'[d] = count[d]
    BY <1>0, <2>1 DEF MonTypeOK
  <2>5. \A d \in Cond : count'[d] = Cardinality(Waiters(d)')
    BY <1>a, <2>2, <2>3, <2>4
  <2> QED BY <1>a, <1>b, <2>1, <2>2, <2>5
<1>4. CASE signal_back(t)
  <2>1. /\ mpc[t] = "sig_back" /\ mpc' = [mpc EXCEPT ![t] = "in"]
        /\ next_count' = next_count - 1 /\ UNCHANGED <<count, cv>>
    BY <1>4 DEF signal_back, At, Goto
  <2>2. /\ Signallers' = Signallers \ {t} /\ t \in Signallers
        /\ \A d \in Cond : Waiters(d)' = Waiters(d)
    BY <1>0, <2>1 DEF Signallers, Waiters, MonTypeOK
  <2>3. Cardinality(Signallers \ {t}) = Cardinality(Signallers) - 1
    BY <1>0, <2>2, FS_RemoveElement
  <2> QED BY <1>a, <1>b, <2>1, <2>2, <2>3
<1>5. CASE wait_back(t)
  <2> DEFINE w == cv[t]
  <2>1. /\ mpc[t] = "wait_back" /\ mpc' = [mpc EXCEPT ![t] = "in"]
        /\ count' = [count EXCEPT ![w] = @ - 1] /\ UNCHANGED <<next_count, cv>>
        /\ w \in Cond
    BY <1>0, <1>5 DEF wait_back, At, Goto, MonTypeOK
  <2>2. PICK c \in Cond : c = w
    BY <2>1
  <2>3. /\ Signallers' = Signallers /\ Waiters(c)' = Waiters(c) \ {t} /\ t \in Waiters(c)
        /\ \A d \in Cond \ {c} : Waiters(d)' = Waiters(d)
    BY <1>0, <2>1, <2>2 DEF Signallers, Waiters, MonTypeOK
  <2>4. Cardinality(Waiters(c) \ {t}) = Cardinality(Waiters(c)) - 1
    BY <1>0, <2>3, FS_RemoveElement
  <2>5. count'[c] = count[c] - 1 /\ \A d \in Cond \ {c} : count'[d] = count[d]
    BY <1>0, <2>1, <2>2 DEF MonTypeOK
  <2>6. \A d \in Cond : count'[d] = Cardinality(Waiters(d)')
    BY <1>a, <2>3, <2>4, <2>5
  <2> QED BY <1>a, <1>b, <2>1, <2>3, <2>6
<1> QED BY <1>1, <1>2, <1>3, <1>4, <1>5 DEF MonOp, MonStep

(***************************************************************************)
(* monitor_init establishes MonInv and CountersExact.                      *)
(***************************************************************************)
LEMMA MonInit == monitor_init => MonInv /\ CountersExact
<1> SUFFICES ASSUME monitor_init PROVE MonInv /\ CountersExact
    OBVIOUS
<1>1. /\ value = [s \in Sem |-> IF s = mutex THEN 1 ELSE 0]
      /\ wait_queue = [s \in Sem |-> <<>>]
      /\ blocked = [t \in Thread |-> FALSE]
      /\ next_count = 0 /\ count = [c \in Cond |-> 0]
      /\ mpc = [t \in Thread |-> "out"] /\ cv \in [Thread -> Cond]
  BY DEF monitor_init, S!sem_init
<1>2. MonTypeOK
  BY <1>1 DEF MonTypeOK, Owning, Outside
<1>3. QueueExact
  BY <1>1 DEF QueueExact, Queued
<1>4. OneHand
  <2>1. value[mutex] = 1 /\ \A r \in Sem \ {mutex} : value[r] = 0
    BY <1>1, SemsDiffer
  <2>2. \A t \in Thread : ~Active(t)
    BY <1>1 DEF Active
  <2> QED BY <2>1, <2>2, SemsDiffer DEF OneHand
<1>5. Signallers = {} /\ \A c : Waiters(c) = {}
  BY <1>1 DEF Signallers, Waiters
<1>6. CountersExact
  <2>1. CountersExact <=> /\ next_count = Cardinality(Signallers)
                          /\ \A c \in Cond : count[c] = Cardinality(Waiters(c))
    BY DEF CountersExact, Signallers, Waiters
  <2> QED BY <1>1, <1>5, <2>1, FS_EmptySet
<1> QED BY <1>2, <1>3, <1>4, <1>6 DEF MonInv

(***************************************************************************)
(* OneHand, counted.                                                       *)
(***************************************************************************)
LEMMA OneHandCounts == MonInv => OneInMonitor
<1> SUFFICES ASSUME MonInv PROVE OneInMonitor
    OBVIOUS
<1> DEFINE A == {t \in Thread : Active(t)}
           P == {s \in Sem : InTransit(s)}
<1>1. CASE /\ \E t \in Thread : Active(t) /\ \A u \in Thread : Active(u) => u = t
           /\ \A s \in Sem : value[s] = 0
  <2>1. PICK t \in Thread : A = {t}
    BY <1>1
  <2>2. P = {}
    BY <1>1 DEF InTransit
  <2>3. Cardinality(A) = 1 /\ Cardinality(P) = 0
    BY <2>1, <2>2, FS_Singleton, FS_EmptySet
  <2> QED BY <1>1, <2>3 DEF OneInMonitor
<1>2. CASE /\ \A t \in Thread : ~Active(t)
           /\ \E s \in Sem : value[s] = 1 /\ \A r \in Sem \ {s} : value[r] = 0
  <2>1. PICK s \in Sem : value[s] = 1 /\ \A r \in Sem \ {s} : value[r] = 0
    BY <1>2
  <2>2. A = {}
    BY <1>2
  <2>3. P = {s}
    BY <2>1 DEF InTransit
  <2>4. Cardinality(A) = 0 /\ Cardinality(P) = 1
    BY <2>2, <2>3, FS_Singleton, FS_EmptySet
  <2> QED BY <2>1, <2>4 DEF OneInMonitor
<1> QED BY <1>1, <1>2 DEF MonInv, OneHand

----------------------------------------------------------------------------
(* The philosophers.                                                       *)

Labels == {"think", "hungry", "while", "waited", "eat", "left", "right", "exit"}

PhilTypeOK ==
    /\ state_condvar \in [Phil -> {"THINKING", "HUNGRY", "EATING"}]
    /\ pc \in [Phil -> Labels]
    /\ iter \in [Phil -> 0 .. TIMES]

\* Only a philosopher that has been marked is woken from its cond_wait, and the
\* mark stays until it is back in the monitor.
WaitInv ==
    /\ cv = [i \in Phil |-> i]
    /\ \A i \in Phil : value[cvsem(i)] > 0 => state_condvar[i] = "EATING"
    /\ \A i \in Phil : At(i, "wait_back") => state_condvar[i] = "EATING"
    /\ \A i \in Phil : mpc[i] = "in" /\ blocked[i] => pc[i] \in {"hungry", "left"}
    /\ \A i \in Phil : pc[i] = "waited" => mpc[i] \in {"wait_down", "wait_back", "in"}
    /\ ConditionHoldsOnReturn

\* The inductive invariant.
PhilInv == MonInv /\ CountersExact /\ PhilTypeOK /\ ForksExclusive /\ WaitInv

(***************************************************************************)
(* LEFT and RIGHT are each other's inverse, and nobody is his own          *)
(* neighbour.                                                              *)
(***************************************************************************)
LEMMA Neighbours ==
  ASSUME NEW i \in Phil
  PROVE  /\ LEFT(i) \in Phil /\ RIGHT(i) \in Phil
         /\ LEFT(i) # i /\ RIGHT(i) # i
         /\ LEFT(RIGHT(i)) = i /\ RIGHT(LEFT(i)) = i
<1> USE PhilAssumption
<1>1. i \in Int /\ 0 <= i /\ i < N /\ N \in Nat /\ N >= 2
  BY DEF Phil
<1>2. \A j \in Phil : /\ RIGHT(j) = IF j = N - 1 THEN 0 ELSE j + 1
                      /\ LEFT(j) = IF j = 0 THEN N - 1 ELSE j - 1
  <2> SUFFICES ASSUME NEW j \in Phil
               PROVE  /\ RIGHT(j) = IF j = N - 1 THEN 0 ELSE j + 1
                      /\ LEFT(j) = IF j = 0 THEN N - 1 ELSE j - 1
      OBVIOUS
  <2>1. j \in Int /\ 0 <= j /\ j < N
    BY <1>1 DEF Phil
  <2>2. \A a \in 0 .. N - 1 : a % N = a /\ (a + N) % N = a
    BY <1>1
  <2>3. RIGHT(j) = IF j = N - 1 THEN 0 ELSE j + 1
    <3>1. CASE j = N - 1
      <4>1. j + 1 = 0 + N /\ 0 \in 0 .. N - 1
        BY <1>1, <2>1, <3>1
      <4> QED BY <2>2, <3>1, <4>1 DEF RIGHT
    <3>2. CASE j # N - 1
      <4>1. j + 1 \in 0 .. N - 1
        BY <1>1, <2>1, <3>2
      <4> QED BY <2>2, <3>2, <4>1 DEF RIGHT
    <3> QED BY <3>1, <3>2
  <2>4. LEFT(j) = IF j = 0 THEN N - 1 ELSE j - 1
    <3>1. CASE j = 0
      <4>1. j + N - 1 = N - 1 /\ N - 1 \in 0 .. N - 1
        BY <1>1, <2>1, <3>1
      <4> QED BY <2>2, <3>1, <4>1 DEF LEFT
    <3>2. CASE j # 0
      <4>1. j + N - 1 = (j - 1) + N /\ j - 1 \in 0 .. N - 1
        BY <1>1, <2>1, <3>2
      <4> QED BY <2>2, <3>2, <4>1 DEF LEFT
    <3> QED BY <3>1, <3>2
  <2> QED BY <2>3, <2>4
<1>3. LEFT(i) \in Phil /\ RIGHT(i) \in Phil
  BY <1>1, <1>2 DEF Phil
<1>4. LEFT(i) # i /\ RIGHT(i) # i
  BY <1>1, <1>2
<1>5. LEFT(RIGHT(i)) = i /\ RIGHT(LEFT(i)) = i
  BY <1>1, <1>2, <1>3
<1> QED BY <1>3, <1>4, <1>5

\* What a philosopher does with the monitor in one step, K those it signals.
PhilOp(i, K) == \/ enter(i) \/ leave(i) \/ cond_wait(i, i) \/ MonStep(i)
                \/ \E j \in K : cond_signal(i, j)
                \/ UNCHANGED monvars

(***************************************************************************)
(* Nobody gets a permit of a condition variable, or comes out of its queue, *)
(* but by a signal; what the others do with the monitor is left alone.     *)
(***************************************************************************)
LEMMA OnlySignalsGrant ==
  ASSUME MonInv, cv = [i \in Phil |-> i], NEW i \in Phil, NEW K \in SUBSET Phil,
         PhilOp(i, K)
  PROVE  /\ cv' = cv
         /\ \A u \in Phil \ {i} : mpc'[u] = mpc[u]
         /\ \A u \in Phil : value'[cvsem(u)] > 0 => value[cvsem(u)] > 0 \/ u \in K
         /\ \A u \in Phil \ {i} : ~blocked'[u] =>
               ~blocked[u] \/ mpc[u] # "wait_back" \/ u \in K
<1> USE DEF MonInv
<1>0. MonTypeOK /\ i \in Thread /\ Thread = Phil /\ Cond = Phil
  BY PhilsAreThreads DEF Phil
<1>1. ASSUME NEW s \in Sem, NEW l \in Outside, At(i, "in"), S!up(s), Goto(i, l), cv' = cv,
             \A u \in Phil : s = cvsem(u) => u \in K
      PROVE  /\ \A u \in Phil : value'[cvsem(u)] > 0 => value[cvsem(u)] > 0 \/ u \in K
             /\ \A u \in Phil \ {i} : ~blocked'[u] =>
                   ~blocked[u] \/ mpc[u] # "wait_back" \/ u \in K
  <2>1. /\ \A r \in Sem : r # s => value'[r] = 0
        /\ \A u \in Thread : ~blocked'[u] => ~blocked[u] \/ Downs(u, s, mpc[u])
    BY <1>0, <1>1, UpStep DEF MonTypeOK
  <2>2. \A u \in Phil : Downs(u, s, "wait_back") => s = cvsem(u)
    BY <1>0 DEF Downs
  <2> QED BY <1>0, <1>1, <2>1, <2>2, SemsDiffer
<1>2. ASSUME NEW s \in Sem, NEW l \in Owning, ~blocked[i], mpc[i] \in Outside, Downs(i, s, l),
             S!down(i, s), Goto(i, l), cv' = cv
      PROVE  /\ \A u \in Phil : value'[cvsem(u)] > 0 => value[cvsem(u)] > 0 \/ u \in K
             /\ \A u \in Phil \ {i} : ~blocked'[u] =>
                   ~blocked[u] \/ mpc[u] # "wait_back" \/ u \in K
  <2>1. /\ \A r \in Sem : value'[r] > 0 => value[r] > 0
        /\ \A u \in Thread : ~blocked'[u] => ~blocked[u]
    BY <1>0, <1>2, DownStep
  <2> QED BY <1>0, <2>1, SemsDiffer
<1>3. ASSUME NEW l, Goto(i, l) PROVE \A u \in Phil \ {i} : mpc'[u] = mpc[u]
  BY <1>0, <1>3 DEF Goto, MonTypeOK
<1>4. \A u \in Phil : cvsem(u) # mutex /\ cvsem(u) # next
  BY SemsDiffer
<1>5. CASE enter(i)
  <2>1. /\ ~blocked[i] /\ mpc[i] \in Outside /\ "in" \in Owning /\ Downs(i, mutex, "in")
        /\ mutex \in Sem /\ S!down(i, mutex) /\ Goto(i, "in") /\ cv' = cv
    BY <1>5, SemsDiffer DEF enter, At, Outside, Owning, Downs
  <2> QED BY <1>2, <1>3, <2>1
<1>6. CASE leave(i)
  <2>1. At(i, "in") /\ Goto(i, "out") /\ "out" \in Outside /\ HandOver /\ cv' = cv
    BY <1>6 DEF leave, Outside
  <2>2. PICK s \in {mutex, next} : S!up(s)
    BY <2>1, HandOverIsUp
  <2> QED BY <1>1, <1>3, <1>4, <2>1, <2>2, SemsDiffer
<1>7. CASE cond_wait(i, i)
  <2>1. At(i, "in") /\ Goto(i, "wait_down") /\ "wait_down" \in Outside /\ HandOver
        /\ cv' = [cv EXCEPT ![i] = i]
    BY <1>7 DEF cond_wait, Outside
  <2>2. PICK s \in {mutex, next} : S!up(s)
    BY <2>1, HandOverIsUp
  <2>3. cv' = cv
    BY <2>1
  <2> QED BY <1>1, <1>3, <1>4, <2>1, <2>2, <2>3, SemsDiffer
<1>8. CASE MonStep(i)
  <2>1. CASE signal_down(i)
    <3>1. /\ ~blocked[i] /\ mpc[i] \in Outside /\ "sig_back" \in Owning
          /\ Downs(i, next, "sig_back") /\ next \in Sem /\ S!down(i, next)
          /\ Goto(i, "sig_back") /\ cv' = cv
      BY <2>1, SemsDiffer DEF signal_down, At, Outside, Owning, Downs
    <3> QED BY <1>2, <1>3, <3>1
  <2>2. CASE wait_down(i)
    <3>1. /\ ~blocked[i] /\ mpc[i] \in Outside /\ "wait_back" \in Owning
          /\ Downs(i, cvsem(cv[i]), "wait_back") /\ cvsem(cv[i]) \in Sem
          /\ S!down(i, cvsem(cv[i])) /\ Goto(i, "wait_back") /\ cv' = cv
      BY <1>0, <2>2, SemsDiffer DEF wait_down, At, Outside, Owning, Downs, MonTypeOK
    <3> QED BY <1>2, <1>3, <3>1
  <2>3. CASE signal_back(i) \/ wait_back(i)
    <3>1. Goto(i, "in") /\ UNCHANGED <<value, blocked, cv>>
      BY <2>3 DEF signal_back, wait_back
    <3> QED BY <1>3, <3>1
  <2> QED BY <1>8, <2>1, <2>2, <2>3 DEF MonStep
<1>9. ASSUME NEW j \in K, cond_signal(i, j)
      PROVE  /\ cv' = cv
             /\ \A u \in Phil \ {i} : mpc'[u] = mpc[u]
             /\ \A u \in Phil : value'[cvsem(u)] > 0 => value[cvsem(u)] > 0 \/ u \in K
             /\ \A u \in Phil \ {i} : ~blocked'[u] =>
                   ~blocked[u] \/ mpc[u] # "wait_back" \/ u \in K
  <2>1. CASE count[j] > 0
    <3>1. At(i, "in") /\ Goto(i, "sig_down") /\ "sig_down" \in Outside
          /\ S!up(cvsem(j)) /\ cv' = cv
      BY <1>9, <2>1 DEF cond_signal, Outside
    <3>2. cvsem(j) \in Sem /\ \A u \in Phil : cvsem(j) = cvsem(u) => u \in K
      BY <1>0, SemsDiffer
    <3> QED BY <1>1, <1>3, <3>1, <3>2
  <2>2. CASE ~(count[j] > 0)
    BY <1>9, <2>2 DEF cond_signal
  <2> QED BY <2>1, <2>2
<1>10. CASE UNCHANGED monvars
  BY <1>10 DEF monvars
<1> QED BY <1>5, <1>6, <1>7, <1>8, <1>9, <1>10 DEF PhilOp

(***************************************************************************)
(* Nobody but the caller of down() falls asleep.                           *)
(***************************************************************************)
LEMMA OthersStayAwake ==
  ASSUME MonTypeOK, NEW i \in Phil, NEW K, PhilOp(i, K)
  PROVE  \A u \in Phil \ {i} : blocked'[u] => blocked[u]
<1>0. blocked \in [Phil -> BOOLEAN]
  BY PhilsAreThreads DEF MonTypeOK, Phil
<1>1. ASSUME NEW s, S!down(i, s) PROVE \A u \in Phil \ {i} : blocked'[u] => blocked[u]
  BY <1>0, <1>1 DEF S!down
<1>2. ASSUME NEW s, S!up(s) PROVE \A u \in Phil : blocked'[u] => blocked[u]
  BY <1>0, <1>2 DEF S!up
<1>3. CASE HandOver
  BY <1>2, <1>3 DEF HandOver
<1>4. CASE enter(i) \/ leave(i) \/ cond_wait(i, i)
  BY <1>1, <1>3, <1>4 DEF enter, leave, cond_wait
<1>5. CASE MonStep(i)
  BY <1>1, <1>5 DEF MonStep, signal_down, signal_back, wait_down, wait_back
<1>6. ASSUME NEW j, cond_signal(i, j) PROVE \A u \in Phil \ {i} : blocked'[u] => blocked[u]
  BY <1>2, <1>6 DEF cond_signal
<1>7. CASE UNCHANGED monvars
  BY <1>7 DEF monvars
<1> QED BY <1>4, <1>5, <1>6, <1>7 DEF PhilOp

(***************************************************************************)
(* A step in which philosopher i signals only philosophers that it leaves  *)
(* marked, and takes no other philosopher's mark away, keeps WaitInv.      *)
(***************************************************************************)
LEMMA WaitKept ==
  ASSUME PhilInv, NEW i \in Phil, NEW K \in SUBSET Phil, PhilOp(i, K),
         \A u \in K : state_condvar'[u] = "EATING",
         \A u \in Phil \ {i} : state_condvar[u] = "EATING" => state_condvar'[u] = "EATING",
         \A u \in Phil \ {i} : pc'[u] = pc[u],
         state_condvar[i] = "EATING" => state_condvar'[i] = "EATING" \/ At(i, "in"),
         \* what is left to show about i itself
         At(i, "wait_back")' => state_condvar'[i] = "EATING",
         mpc'[i] = "in" /\ blocked'[i] => pc'[i] \in {"hungry", "left"},
         pc'[i] = "waited" => mpc'[i] \in {"wait_down", "wait_back", "in"},
         pc'[i] = "waited" /\ At(i, "in")' => state_condvar'[i] = "EATING"
  PROVE  WaitInv'
<1> USE DEF PhilInv
<1>0. MonInv /\ MonTypeOK /\ WaitInv /\ Thread = Phil /\ cv = [u \in Phil |-> u]
  BY PhilsAreThreads DEF MonInv, WaitInv, Phil
<1>1. /\ cv' = cv
      /\ \A u \in Phil \ {i} : mpc'[u] = mpc[u]
      /\ \A u \in Phil : value'[cvsem(u)] > 0 => value[cvsem(u)] > 0 \/ u \in K
      /\ \A u \in Phil \ {i} : ~blocked'[u] =>
               ~blocked[u] \/ mpc[u] # "wait_back" \/ u \in K
  BY <1>0, OnlySignalsGrant
<1>2. At(i, "in") => \A u \in Phil : ~(value[cvsem(u)] > 0)
  <2>1. At(i, "in") => Active(i)
    BY DEF At, Active
  <2>2. \A u \in Phil : cvsem(u) \in Sem
    BY SemsDiffer, PhilsAreThreads DEF Phil
  <2> QED BY <1>0, <2>1, <2>2 DEF MonInv, OneHand
<1>3. ASSUME NEW u \in Phil, value'[cvsem(u)] > 0 PROVE state_condvar'[u] = "EATING"
  BY <1>0, <1>1, <1>2, <1>3 DEF WaitInv
<1>4. ASSUME NEW u \in Phil, At(u, "wait_back")' PROVE state_condvar'[u] = "EATING"
  BY <1>0, <1>1, <1>4 DEF WaitInv, At
<1>5. ASSUME NEW u \in Phil, mpc'[u] = "in", blocked'[u]
      PROVE  pc'[u] \in {"hungry", "left"}
  <2>1. CASE u # i
    <3>1. blocked[u]
      BY <1>0, <1>5, <2>1, OthersStayAwake
    <3> QED BY <1>0, <1>1, <1>5, <2>1, <3>1 DEF WaitInv
  <2> QED BY <1>5, <2>1
<1>6. \A u \in Phil : pc'[u] = "waited" => mpc'[u] \in {"wait_down", "wait_back", "in"}
  BY <1>0, <1>1 DEF WaitInv
<1>7. ASSUME NEW u \in Phil, pc'[u] = "waited", At(u, "in")' PROVE state_condvar'[u] = "EATING"
  BY <1>0, <1>1, <1>7 DEF WaitInv, ConditionHoldsOnReturn, At
<1> QED BY <1>0, <1>1, <1>3, <1>4, <1>5, <1>6, <1>7 DEF WaitInv, ConditionHoldsOnReturn
(***************************************************************************)
(* What phi_test_condvar(j), called by i, does.                            *)
(***************************************************************************)
LEMMA TestStep ==
  ASSUME PhilInv, NEW i \in Phil, NEW j \in Phil,
         NEW st \in [Phil -> {"THINKING", "HUNGRY", "EATING"}],
         \A u \in Phil : st[u] = "EATING" => st[RIGHT(u)] # "EATING",
         At(i, "in"), phi_test_condvar(i, j, st)
  PROVE  /\ state_condvar' \in [Phil -> {"THINKING", "HUNGRY", "EATING"}]
         /\ \A u \in Phil : state_condvar'[u] = "EATING" => state_condvar'[RIGHT(u)] # "EATING"
         /\ \A u \in Phil : st[u] = "EATING" => state_condvar'[u] = "EATING"
         /\ mpc'[i] \in {"in", "sig_down"} /\ ~blocked'[i]
         /\ \E K \in SUBSET Phil : /\ PhilOp(i, K)
                                   /\ \A u \in K : state_condvar'[u] = "EATING"
         /\ MonInv' /\ CountersExact'
<1>0. /\ MonInv /\ MonTypeOK /\ CountersExact /\ i \in Thread /\ j \in Cond /\ Thread = Phil
      /\ mpc[i] = "in" /\ ~blocked[i]
  BY PhilsAreThreads DEF PhilInv, MonInv, Phil, At
<1>1. CASE CanEat(j, st)
  <2>1. state_condvar' = [st EXCEPT ![j] = "EATING"] /\ cond_signal(i, j)
    BY <1>1 DEF phi_test_condvar
  <2>2. st[LEFT(j)] # "EATING" /\ st[RIGHT(j)] # "EATING"
    BY <1>1 DEF CanEat
  <2>3. ASSUME NEW u \in Phil, state_condvar'[u] = "EATING"
        PROVE  state_condvar'[RIGHT(u)] # "EATING"
    <3>1. RIGHT(u) \in Phil /\ RIGHT(j) # j /\ LEFT(RIGHT(u)) = u /\ RIGHT(j) \in Phil
      BY Neighbours
    <3>2. CASE u = j
      BY <2>1, <2>2, <3>1, <3>2
    <3>3. CASE RIGHT(u) = j
      BY <2>1, <2>2, <2>3, <3>1, <3>3
    <3>4. CASE u # j /\ RIGHT(u) # j
      BY <2>1, <2>3, <3>1, <3>4
    <3> QED BY <3>2, <3>3, <3>4
  <2>4. \A u \in {j} : state_condvar'[u] = "EATING"
    BY <2>1
  <2>5. PhilOp(i, {j}) /\ MonOp(i)
    BY <1>0, <2>1 DEF PhilOp, MonOp
  <2>6. MonInv' /\ CountersExact'
    BY <1>0, <2>5, MonOpKeepsInv, MonOpKeepsCounters
  <2>7. mpc'[i] \in {"in", "sig_down"} /\ ~blocked'[i]
    BY <1>0, <2>1 DEF cond_signal, Goto, S!up, MonTypeOK
  <2>8. /\ state_condvar' \in [Phil -> {"THINKING", "HUNGRY", "EATING"}]
        /\ \A u \in Phil : st[u] = "EATING" => state_condvar'[u] = "EATING"
    BY <2>1
  <2>9. {j} \in SUBSET Phil
    OBVIOUS
  <2> QED BY <2>3, <2>4, <2>5, <2>6, <2>7, <2>8, <2>9
<1>2. CASE ~CanEat(j, st)
  <2>1. state_condvar' = st /\ UNCHANGED monvars
    BY <1>2 DEF phi_test_condvar
  <2>2. PhilOp(i, {}) /\ {} \in SUBSET Phil
    BY <2>1 DEF PhilOp
  <2>3. MonInv' /\ CountersExact'
    BY <1>0, <2>1 DEF monvars, MonInv, MonTypeOK, QueueExact, Queued, Downs, OneHand, Active,
                      CountersExact
  <2> QED BY <1>0, <2>1, <2>2, <2>3 DEF monvars
<1> QED BY <1>1, <1>2
(***************************************************************************)
(* Init establishes PhilInv.                                               *)
(***************************************************************************)
LEMMA PhilInit == Init => PhilInv
<1> SUFFICES ASSUME Init PROVE PhilInv
    OBVIOUS
<1>1. MonInv /\ CountersExact
  BY MonInit DEF Init
<1>2. PhilTypeOK /\ ForksExclusive
  BY PhilAssumption, Neighbours DEF Init, PhilTypeOK, Labels, ForksExclusive
<1>3. /\ value = [s \in Sem |-> IF s = mutex THEN 1 ELSE 0]
      /\ mpc = [t \in Phil |-> "out"]
  BY PhilsAreThreads DEF Init, monitor_init, S!sem_init, Phil
<1>4. \A i \in Phil : value[cvsem(i)] = 0
  BY <1>3, SemsDiffer, PhilsAreThreads DEF Phil
<1>5. WaitInv
  BY <1>3, <1>4 DEF Init, WaitInv, ConditionHoldsOnReturn, At
<1> QED BY <1>1, <1>2, <1>5 DEF PhilInv

(***************************************************************************)
(* Every step of a philosopher keeps PhilInv.                              *)
(***************************************************************************)
LEMMA PhilStep == ASSUME PhilInv, NEW i \in Phil, Step(i) PROVE PhilInv'
<1>0. /\ MonInv /\ MonTypeOK /\ CountersExact /\ PhilTypeOK /\ ForksExclusive /\ WaitInv
      /\ i \in Thread /\ Thread = Phil /\ Cond = Phil
  BY PhilsAreThreads DEF PhilInv, MonInv, Phil
<1>a. /\ mpc \in [Phil -> Owning \cup Outside] /\ blocked \in [Phil -> BOOLEAN]
      /\ pc \in [Phil -> Labels]
      /\ state_condvar \in [Phil -> {"THINKING", "HUNGRY", "EATING"}]
  BY <1>0 DEF MonTypeOK, PhilTypeOK
\* Steps that mark nobody.
<1>b. ASSUME NEW l \in Labels, pc' = [pc EXCEPT ![i] = l], state_condvar' = state_condvar,
             iter' \in [Phil -> 0 .. TIMES], MonOp(i), PhilOp(i, {}),
             l = "eat" => state_condvar[i] = "EATING",
             At(i, "wait_back")' => state_condvar[i] = "EATING",
             mpc'[i] = "in" /\ blocked'[i] => l \in {"hungry", "left"},
             l = "waited" => mpc'[i] \in {"wait_down", "wait_back", "in"},
             l = "waited" /\ At(i, "in")' => state_condvar[i] = "EATING"
      PROVE  PhilInv'
  <2>1. MonInv' /\ CountersExact'
    BY <1>0, <1>b, MonOpKeepsInv, MonOpKeepsCounters
  <2>2. PhilTypeOK' /\ ForksExclusive'
    BY <1>0, <1>a, <1>b DEF PhilTypeOK, ForksExclusive
  <2>3. /\ {} \in SUBSET Phil /\ pc'[i] = l /\ \A u \in Phil \ {i} : pc'[u] = pc[u]
        /\ \A u \in {} : state_condvar'[u] = "EATING"
    BY <1>a, <1>b
  <2>4. WaitInv'
    BY <1>b, <2>3, WaitKept
  <2> QED BY <2>1, <2>2, <2>4 DEF PhilInv
\* Steps that test a philosopher.
<1>c. ASSUME NEW j \in Phil, NEW l \in {"while", "right", "exit"},
             NEW st \in [Phil -> {"THINKING", "HUNGRY", "EATING"}],
             \A u \in Phil : st[u] = "EATING" => st[RIGHT(u)] # "EATING",
             \A u \in Phil \ {i} : st[u] = state_condvar[u],
             pc' = [pc EXCEPT ![i] = l], iter' = iter,
             At(i, "in"), phi_test_condvar(i, j, st)
      PROVE  PhilInv'
  <2>1. /\ state_condvar' \in [Phil -> {"THINKING", "HUNGRY", "EATING"}]
        /\ \A u \in Phil : state_condvar'[u] = "EATING" => state_condvar'[RIGHT(u)] # "EATING"
        /\ \A u \in Phil : st[u] = "EATING" => state_condvar'[u] = "EATING"
        /\ mpc'[i] \in {"in", "sig_down"} /\ ~blocked'[i]
        /\ \E K \in SUBSET Phil : /\ PhilOp(i, K)
                                  /\ \A u \in K : state_condvar'[u] = "EATING"
        /\ MonInv' /\ CountersExact'
    BY <1>c, TestStep
  <2>2. PICK K \in SUBSET Phil : /\ PhilOp(i, K)
                                 /\ \A u \in K : state_condvar'[u] = "EATING"
    BY <2>1
  <2>3. pc'[i] = l /\ l \in Labels /\ (\A u \in Phil \ {i} : pc'[u] = pc[u])
        /\ pc' \in [Phil -> Labels]
    BY <1>a, <1>c DEF Labels
  <2>4. PhilTypeOK' /\ ForksExclusive'
    BY <1>0, <1>c, <2>1, <2>3 DEF PhilTypeOK, ForksExclusive
  <2>5. \A u \in Phil \ {i} : state_condvar[u] = "EATING" => state_condvar'[u] = "EATING"
    BY <1>c, <2>1
  <2>6. ~At(i, "wait_back")' /\ pc'[i] # "waited"
    BY <1>c, <2>1, <2>3 DEF At
  <2>7. WaitInv'
    BY <1>c, <2>1, <2>2, <2>3, <2>5, <2>6, WaitKept
  <2> QED BY <2>1, <2>4, <2>7 DEF PhilInv
<1>1. CASE Take(i)
  <2>1. /\ pc' = [pc EXCEPT ![i] = "hungry"] /\ "hungry" \in Labels
        /\ state_condvar' = state_condvar /\ enter(i) /\ iter' \in [Phil -> 0 .. TIMES]
    BY <1>0, <1>1, PhilAssumption DEF Take, PhilGoto, Labels, Wants, PhilTypeOK
  <2>2. MonOp(i) /\ PhilOp(i, {})
    BY <2>1 DEF MonOp, PhilOp
  <2>3. ~At(i, "wait_back")'
    BY <1>a, <1>0, <2>1 DEF enter, Goto, At
  <2> QED BY <1>b, <2>1, <2>2, <2>3
<1>2. CASE Hungry(i)
  <2> DEFINE st == [state_condvar EXCEPT ![i] = "HUNGRY"]
  <2>1. /\ pc' = [pc EXCEPT ![i] = "while"] /\ iter' = iter /\ At(i, "in")
        /\ phi_test_condvar(i, i, st)
    BY <1>2 DEF Hungry, PhilGoto, Ready
  <2>2. /\ st \in [Phil -> {"THINKING", "HUNGRY", "EATING"}]
        /\ \A u \in Phil : st[u] = "EATING" => st[RIGHT(u)] # "EATING"
        /\ \A u \in Phil \ {i} : st[u] = state_condvar[u]
    BY <1>0, <1>a, Neighbours DEF ForksExclusive
  <2> HIDE DEF st
  <2> QED BY <1>c, <2>1, <2>2
<1>3. CASE While(i)
  <2>1. CASE state_condvar[i] # "EATING"
    <3>1. /\ pc' = [pc EXCEPT ![i] = "waited"] /\ "waited" \in Labels
          /\ state_condvar' = state_condvar /\ cond_wait(i, i) /\ iter' = iter
      BY <1>3, <2>1 DEF While, PhilGoto, Labels
    <3>2. MonOp(i) /\ PhilOp(i, {}) /\ iter' \in [Phil -> 0 .. TIMES]
      BY <1>0, <3>1 DEF MonOp, PhilOp, PhilTypeOK
    <3>3. mpc'[i] = "wait_down"
      BY <1>a, <1>0, <3>1 DEF cond_wait, Goto
    <3>4. ~At(i, "wait_back")' /\ ~At(i, "in")'
      BY <3>3 DEF At
    <3> QED BY <1>b, <3>1, <3>2, <3>3, <3>4
  <2>2. CASE state_condvar[i] = "EATING"
    <3>1. /\ pc' = [pc EXCEPT ![i] = "eat"] /\ "eat" \in Labels
          /\ state_condvar' = state_condvar /\ leave(i) /\ iter' = iter
      BY <1>3, <2>2 DEF While, PhilGoto, Labels
    <3>2. MonOp(i) /\ PhilOp(i, {}) /\ iter' \in [Phil -> 0 .. TIMES]
      BY <1>0, <3>1 DEF MonOp, PhilOp, PhilTypeOK
    <3>3. mpc'[i] = "out"
      BY <1>a, <1>0, <3>1 DEF leave, Goto
    <3> QED BY <1>b, <2>2, <3>1, <3>2, <3>3
  <2> QED BY <2>1, <2>2
<1>4. CASE Waited(i)
  <2>1. /\ pc' = [pc EXCEPT ![i] = "while"] /\ "while" \in Labels
        /\ state_condvar' = state_condvar /\ iter' = iter /\ UNCHANGED monvars
        /\ mpc[i] = "in" /\ ~blocked[i]
    BY <1>4 DEF Waited, PhilGoto, Labels, Ready, At, monvars
  <2>2. PhilOp(i, {}) /\ {} \in SUBSET Phil
    BY <2>1 DEF PhilOp
  <2>3. MonInv' /\ CountersExact'
    BY <1>0, <2>1 DEF monvars, MonInv, MonTypeOK, QueueExact, Queued, Downs, OneHand, Active,
                      CountersExact
  <2>4. PhilTypeOK' /\ ForksExclusive'
    BY <1>0, <1>a, <2>1 DEF PhilTypeOK, ForksExclusive
  <2>5. /\ pc'[i] = "while" /\ \A u \in Phil \ {i} : pc'[u] = pc[u]
        /\ mpc'[i] = "in" /\ ~blocked'[i] /\ ~At(i, "wait_back")'
    BY <1>a, <2>1 DEF monvars, At
  <2>6. WaitInv'
    BY <2>1, <2>2, <2>5, WaitKept
  <2> QED BY <2>3, <2>4, <2>6 DEF PhilInv
<1>5. CASE Put(i)
  <2>1. /\ pc' = [pc EXCEPT ![i] = "left"] /\ "left" \in Labels
        /\ state_condvar' = state_condvar /\ enter(i) /\ iter' = iter
    BY <1>5 DEF Put, PhilGoto, Labels
  <2>2. MonOp(i) /\ PhilOp(i, {}) /\ iter' \in [Phil -> 0 .. TIMES]
    BY <1>0, <2>1 DEF MonOp, PhilOp, PhilTypeOK
  <2>3. ~At(i, "wait_back")'
    BY <1>a, <1>0, <2>1 DEF enter, Goto, At
  <2> QED BY <1>b, <2>1, <2>2, <2>3
<1>6. CASE TestLeft(i)
  <2> DEFINE st == [state_condvar EXCEPT ![i] = "THINKING"]
  <2>1. /\ pc' = [pc EXCEPT ![i] = "right"] /\ iter' = iter /\ At(i, "in")
        /\ phi_test_condvar(i, LEFT(i), st) /\ LEFT(i) \in Phil
    BY <1>6, Neighbours DEF TestLeft, PhilGoto, Ready
  <2>2. /\ st \in [Phil -> {"THINKING", "HUNGRY", "EATING"}]
        /\ \A u \in Phil : st[u] = "EATING" => st[RIGHT(u)] # "EATING"
        /\ \A u \in Phil \ {i} : st[u] = state_condvar[u]
    BY <1>0, <1>a, Neighbours DEF ForksExclusive
  <2> HIDE DEF st
  <2> QED BY <1>c, <2>1, <2>2
<1>7. CASE TestRight(i)
  <2>1. /\ pc' = [pc EXCEPT ![i] = "exit"] /\ iter' = iter /\ At(i, "in")
        /\ phi_test_condvar(i, RIGHT(i), state_condvar) /\ RIGHT(i) \in Phil
    BY <1>7, Neighbours DEF TestRight, PhilGoto, Ready
  <2>2. \A u \in Phil : state_condvar[u] = "EATING" => state_condvar[RIGHT(u)] # "EATING"
    BY <1>0 DEF ForksExclusive
  <2> QED BY <1>a, <1>c, <2>1, <2>2
<1>8. CASE Exit(i)
  <2>1. /\ pc' = [pc EXCEPT ![i] = "think"] /\ "think" \in Labels
        /\ state_condvar' = state_condvar /\ leave(i) /\ iter' = iter
    BY <1>8 DEF Exit, PhilGoto, Labels
  <2>2. MonOp(i) /\ PhilOp(i, {}) /\ iter' \in [Phil -> 0 .. TIMES]
    BY <1>0, <2>1 DEF MonOp, PhilOp, PhilTypeOK
  <2>3. mpc'[i] = "out" /\ ~At(i, "wait_back")'
    BY <1>a, <1>0, <2>1 DEF leave, Goto, At
  <2> QED BY <1>b, <2>1, <2>2, <2>3
<1>9. CASE InMonitorCode(i)
  <2>1. /\ MonStep(i) /\ state_condvar' = state_condvar /\ pc' = pc /\ iter' = iter
        /\ MonOp(i) /\ PhilOp(i, {}) /\ pc[i] \in Labels /\ pc' = [pc EXCEPT ![i] = pc[i]]
        /\ iter' \in [Phil -> 0 .. TIMES] /\ (pc[i] = "eat" => state_condvar[i] = "EATING")
    BY <1>0, <1>9, <1>a DEF InMonitorCode, MonOp, PhilOp, PhilTypeOK, ForksExclusive
  <2>2. CASE signal_down(i)
    <3>1. mpc[i] = "sig_down" /\ mpc'[i] = "sig_back"
      BY <1>a, <1>0, <2>2 DEF signal_down, At, Goto
    <3>2. pc[i] # "waited" /\ ~At(i, "wait_back")'
      BY <1>0, <3>1 DEF WaitInv, At
    <3> QED BY <1>b, <2>1, <3>1, <3>2
  <2>3. CASE signal_back(i)
    <3>1. mpc[i] = "sig_back" /\ mpc'[i] = "in" /\ ~blocked'[i]
      BY <1>a, <1>0, <2>3 DEF signal_back, At, Goto
    <3>2. pc[i] # "waited" /\ ~At(i, "wait_back")'
      BY <1>0, <3>1 DEF WaitInv, At
    <3> QED BY <1>b, <2>1, <3>1, <3>2
  <2>4. CASE wait_down(i)
    <3>1. /\ ~blocked[i] /\ mpc[i] \in Outside /\ "wait_back" \in Owning
          /\ cv[i] = i /\ Downs(i, cvsem(i), "wait_back") /\ cvsem(i) \in Sem
          /\ S!down(i, cvsem(i)) /\ Goto(i, "wait_back") /\ cv' = cv
      BY <1>0, <2>4, SemsDiffer DEF wait_down, At, Outside, Owning, Downs, WaitInv
    <3>2. ~blocked'[i] => value[cvsem(i)] > 0
      BY <1>0, <3>1, DownStep
    <3>3. At(i, "wait_back")' => state_condvar[i] = "EATING"
      BY <1>0, <3>2 DEF WaitInv, At
    <3>4. mpc'[i] = "wait_back" /\ ~At(i, "in")'
      BY <1>a, <1>0, <3>1 DEF Goto, At
    <3> QED BY <1>b, <2>1, <3>3, <3>4
  <2>5. CASE wait_back(i)
    <3>1. At(i, "wait_back") /\ mpc'[i] = "in" /\ ~blocked'[i]
      BY <1>a, <1>0, <2>5 DEF wait_back, At, Goto
    <3>2. state_condvar[i] = "EATING"
      BY <1>0, <3>1 DEF WaitInv
    <3> QED BY <1>b, <2>1, <3>1, <3>2
  <2> QED BY <2>1, <2>2, <2>3, <2>4, <2>5 DEF MonStep
<1> QED BY <1>1, <1>2, <1>3, <1>4, <1>5, <1>6, <1>7, <1>8, <1>9 DEF Step

(***************************************************************************)
(* PhilInv is an invariant of every behaviour.                             *)
(***************************************************************************)
LEMMA PhilInvariance == Spec => []PhilInv
<1>1. PhilInv /\ [Next]_vars => PhilInv'
  <2> SUFFICES ASSUME PhilInv, [Next]_vars PROVE PhilInv'
      OBVIOUS
  <2>1. CASE Next
    BY <2>1, PhilStep DEF Next
  <2>2. CASE UNCHANGED vars
    <3>1. /\ UNCHANGED <<value, wait_queue, blocked, next_count, count, mpc, cv>>
          /\ UNCHANGED <<state_condvar, pc, iter>>
      BY <2>2 DEF vars
    <3>2. MonInv' /\ CountersExact'
      BY <3>1 DEF PhilInv, MonInv, MonTypeOK, QueueExact, Queued, Downs, OneHand, Active,
                  CountersExact
    <3>3. PhilTypeOK' /\ ForksExclusive' /\ WaitInv'
      BY <3>1 DEF PhilInv, PhilTypeOK, ForksExclusive, WaitInv, ConditionHoldsOnReturn, At
    <3> QED BY <3>2, <3>3 DEF PhilInv
  <2> QED BY <2>1, <2>2
<1> QED BY <1>1, PhilInit, PTL DEF Spec

(***************************************************************************)
(* The monitor is always in one pair of hands: up(next) and up(cv.sem)     *)
(* hand it over, and the signaller's window between up(cv.sem) and         *)
(* down(next) lets nobody else in.                                         *)
(***************************************************************************)
THEOREM MonitorOneInMonitor == Spec => []OneInMonitor
<1>1. PhilInv => OneInMonitor
  BY OneHandCounts DEF PhilInv
<1> QED BY <1>1, PhilInvariance, PTL

(***************************************************************************)
(* next_count and cv.count are exact whenever the monitor's code branches  *)
(* on them.                                                                *)
(***************************************************************************)
THEOREM MonitorCountersExact == Spec => []CountersExact
<1>1. PhilInv => CountersExact
  BY DEF PhilInv
<1> QED BY <1>1, PhilInvariance, PTL

(***************************************************************************)
(* Neighbours never eat together, whatever the number of philosophers.     *)
(***************************************************************************)
THEOREM PhilForksExclusive == Spec => []ForksExclusive
<1>1. PhilInv => ForksExclusive
  BY DEF PhilInv
<1> QED BY <1>1, PhilInvariance, PTL

(***************************************************************************)
(* A philosopher that returns from cond_wait is marked EATING: the while   *)
(* around the call is never taken a second time.                           *)
(***************************************************************************)
THEOREM PhilConditionHoldsOnReturn == Spec => []ConditionHoldsOnReturn
<1>1. PhilInv => ConditionHoldsOnReturn
  BY DEF PhilInv, WaitInv
<1> QED BY <1>1, PhilInvariance, PTL
=============================================================================
