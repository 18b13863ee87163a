-------------------------- MODULE ProcTableProofs --------------------------
(***************************************************************************)
(* get_pid returns a fresh pid, and the family links are exact, for every  *)
(* MAX_PROCESS and MAX_PID.                                                *)
(*                                                                         *)
(* PidFresh is not inductive: the early return of get_pid relies on what   *)
(* an earlier call left behind.  PidInv says what that is, in each phase:  *)
(* no process has a pid strictly between last_pid and next_safe (between   *)
(* calls); the processes the walk has passed have none from last_pid up to *)
(* next_safe (in the walk); nobody has (at the return).                    *)
(***************************************************************************)
EXTENDS ProcTable, Induction, SequenceTheorems, FiniteSetTheorems

PidTypes ==
    /\ proc_list \in Seq(1..MAX_PID - 1)
    /\ last_pid \in 1..MAX_PID
    /\ next_safe \in 1..MAX_PID
    /\ le \in Nat \ {0}
    /\ pc \in {"out", "scan", "ret", "reparent"}

\* The interval that later calls trust.
BetweenCalls ==
    pc \in {"out", "reparent"} =>
        \A i \in DOMAIN proc_list : proc_list[i] <= last_pid \/ proc_list[i] >= next_safe

\* What the walk has established for the processes it has passed.
InWalk ==
    pc = "scan" =>
        /\ last_pid < next_safe
        /\ \A i \in DOMAIN proc_list :
              i < le => proc_list[i] < last_pid \/ proc_list[i] >= next_safe

AtReturn ==
    pc = "ret" =>
        /\ last_pid < next_safe
        /\ \A i \in DOMAIN proc_list : proc_list[i] < last_pid \/ proc_list[i] >= next_safe

PidInv == PidTypes /\ BetweenCalls /\ InWalk /\ AtReturn

\* The pids in the list are integers the provers can compare.
LEMMA ListOfPids ==
    ASSUME PidTypes
    PROVE  /\ Len(proc_list) \in Nat
           /\ DOMAIN proc_list = 1..Len(proc_list)
           /\ \A i \in 1..Len(proc_list) : proc_list[i] \in 1..MAX_PID - 1
<1>1. \A i \in 1..Len(proc_list) : proc_list[i] \in 1..MAX_PID - 1
  BY ElementOfSeq DEF PidTypes
<1> QED BY <1>1 DEF PidTypes

\* The first call of get_pid finds an empty list and both statics at MAX_PID.
LEMMA PidInvInit == Init => PidInv
BY PidAssumption DEF Init, PidInv, PidTypes, BetweenCalls, InWalk, AtReturn

\* Starting the walk: nothing is passed yet and any pid below MAX_PID will do.
LEMMA RepeatKeeps ==
    ASSUME PidInv, NEW pid \in 1..MAX_PID - 1, Repeat(pid), UNCHANGED proc_list
    PROVE  PidInv'
BY PidAssumption DEF PidInv, PidTypes, BetweenCalls, InWalk, AtReturn, Repeat

LEMMA GetPidKeeps ==
    ASSUME PidInv, pc = "out", GetPid, UNCHANGED proc_list
    PROVE  PidInv'
<1>1. CASE last_pid + 1 >= MAX_PID /\ Repeat(1)
  BY <1>1, RepeatKeeps, PidAssumption
<1>2. CASE /\ last_pid + 1 < MAX_PID
           /\ last_pid + 1 >= next_safe
           /\ Repeat(last_pid + 1)
  <2>1. last_pid + 1 \in 1..MAX_PID - 1
    BY <1>2, PidAssumption DEF PidInv, PidTypes
  <2> QED BY <1>2, <2>1, RepeatKeeps
<1>3. CASE /\ last_pid + 1 < MAX_PID
           /\ last_pid + 1 < next_safe
           /\ last_pid' = last_pid + 1
           /\ pc' = "ret"
           /\ UNCHANGED <<next_safe, le>>
  BY <1>3, PidAssumption DEF PidInv, PidTypes, BetweenCalls, InWalk, AtReturn
<1> QED BY <1>1, <1>2, <1>3 DEF GetPid

LEMMA ScanKeeps == PidInv /\ Scan => PidInv'
<1> SUFFICES ASSUME PidInv, Scan PROVE PidInv'
  OBVIOUS
<1>0. pc = "scan" /\ UNCHANGED proc_list
  BY DEF Scan
<1>1. CASE le <= Len(proc_list) /\ Collision
  <2>0. le \in DOMAIN proc_list
    BY <1>1 DEF PidInv, PidTypes
  <2>1. CASE /\ last_pid + 1 >= next_safe
             /\ Repeat(IF last_pid + 1 >= MAX_PID THEN 1 ELSE last_pid + 1)
    <3>1. (IF last_pid + 1 >= MAX_PID THEN 1 ELSE last_pid + 1) \in 1..MAX_PID - 1
      BY PidAssumption DEF PidInv, PidTypes
    <3> QED BY <1>0, <2>1, <3>1, RepeatKeeps
  <2>2. CASE /\ last_pid + 1 < next_safe
             /\ last_pid' = last_pid + 1
             /\ le' = le + 1
             /\ UNCHANGED <<next_safe, pc>>
    <3>1. PidTypes'
      BY <1>0, <2>2, PidAssumption DEF PidInv, PidTypes
    <3>2. InWalk'
      <4> SUFFICES ASSUME NEW i \in DOMAIN proc_list, i < le + 1
                   PROVE  proc_list[i] < last_pid + 1 \/ proc_list[i] >= next_safe
        BY <1>0, <2>2 DEF InWalk
      <4>1. /\ i \in Nat /\ le \in Nat /\ last_pid \in Nat /\ next_safe \in Nat
            /\ proc_list[i] \in Nat
        BY ListOfPids, PidAssumption DEF PidInv, PidTypes
      <4>2. CASE i = le
        BY <1>1, <4>1, <4>2 DEF Collision
      <4>3. CASE i < le
        BY <1>0, <4>1, <4>3 DEF PidInv, InWalk
      <4> QED BY <4>1, <4>2, <4>3
    <3> QED BY <1>0, <2>2, <3>1, <3>2 DEF PidInv, BetweenCalls, AtReturn
  <2> QED BY <1>1, <2>1, <2>2 DEF Collision
<1>2. CASE le <= Len(proc_list) /\ Narrow
  <2>0. le \in DOMAIN proc_list /\ proc_list[le] \in 1..MAX_PID - 1
    BY <1>2, ListOfPids DEF PidInv, PidTypes
  <2>1. PidTypes'
    BY <1>0, <1>2, <2>0, PidAssumption DEF PidInv, PidTypes, Narrow
  <2>2. InWalk'
    <3>1. last_pid \in Nat /\ next_safe \in Nat /\ le \in Nat /\ proc_list[le] \in Nat
      BY <2>0, PidAssumption DEF PidInv, PidTypes
    <3>2. /\ last_pid < next_safe'
          /\ next_safe' \in Nat /\ next_safe' <= next_safe
          /\ proc_list[le] < last_pid \/ proc_list[le] >= next_safe'
      BY <1>0, <1>2, <3>1 DEF PidInv, InWalk, Narrow
    <3> SUFFICES ASSUME NEW i \in DOMAIN proc_list, i < le + 1
                 PROVE  proc_list[i] < last_pid \/ proc_list[i] >= next_safe'
      BY <1>0, <1>2, <3>2 DEF InWalk, Narrow
    <3>3. i \in Nat /\ proc_list[i] \in Nat
      BY ListOfPids DEF PidInv
    <3>4. CASE i = le
      BY <3>2, <3>4
    <3>5. CASE i < le
      BY <1>0, <3>1, <3>2, <3>3, <3>5 DEF PidInv, InWalk
    <3> QED BY <3>1, <3>3, <3>4, <3>5
  <2> QED BY <1>0, <1>2, <2>1, <2>2 DEF PidInv, BetweenCalls, AtReturn, Narrow
<1>3. CASE /\ le > Len(proc_list)
           /\ pc' = "ret"
           /\ UNCHANGED <<last_pid, next_safe, le>>
  <2>1. PidTypes' /\ AtReturn'
    BY <1>0, <1>3 DEF PidInv, PidTypes, InWalk, AtReturn
  <2> QED BY <1>3, <2>1 DEF PidInv, BetweenCalls, InWalk
<1> QED BY <1>1, <1>2, <1>3 DEF Scan

\* The new process takes last_pid, the lower end of the interval.
LEMMA SetLinksKeeps == PidInv /\ SetLinks => PidInv'
<1> SUFFICES ASSUME PidInv, SetLinks PROVE PidInv'
  OBVIOUS
<1>1. /\ pc = "ret" /\ pc' = "out" /\ le' = 1
      /\ proc_list' = <<last_pid>> \o proc_list
      /\ UNCHANGED <<last_pid, next_safe>>
  BY DEF SetLinks
<1>2. last_pid \in 1..MAX_PID - 1
  BY <1>1, PidAssumption DEF PidInv, PidTypes, AtReturn
<1>3. PidTypes'
  BY <1>1, <1>2 DEF PidInv, PidTypes
<1>4. BetweenCalls'
  <2> SUFFICES ASSUME NEW i \in DOMAIN proc_list'
               PROVE  proc_list'[i] <= last_pid' \/ proc_list'[i] >= next_safe'
    BY DEF BetweenCalls
  <2>1. CASE i = 1
    BY <1>1, <1>2, <2>1 DEF PidInv, PidTypes
  <2>2. CASE i # 1
    <3>1. i - 1 \in DOMAIN proc_list /\ proc_list'[i] = proc_list[i - 1]
      BY <1>1, <1>2, <2>2 DEF PidInv, PidTypes
    <3>2. proc_list[i - 1] \in Nat /\ last_pid \in Nat
      BY <3>1, ListOfPids DEF PidInv, PidTypes
    <3> QED BY <1>1, <3>1, <3>2 DEF PidInv, AtReturn
  <2> QED BY <2>1, <2>2
<1> QED BY <1>1, <1>3, <1>4 DEF PidInv, InWalk, AtReturn

\* Taking a process out of the list frees a pid and takes none.
LEMMA DoWaitKeeps ==
    ASSUME PidInv, NEW p \in Pid, NEW z \in Pid, DoWait(p, z)
    PROVE  PidInv'
<1>1. /\ pc = "out" /\ pc' = "out" /\ le' = 1
      /\ UNCHANGED <<last_pid, next_safe>>
  BY DEF DoWait
<1>2. PICK k \in DOMAIN proc_list :
         proc_list' = SubSeq(proc_list, 1, k - 1)
                        \o SubSeq(proc_list, k + 1, Len(proc_list))
  BY DEF DoWait, RemoveLinks
<1> DEFINE s == SubSeq(proc_list, 1, k - 1)
           t == SubSeq(proc_list, k + 1, Len(proc_list))
<1>0. /\ k \in 1..Len(proc_list) /\ Len(proc_list) \in Nat
      /\ \A i \in 1..Len(proc_list) : proc_list[i] \in 1..MAX_PID - 1
  BY ListOfPids DEF PidInv
<1>3. /\ s \in Seq(1..MAX_PID - 1) /\ Len(s) = k - 1
      /\ \A i \in 1..k - 1 : s[i] = proc_list[i]
  BY <1>0, SubSeqProperties
<1>4. /\ t \in Seq(1..MAX_PID - 1) /\ Len(t) = Len(proc_list) - k
      /\ \A i \in 1..Len(proc_list) - k : t[i] = proc_list[i + k]
  BY <1>0, SubSeqProperties
<1>5. /\ proc_list' \in Seq(1..MAX_PID - 1)
      /\ \A i \in DOMAIN proc_list' : \E j \in DOMAIN proc_list : proc_list'[i] = proc_list[j]
  <2> HIDE DEF s, t
  <2>1. proc_list' = s \o t
    BY <1>2 DEF s, t
  <2>2. proc_list' \in Seq(1..MAX_PID - 1)
    BY <2>1, <1>3, <1>4
  <2>3. ASSUME NEW i \in DOMAIN proc_list'
        PROVE  \E j \in DOMAIN proc_list : proc_list'[i] = proc_list[j]
    <3>1. CASE i <= k - 1
      <4>1. i \in 1..k - 1 /\ proc_list'[i] = s[i]
        BY <1>3, <1>4, <2>1, <2>2, <3>1 DEF PidInv, PidTypes
      <4> QED BY <1>3, <4>1 DEF PidInv, PidTypes
    <3>2. CASE i > k - 1
      <4>0. /\ i \in Len(s) + 1..Len(s) + Len(t) /\ (s \o t)[i] = t[i - Len(s)]
        BY <1>3, <1>4, <2>1, <3>2
      <4>1. i - (k - 1) \in 1..Len(proc_list) - k /\ proc_list'[i] = t[i - (k - 1)]
        <5>1. proc_list'[i] = t[i - (k - 1)]
          BY <1>3, <2>1, <4>0, Zenon
        <5>2. i \in Int /\ i <= (k - 1) + (Len(proc_list) - k)
          BY <1>0, <1>3, <1>4, <4>0
        <5> QED BY <1>0, <3>2, <5>1, <5>2
      <4>2. proc_list'[i] = proc_list[(i - (k - 1)) + k]
        BY <1>4, <4>1
      <4>3. (i - (k - 1)) + k \in DOMAIN proc_list
        BY <4>1 DEF PidInv, PidTypes
      <4> QED BY <4>2, <4>3
    <3> QED BY <3>1, <3>2 DEF PidInv, PidTypes
  <2> QED BY <2>2, <2>3
<1>6. BetweenCalls'
  BY <1>1, <1>5 DEF PidInv, BetweenCalls
<1> QED BY <1>1, <1>5, <1>6 DEF PidInv, PidTypes, InWalk, AtReturn

LEMMA PidInvStep == PidInv /\ [Next]_vars => PidInv'
<1> SUFFICES ASSUME PidInv, [Next]_vars PROVE PidInv'
  OBVIOUS
<1>1. ASSUME NEW p \in Pid, DoFork(p) PROVE PidInv'
  BY <1>1, GetPidKeeps DEF DoFork
<1>2. ASSUME NEW p \in Pid, DoExit(p) PROVE PidInv'
  BY <1>2 DEF DoExit, pidVars, PidInv, PidTypes, BetweenCalls, InWalk, AtReturn
<1>3. ASSUME NEW p \in Pid, NEW z \in Pid, DoWait(p, z) PROVE PidInv'
  BY <1>3, DoWaitKeeps
<1>4. CASE Reparent
  BY <1>4 DEF Reparent, pidVars, PidInv, PidTypes, BetweenCalls, InWalk, AtReturn
<1>5. CASE ReparentDone
  BY <1>5 DEF ReparentDone, pidVars, PidInv, PidTypes, BetweenCalls, InWalk, AtReturn
<1>6. CASE UNCHANGED vars
  BY <1>6 DEF vars, pidVars, PidInv, PidTypes, BetweenCalls, InWalk, AtReturn
<1> QED BY <1>1, <1>2, <1>3, <1>4, <1>5, <1>6, ScanKeeps, SetLinksKeeps DEF Next

\* What the invariant says where get_pid returns.
LEMMA PidInvFresh == PidInv => PidFresh
BY PidAssumption DEF PidInv, PidTypes, AtReturn, PidFresh, Procs

\* get_pid never returns the pid of a process that exists, whatever forks,
\* exits and waits came before and however the pids have wrapped around.
THEOREM PidIsFresh == Spec => []PidFresh
BY PidInvInit, PidInvStep, PidInvFresh, PTL DEF Spec
-----------------------------------------------------------------------------
(***************************************************************************)
(* The family links.  Links is what they are locally, for the processes P  *)
(* as children and F as parents: each link has its counterpart.  That much *)
(* would allow a ring of siblings beside the list that cptr starts; a rank *)
(* that falls along optr excludes it.                                      *)
(***************************************************************************)
Ref == Pid \cup {NULL}
Refs == [Pid -> Ref]

Links(F, P, par, cp, op, yp, rank) ==
    /\ \A c \in P :
          /\ par[c] \in F
          /\ \/ yp[c] = NULL /\ cp[par[c]] = c
             \/ yp[c] \in P /\ par[yp[c]] = par[c] /\ op[yp[c]] = c
          /\ \/ op[c] = NULL
             \/ /\ op[c] \in P /\ par[op[c]] = par[c] /\ yp[op[c]] = c
                /\ rank[op[c]] < rank[c]
    /\ \A p \in F : cp[p] = NULL \/ (cp[p] \in P /\ par[cp[p]] = p /\ yp[cp[p]] = NULL)

\* A set with p's youngest child and, with a process, its older sibling.
Closed(S, p, P, cp, op) ==
    /\ cp[p] # NULL => cp[p] \in S
    /\ \A s \in S \cap P : op[s] # NULL => op[s] \in S

\* Every child of p is reached: such a set has them all.  Else there would be one missing of
\* the highest rank, and its younger sibling, of a higher rank still, is there.
LEMMA Reached ==
    ASSUME NEW F \in SUBSET Pid, NEW P \in SUBSET Pid, NEW par \in Refs, NEW cp \in Refs,
           NEW op \in Refs, NEW yp \in Refs, NEW M \in Nat, NEW rank \in [Pid -> 0..M],
           Links(F, P, par, cp, op, yp, rank), NEW p \in F, NEW S,
           Closed(S, p, P, cp, op)
    PROVE  \A c \in P : par[c] = p => c \in S
<1> DEFINE Missing == {c \in P : par[c] = p /\ c \notin S}
           Below == {M - rank[c] : c \in Missing}
<1> SUFFICES ASSUME Missing # {} PROVE FALSE
  OBVIOUS
<1>1. Below \subseteq Nat /\ Below # {}
  OBVIOUS
<1>2. PICK m \in Below : \A n \in Below : m <= n
  <2> HIDE DEF Below
  <2> QED BY <1>1, LeastNat
<1>3. PICK c \in Missing : m = M - rank[c]
  OBVIOUS
<1>4. c \in P /\ par[c] = p /\ c \notin S /\ rank[c] \in 0..M
  OBVIOUS
<1>5. NULL \notin Pid
  BY PidAssumption DEF Pid, NULL
<1>6. PICK y \in Pid : y \in P /\ par[y] = p /\ op[y] = c
  <2> HIDE DEF Missing, Below
  <2>1. ~ (yp[c] = NULL /\ cp[par[c]] = c)
    BY <1>4, <1>5 DEF Closed
  <2>2. yp[c] \in P /\ par[yp[c]] = par[c] /\ op[yp[c]] = c
    BY <1>4, <2>1 DEF Links
  <2> QED BY <1>4, <2>2
<1>7. rank[c] < rank[y] /\ rank[y] \in 0..M
  BY <1>4, <1>5, <1>6 DEF Links
<1>8. y \in S
  <2>1. y \notin Missing
    <3> SUFFICES ASSUME y \in Missing PROVE FALSE
      OBVIOUS
    <3>1. M - rank[y] \in Below
      OBVIOUS
    <3> HIDE DEF Below
    <3>2. m <= M - rank[y]
      BY <1>2, <3>1
    <3> QED BY <1>3, <1>4, <1>7, <3>2
  <2> QED BY <1>6, <2>1
<1> QED BY <1>4, <1>5, <1>6, <1>8 DEF Closed

\* remove_links, and the first half of a round of do_exit's loop: z is taken
\* out of its parent's list.
LEMMA Unlinked ==
    ASSUME NEW F \in SUBSET Pid, NEW P \in SUBSET Pid, NEW par \in Refs, NEW cp \in Refs,
           NEW op \in Refs, NEW yp \in Refs, NEW rank \in [Pid -> Nat],
           Links(F, P, par, cp, op, yp, rank), NEW z \in P,
           NEW par2, NEW cp2, NEW op2, NEW yp2,
           \A q \in P \ {z} : par2[q] = par[q],
           \A q \in P \ {z} : op2[q] = IF q = yp[z] THEN op[z] ELSE op[q],
           \A q \in P \ {z} : yp2[q] = IF q = op[z] THEN yp[z] ELSE yp[q],
           \A q \in F : cp2[q] = IF yp[z] = NULL /\ q = par[z] THEN op[z] ELSE cp[q]
    PROVE  Links(F, P \ {z}, par2, cp2, op2, yp2, rank)
<1>0. NULL \notin Pid
  BY PidAssumption DEF Pid, NULL
<1>1. ASSUME NEW c \in P \ {z}
      PROVE  /\ par2[c] \in F
             /\ \/ yp2[c] = NULL /\ cp2[par2[c]] = c
                \/ yp2[c] \in P \ {z} /\ par2[yp2[c]] = par2[c] /\ op2[yp2[c]] = c
  BY <1>0 DEF Links
<1>2. ASSUME NEW c \in P \ {z}
      PROVE  \/ op2[c] = NULL
             \/ /\ op2[c] \in P \ {z} /\ par2[op2[c]] = par2[c] /\ yp2[op2[c]] = c
                /\ rank[op2[c]] < rank[c]
  BY <1>0 DEF Links
<1>3. ASSUME NEW p \in F
      PROVE  \/ cp2[p] = NULL
             \/ cp2[p] \in P \ {z} /\ par2[cp2[p]] = p /\ yp2[cp2[p]] = NULL
  BY <1>0 DEF Links
<1> QED BY <1>1, <1>2, <1>3 DEF Links

\* set_links, and the other half of that round: c becomes the youngest child of
\* p and gets the highest rank.  G may have parents F has not, without children.
LEMMA Linked ==
    ASSUME NEW F \in SUBSET Pid, NEW P \in SUBSET Pid, NEW par, NEW cp,
           NEW op, NEW yp, NEW rank,
           Links(F, P, par, cp, op, yp, rank), NEW c \in Pid \ P, NEW p \in F,
           NEW G \in SUBSET Pid, F \subseteq G,
           NEW par2, NEW cp2, NEW op2, NEW yp2, NEW rank2,
           par2[c] = p, op2[c] = cp[p], yp2[c] = NULL, cp2[p] = c,
           \A q \in P : par2[q] = par[q] /\ op2[q] = op[q] /\ rank2[q] = rank[q],
           \A q \in P : yp2[q] = IF q = cp[p] THEN c ELSE yp[q],
           \A q \in P : rank2[q] < rank2[c],
           \A q \in F \ {p} : cp2[q] = cp[q],
           \A q \in G \ F : cp2[q] = NULL
    PROVE  Links(G, P \cup {c}, par2, cp2, op2, yp2, rank2)
<1>0. NULL \notin Pid
  BY PidAssumption DEF Pid, NULL
<1>1. ASSUME NEW q \in P
      PROVE  /\ par2[q] \in G
             /\ \/ yp2[q] = NULL /\ cp2[par2[q]] = q
                \/ yp2[q] \in P \cup {c} /\ par2[yp2[q]] = par2[q] /\ op2[yp2[q]] = q
  BY <1>0 DEF Links
<1>2. ASSUME NEW q \in P
      PROVE  \/ op2[q] = NULL
             \/ /\ op2[q] \in P \cup {c} /\ par2[op2[q]] = par2[q] /\ yp2[op2[q]] = q
                /\ rank2[op2[q]] < rank2[q]
  BY <1>0 DEF Links
<1>3. /\ par2[c] \in G
      /\ yp2[c] = NULL /\ cp2[par2[c]] = c
      /\ \/ op2[c] = NULL
         \/ /\ op2[c] \in P \cup {c} /\ par2[op2[c]] = par2[c] /\ yp2[op2[c]] = c
            /\ rank2[op2[c]] < rank2[c]
  BY <1>0 DEF Links
<1>4. ASSUME NEW q \in G
      PROVE  \/ cp2[q] = NULL
             \/ cp2[q] \in P \cup {c} /\ par2[cp2[q]] = q /\ yp2[cp2[q]] = NULL
  BY <1>0, <1>3 DEF Links
<1> QED BY <1>1, <1>2, <1>3, <1>4 DEF Links

\* What do_wait(0) does from p: w[0], w[1], ... are cptr and then optr after optr.
Walks(w, p, cp, op) ==
    /\ w \in [0..MAX_PID -> Ref]
    /\ w[0] = cp[p]
    /\ \A k \in 0..MAX_PID - 1 : w[k + 1] = IF w[k] = NULL THEN NULL ELSE op[w[k]]

\* Where the walk is after n rounds: at the end of the list, or at a child of p
\* whose yptr is where the walk was before.
Meets(w, n, p, P, par, yp) ==
    w[n] # NULL => /\ w[n] \in P /\ par[w[n]] = p
                   /\ n > 0 => w[n - 1] # NULL
                   /\ yp[w[n]] = IF n = 0 THEN NULL ELSE w[n - 1]

\* It meets children of p only, and yptr leads back.
LEMMA WalkMeets ==
    ASSUME NEW F \in SUBSET Pid, NEW P \in SUBSET Pid, NEW par, NEW cp, NEW op, NEW yp,
           NEW rank, Links(F, P, par, cp, op, yp, rank), NEW p \in F, NEW w, Walks(w, p, cp, op)
    PROVE  \A n \in 0..MAX_PID : Meets(w, n, p, P, par, yp)
<1> DEFINE T == {n \in 0..MAX_PID : Meets(w, n, p, P, par, yp)}
<1>0. MAX_PID \in Nat /\ NULL \notin Pid
  BY PidAssumption DEF Pid, NULL
<1>1. 0 \in T
  BY <1>0 DEF Walks, Links, Meets
<1>2. ASSUME NEW k \in 0..MAX_PID - 1, k \in T PROVE k + 1 \in T
  <2>1. k + 1 \in 0..MAX_PID /\ k + 1 > 0 /\ k + 1 # 0 /\ (k + 1) - 1 = k
    BY <1>0
  <2>2. w[k + 1] = IF w[k] = NULL THEN NULL ELSE op[w[k]]
    BY DEF Walks
  <2>3. w[k] # NULL => w[k] \in P /\ par[w[k]] = p
    BY <1>2 DEF Meets
  <2>4. w[k + 1] # NULL => /\ w[k] # NULL
                           /\ w[k + 1] \in P /\ par[w[k + 1]] = p /\ yp[w[k + 1]] = w[k]
    BY <2>2, <2>3 DEF Links
  <2> QED BY <2>1, <2>4 DEF Meets
<1> HIDE DEF T
<1>3. \A k \in 0..MAX_PID : k \in T
  BY <1>0, <1>1, <1>2, LoopInduction
<1> QED BY <1>3 DEF T

\* It never comes back, because the rank falls.
LEMMA WalkFalls ==
    ASSUME NEW F \in SUBSET Pid, NEW P \in SUBSET Pid, NEW par, NEW cp, NEW op, NEW yp,
           NEW rank \in [Pid -> Nat], Links(F, P, par, cp, op, yp, rank), NEW p \in F, NEW w,
           Walks(w, p, cp, op)
    PROVE  \A n \in 0..MAX_PID : \A m \in 0..n - 1 :
              w[n] # NULL => w[m] # NULL /\ rank[w[n]] < rank[w[m]]
<1> DEFINE Falls(n) == \A m \in 0..n - 1 :
                          w[n] # NULL => w[m] # NULL /\ rank[w[n]] < rank[w[m]]
           T == {n \in 0..MAX_PID : Falls(n)}
<1>0. MAX_PID \in Nat
  BY PidAssumption
<1>1. 0 \in T
  BY <1>0
<1>2. ASSUME NEW k \in 0..MAX_PID - 1, k \in T PROVE k + 1 \in T
  <2>1. k \in 0..MAX_PID /\ k + 1 \in 0..MAX_PID /\ k \in Nat
    BY <1>0
  <2>2. w[k + 1] = IF w[k] = NULL THEN NULL ELSE op[w[k]]
    BY DEF Walks
  <2>3. \A n \in 0..MAX_PID : w[n] # NULL => w[n] \in P
    BY WalkMeets DEF Meets
  <2>4. \A n \in 0..MAX_PID : w[n] # NULL => rank[w[n]] \in Nat
    BY <2>3
  <2>5. w[k + 1] # NULL => w[k] # NULL /\ rank[w[k + 1]] < rank[w[k]]
    BY <2>1, <2>2, <2>3 DEF Links
  <2> SUFFICES ASSUME NEW m \in 0..(k + 1) - 1, w[k + 1] # NULL
               PROVE  w[m] # NULL /\ rank[w[k + 1]] < rank[w[m]]
    BY <2>1
  <2>6. CASE m = k
    BY <2>5, <2>6
  <2>7. CASE m # k
    <3>1. m \in 0..k - 1 /\ m \in 0..MAX_PID
      BY <1>0, <2>1, <2>7
    <3>2. w[m] # NULL /\ rank[w[k]] < rank[w[m]]
      BY <1>2, <2>5, <3>1
    <3> QED BY <2>1, <2>4, <2>5, <3>1, <3>2
  <2> QED BY <2>6, <2>7
<1> HIDE DEF T
<1>3. \A k \in 0..MAX_PID : k \in T
  BY <1>0, <1>1, <1>2, LoopInduction
<1> QED BY <1>3 DEF T

\* It ends within MAX_PID rounds, which the bound of Sibling relies on.
LEMMA WalkEnds ==
    ASSUME NEW F \in SUBSET Pid, NEW P \in SUBSET Pid, NEW par, NEW cp, NEW op, NEW yp,
           NEW rank \in [Pid -> Nat], Links(F, P, par, cp, op, yp, rank), NEW p \in F, NEW w,
           Walks(w, p, cp, op)
    PROVE  w[MAX_PID] = NULL
<1> SUFFICES ASSUME w[MAX_PID] # NULL PROVE FALSE
  OBVIOUS
<1>0. MAX_PID \in Nat /\ MAX_PID > 0
  BY PidAssumption
<1>a. \A n \in 0..MAX_PID : \A m \in 0..n - 1 :
         w[n] # NULL => w[m] # NULL /\ rank[w[n]] < rank[w[m]]
  BY WalkFalls
<1>1. \A m \in 0..MAX_PID : w[m] # NULL
  BY <1>0, <1>a
<1>2. w \in [0..MAX_PID -> Pid]
  BY <1>1 DEF Walks, Ref
<1>3. /\ IsFiniteSet(0..MAX_PID) /\ Cardinality(0..MAX_PID) = MAX_PID + 1
      /\ IsFiniteSet(Pid) /\ Cardinality(Pid) = MAX_PID
  BY <1>0, FS_Interval DEF Pid
<1>4. Cardinality(Pid) < Cardinality(0..MAX_PID)
  BY <1>0, <1>3
<1>5. PICK m, n \in 0..MAX_PID : m # n /\ w[m] = w[n]
  <2> DEFINE D == 0..MAX_PID
  <2>1. IsFiniteSet(D) /\ IsFiniteSet(Pid) /\ Cardinality(Pid) < Cardinality(D) /\ w \in [D -> Pid]
    BY <1>2, <1>3, <1>4
  <2> HIDE DEF D
  <2>2. \E x, y \in D : x # y /\ w[x] = w[y]
    BY ONLY <2>1, FS_PigeonHole, Zenon
  <2> QED BY <2>2 DEF D
<1>6. rank[w[m]] \in Nat /\ rank[w[n]] \in Nat
  BY <1>2
<1>7. CASE m < n
  BY <1>0, <1>1, <1>5, <1>6, <1>7, <1>a
<1>8. CASE n < m
  BY <1>0, <1>1, <1>5, <1>6, <1>8, <1>a
<1> QED BY <1>0, <1>5, <1>7, <1>8

ExactWalk(w, p, P, par, yp) ==
    LET met == {n \in 0..MAX_PID : w[n] # NULL}
    IN  /\ {w[n] : n \in met} = {c \in P : par[c] = p}
        /\ \A m, n \in met : w[m] = w[n] => m = n
        /\ \A n \in met : yp[w[n]] = IF n = 0 THEN NULL ELSE w[n - 1]

\* So it meets each child exactly once.
LEMMA WalkExact ==
    ASSUME NEW F \in SUBSET Pid, NEW P \in SUBSET Pid, NEW par \in Refs, NEW cp \in Refs,
           NEW op \in Refs, NEW yp \in Refs, NEW M \in Nat, NEW rank \in [Pid -> 0..M],
           Links(F, P, par, cp, op, yp, rank), NEW p \in F, NEW w, Walks(w, p, cp, op)
    PROVE  ExactWalk(w, p, P, par, yp)
<1> DEFINE met == {n \in 0..MAX_PID : w[n] # NULL}
           S == {w[n] : n \in met}
<1>0. MAX_PID \in Nat /\ MAX_PID > 0 /\ rank \in [Pid -> Nat]
  BY PidAssumption
<1>1. \A n \in 0..MAX_PID : Meets(w, n, p, P, par, yp)
  BY WalkMeets
<1>2. S \subseteq {c \in P : par[c] = p}
  BY <1>1 DEF Meets
<1>3. \A n \in met : yp[w[n]] = IF n = 0 THEN NULL ELSE w[n - 1]
  BY <1>1 DEF Meets
<1>4. \A m, n \in met : w[m] = w[n] => m = n
  <2> SUFFICES ASSUME NEW m \in met, NEW n \in met, w[m] = w[n], m # n PROVE FALSE
    OBVIOUS
  <2>1. rank[w[m]] \in Nat /\ rank[w[n]] \in Nat
    BY <1>0, <1>1 DEF Meets
  <2>2. \A j \in 0..MAX_PID : \A i \in 0..j - 1 :
           w[j] # NULL => w[i] # NULL /\ rank[w[j]] < rank[w[i]]
    BY <1>0, WalkFalls
  <2>3. CASE m < n
    BY <1>0, <2>1, <2>2, <2>3
  <2>4. CASE n < m
    BY <1>0, <2>1, <2>2, <2>4
  <2> QED BY <1>0, <2>3, <2>4
<1>5. {c \in P : par[c] = p} \subseteq S
  <2>1. cp[p] # NULL => cp[p] \in S
    BY <1>0 DEF Walks
  <2>2. ASSUME NEW s \in S \cap P, op[s] # NULL PROVE op[s] \in S
    <3>1. PICK n \in 0..MAX_PID : w[n] # NULL /\ s = w[n]
      OBVIOUS
    <3>2. n # MAX_PID
      BY <1>0, <3>1, WalkEnds
    <3>3. n \in 0..MAX_PID - 1 /\ n + 1 \in 0..MAX_PID
      BY <1>0, <3>2
    <3>4. w[n + 1] = op[s]
      BY <3>1, <3>3 DEF Walks
    <3> QED BY <2>2, <3>3, <3>4
  <2>3. Closed(S, p, P, cp, op)
    BY <2>1, <2>2 DEF Closed
  <2> HIDE DEF S
  <2>4. \A c \in P : par[c] = p => c \in S
    BY <2>3, Reached
  <2> QED BY <2>4
<1> QED BY <1>2, <1>3, <1>4, <1>5 DEF ExactWalk

\* The function of Sibling is that walk.
LEMMA SiblingWalks ==
    ASSUME cptr \in Refs, optr \in Refs, NEW p \in Pid
    PROVE  Walks(Sibling(p), p, cptr, optr)
<1> DEFINE G == [i \in 0..MAX_PID - 1 |-> [x \in Ref |-> IF x = NULL THEN NULL ELSE optr[x]]]
           Is(f) == f = [n \in 0..MAX_PID |->
                           IF n = 0 THEN cptr[p]
                           ELSE IF f[n - 1] = NULL THEN NULL ELSE optr[f[n - 1]]]
           walk == CHOOSE f : Is(f)
<1>0. MAX_PID \in Nat /\ cptr[p] \in Ref
  BY PidAssumption DEF Refs
<1>1. G \in Rounds(MAX_PID, Ref)
  BY DEF Rounds, Ref, Refs
<1>2. PICK f \in [0..MAX_PID -> Ref] : Runs(MAX_PID, cptr[p], G, f)
  <2> HIDE DEF G
  <2> QED BY <1>0, <1>1, LoopExists
<1>3. Is(f)
  <2>1. ASSUME NEW n \in 0..MAX_PID, n # 0
        PROVE  f[n] = IF f[n - 1] = NULL THEN NULL ELSE optr[f[n - 1]]
    <3>1. n - 1 \in 0..MAX_PID - 1 /\ n - 1 \in 0..MAX_PID /\ (n - 1) + 1 = n
      BY <1>0, <2>1
    <3>2. f[n - 1] \in Ref /\ f[n] = G[n - 1][f[n - 1]]
      <4> HIDE DEF G
      <4>1. \A k \in 0..MAX_PID - 1 : f[k + 1] = G[k][f[k]]
        BY <1>2, Zenon DEF Runs
      <4>2. f[n - 1] \in Ref
        BY <3>1
      <4> QED BY <3>1, <4>1, <4>2, Zenon
    <3> QED BY <3>1, <3>2
  <2> HIDE DEF G
  <2> QED BY <1>2, <2>1 DEF Runs
<1>4. Is(walk)
  BY <1>3
<1>5. Sibling(p) = walk
  BY DEF Sibling
<1> HIDE DEF walk
<1>6. walk[0] = cptr[p]
  BY <1>0, <1>4
<1>7. ASSUME NEW k \in 0..MAX_PID - 1
      PROVE  walk[k + 1] = IF walk[k] = NULL THEN NULL ELSE optr[walk[k]]
  <2>1. k + 1 \in 0..MAX_PID /\ k + 1 # 0 /\ (k + 1) - 1 = k
    BY <1>0
  <2> QED BY <1>4, <2>1
<1>8. walk \in [0..MAX_PID -> Ref]
  <2> DEFINE T == {n \in 0..MAX_PID : walk[n] \in Ref}
  <2>1. 0 \in T
    BY <1>0, <1>6
  <2>2. ASSUME NEW k \in 0..MAX_PID - 1, k \in T PROVE k + 1 \in T
    BY <1>0, <1>7, <2>2 DEF Ref, Refs
  <2> HIDE DEF T
  <2>3. \A k \in 0..MAX_PID : k \in T
    BY <1>0, <2>1, <2>2, LoopInduction
  <2>4. walk = [n \in 0..MAX_PID |-> walk[n]]
    BY <1>4
  <2> QED BY <2>3, <2>4 DEF T
<1> QED BY <1>5, <1>6, <1>7, <1>8 DEF Walks
-----------------------------------------------------------------------------
(***************************************************************************)
(* The invariant behind FamilyExact.  In do_exit's loop the child at the   *)
(* head of the list still has the yptr of when it was not: Younger is yptr *)
(* without it.                                                             *)
(***************************************************************************)
Distinct(s) == \A i, j \in 1..Len(s) : s[i] = s[j] => i = j

Younger == [q \in Pid |-> IF pc = "reparent" /\ q = cptr[cur] THEN NULL ELSE yptr[q]]

FamTypes ==
    /\ cur \in Pid
    /\ parent \in Refs
    /\ cptr \in Refs
    /\ optr \in Refs
    /\ yptr \in Refs

\* A zombie has handed its children over, except in the loop that does it, and
\* nobody but a live process forks.
Zombies ==
    /\ zombie \subseteq Procs \ {init}
    /\ \A z \in zombie : cptr[z] = NULL \/ (pc = "reparent" /\ z = cur)
    /\ pc \in {"scan", "ret"} => cur \in (Procs \cup {idle}) \ zombie
    /\ pc = "reparent" => cur \in zombie

\* init is the first process and never goes.
InitFirst ==
    \/ init \in Procs
    \/ /\ proc_list = <<>>
       /\ pc # "reparent"
       /\ pc = "out" => last_pid = MAX_PID
       /\ pc \in {"scan", "ret"} => last_pid = init

Ranked ==
    \E M \in Nat : \E rank \in [Pid -> 0..M] :
        Links(Procs \cup {idle}, Procs, parent, cptr, optr, Younger, rank)

FamilyInv == PidInv /\ FamTypes /\ Distinct(proc_list) /\ Zombies /\ InitFirst /\ Ranked

Elements(s) == {s[i] : i \in DOMAIN s}
WithHead(s, c) == <<c>> \o s
Without(s, k) == SubSeq(s, 1, k - 1) \o SubSeq(s, k + 1, Len(s))

\* list_del takes one process out of the list and nothing else.
LEMMA ListDel ==
    ASSUME NEW S, NEW s \in Seq(S), Distinct(s), NEW k \in 1..Len(s), NEW t,
           t = Without(s, k)
    PROVE  /\ Distinct(t)
           /\ Elements(t) = Elements(s) \ {s[k]}
<1> DEFINE a == SubSeq(s, 1, k - 1)
           b == SubSeq(s, k + 1, Len(s))
<1>0. k \in Nat /\ 1 <= k /\ k <= Len(s) /\ Len(s) \in Nat /\ DOMAIN s = 1..Len(s)
      /\ \A i \in 1..Len(s) : s[i] \in S
  BY ElementOfSeq
<1>1. /\ a \in Seq(S) /\ Len(a) = k - 1
      /\ \A i \in 1..k - 1 : a[i] = s[i]
  BY <1>0, SubSeqProperties
<1>2. /\ b \in Seq(S) /\ Len(b) = Len(s) - k
      /\ \A i \in 1..Len(s) - k : b[i] = s[i + k]
  <2>1. k + 1 \in 1..Len(s) + 1 /\ Len(s) \in k..Len(s) /\ Len(s) - (k + 1) + 1 = Len(s) - k
    BY <1>0
  <2>2. /\ b \in Seq(S) /\ Len(b) = Len(s) - k
        /\ \A i \in 1..Len(s) - k : b[i] = s[(k + 1) + i - 1]
    <3>1. k + 1 \in Int /\ Len(s) \in Int /\ \A i \in k + 1..Len(s) : s[i] \in S
      BY <1>0
    <3>2. /\ b \in Seq(S)
          /\ Len(b) = IF k + 1 <= Len(s) THEN Len(s) - (k + 1) + 1 ELSE 0
          /\ \A i \in 1..Len(s) - (k + 1) + 1 : b[i] = s[(k + 1) + i - 1]
      BY <3>1, SubSeqProperties
    <3> HIDE DEF b
    <3>3. Len(b) = Len(s) - k
      <4>1. (IF k + 1 <= Len(s) THEN Len(s) - (k + 1) + 1 ELSE 0) = Len(s) - k
        <5>1. \A j, n \in Nat : j <= n => (IF j + 1 <= n THEN n - (j + 1) + 1 ELSE 0) = n - j
          OBVIOUS
        <5> QED BY <1>0, <5>1
      <4> QED BY <3>2, <4>1
    <3>4. \A i \in 1..Len(s) - k : i \in 1..Len(s) - (k + 1) + 1
      BY <1>0
    <3> QED BY <3>2, <3>3, <3>4
  <2> HIDE DEF b
  <2>3. \A i \in 1..Len(s) - k : (k + 1) + i - 1 = i + k
    BY <1>0
  <2> QED BY <2>2, <2>3
<1> HIDE DEF a, b
<1>3. /\ t \in Seq(S) /\ Len(t) = Len(s) - 1 /\ DOMAIN t = 1..Len(s) - 1
      /\ \A i \in 1..Len(s) - 1 : t[i] = IF i < k THEN a[i] ELSE b[i - (k - 1)]
  <2>1. t = a \o b
    BY DEF a, b, Without
  <2>2. t \in Seq(S) /\ Len(t) = Len(a) + Len(b)
    BY <1>1, <1>2, <2>1, ConcatProperties
  <2>3. Len(t) = Len(s) - 1 /\ DOMAIN t = 1..Len(s) - 1
    BY <1>0, <1>1, <1>2, <2>2
  <2>4. \A i \in 1..Len(a) + Len(b) : t[i] = IF i <= Len(a) THEN a[i] ELSE b[i - Len(a)]
    BY <1>1, <1>2, <2>1, ConcatProperties
  <2>5. \A i \in 1..Len(s) - 1 :
           /\ i \in 1..Len(a) + Len(b) /\ i - Len(a) = i - (k - 1)
           /\ i <= Len(a) <=> i < k
    BY <1>0, <1>1, <1>2
  <2> QED BY <2>2, <2>3, <2>4, <2>5
<1>4. \A i \in 1..Len(s) - 1 : t[i] = IF i < k THEN s[i] ELSE s[i + 1]
  <2> SUFFICES ASSUME NEW i \in 1..Len(s) - 1 PROVE t[i] = IF i < k THEN s[i] ELSE s[i + 1]
    OBVIOUS
  <2>1. CASE i < k
    <3>1. i \in 1..k - 1
      BY <1>0, <2>1
    <3> QED BY <1>1, <1>3, <2>1, <3>1
  <2>2. CASE ~ (i < k)
    <3>1. i - (k - 1) \in 1..Len(s) - k /\ (i - (k - 1)) + k = i + 1
      BY <1>0, <2>2
    <3>2. b[i - (k - 1)] = s[(i - (k - 1)) + k]
      BY <1>2, <3>1
    <3> QED BY <1>3, <2>2, <3>1, <3>2
  <2> QED BY <2>1, <2>2
<1>5. Distinct(t)
  <2> SUFFICES ASSUME NEW i \in 1..Len(s) - 1, NEW j \in 1..Len(s) - 1, t[i] = t[j]
               PROVE  i = j
    BY <1>3 DEF Distinct
  <2>1. i \in 1..Len(s) /\ i + 1 \in 1..Len(s) /\ j \in 1..Len(s) /\ j + 1 \in 1..Len(s)
    BY <1>0
  <2>2. \A m, n \in 1..Len(s) : s[m] = s[n] => m = n
    BY DEF Distinct
  <2>3. CASE i < k /\ j < k
    BY <1>4, <2>1, <2>2, <2>3
  <2>4. CASE i < k /\ ~ (j < k)
    <3>1. i = j + 1
      BY <1>4, <2>1, <2>2, <2>4
    <3> QED BY <1>0, <2>1, <2>4, <3>1
  <2>5. CASE ~ (i < k) /\ j < k
    <3>1. i + 1 = j
      BY <1>4, <2>1, <2>2, <2>5
    <3> QED BY <1>0, <2>1, <2>5, <3>1
  <2>6. CASE ~ (i < k) /\ ~ (j < k)
    <3>1. i + 1 = j + 1
      BY <1>4, <2>1, <2>2, <2>6
    <3> QED BY <1>0, <2>1, <3>1
  <2> QED BY <2>3, <2>4, <2>5, <2>6
<1>6. ASSUME NEW i \in 1..Len(s) - 1
      PROVE  \E j \in 1..Len(s) : t[i] = s[j] /\ s[j] # s[k]
  <2>1. i \in 1..Len(s) /\ i + 1 \in 1..Len(s)
    BY <1>0
  <2>2. CASE i < k
    <3>1. s[i] # s[k]
      BY <1>0, <2>1, <2>2 DEF Distinct
    <3> QED BY <1>4, <2>1, <2>2, <3>1
  <2>3. CASE ~ (i < k)
    <3>1. s[i + 1] # s[k]
      <4>1. i + 1 # k
        BY <1>0, <2>1, <2>3
      <4> QED BY <2>1, <4>1 DEF Distinct
    <3> QED BY <1>4, <2>1, <2>3, <3>1
  <2> QED BY <2>2, <2>3
<1>7. ASSUME NEW j \in 1..Len(s), s[j] # s[k]
      PROVE  \E i \in 1..Len(s) - 1 : t[i] = s[j]
  <2>1. CASE j < k
    <3>1. j \in 1..Len(s) - 1
      BY <1>0, <2>1
    <3> QED BY <1>4, <2>1, <3>1
  <2>2. CASE j > k
    <3>1. j - 1 \in 1..Len(s) - 1 /\ ~ (j - 1 < k) /\ (j - 1) + 1 = j
      BY <1>0, <2>2
    <3> QED BY <1>4, <3>1
  <2>3. j # k /\ j \in Nat
    BY <1>0, <1>7
  <2> QED BY <1>0, <2>1, <2>2, <2>3
<1>8. {t[i] : i \in 1..Len(s) - 1} = {s[i] : i \in 1..Len(s)} \ {s[k]}
  <2>1. \A x \in {t[i] : i \in 1..Len(s) - 1} : x \in {s[i] : i \in 1..Len(s)} \ {s[k]}
    BY <1>6
  <2>2. \A x \in {s[i] : i \in 1..Len(s)} \ {s[k]} : x \in {t[i] : i \in 1..Len(s) - 1}
    BY <1>7
  <2> QED BY <2>1, <2>2
<1> QED BY <1>0, <1>3, <1>5, <1>8 DEF Elements

\* list_add puts one process at the head of the list.
LEMMA ListAdd ==
    ASSUME NEW S, NEW s \in Seq(S), Distinct(s), NEW c \in S,
           c \notin Elements(s), NEW t, t = WithHead(s, c)
    PROVE  /\ Distinct(t)
           /\ Elements(t) = Elements(s) \cup {c}
<1>0. Len(s) \in Nat /\ DOMAIN s = 1..Len(s)
  OBVIOUS
<1>1. /\ Len(t) = Len(s) + 1 /\ DOMAIN t = 1..Len(s) + 1
      /\ t[1] = c
      /\ \A i \in 1..Len(s) : t[i + 1] = s[i]
  BY DEF WithHead
<1>2. \A i \in 2..Len(s) + 1 : i - 1 \in 1..Len(s) /\ t[i] = s[i - 1]
  <2> SUFFICES ASSUME NEW i \in 2..Len(s) + 1 PROVE i - 1 \in 1..Len(s) /\ t[i] = s[i - 1]
    OBVIOUS
  <2>1. i - 1 \in 1..Len(s) /\ (i - 1) + 1 = i
    BY <1>0
  <2> QED BY <1>1, <2>1
<1>3. Distinct(t)
  <2> SUFFICES ASSUME NEW i \in 1..Len(s) + 1, NEW j \in 1..Len(s) + 1, t[i] = t[j], i < j
               PROVE  FALSE
    BY <1>0, <1>1 DEF Distinct
  <2>1. j \in 2..Len(s) + 1
    BY <1>0
  <2>2. CASE i = 1
    BY <1>0, <1>1, <1>2, <2>1, <2>2 DEF Elements
  <2>3. CASE i # 1
    <3>1. i \in 2..Len(s) + 1
      BY <1>0, <2>3
    <3>2. i - 1 = j - 1
      BY <1>2, <2>1, <3>1 DEF Distinct
    <3> QED BY <1>0, <3>2
  <2> QED BY <2>2, <2>3
<1>4. ASSUME NEW i \in 1..Len(s) + 1 PROVE t[i] = c \/ \E j \in 1..Len(s) : t[i] = s[j]
  <2>1. CASE i = 1
    BY <1>1, <2>1
  <2>2. CASE i # 1
    <3>1. i \in 2..Len(s) + 1
      BY <1>0, <2>2
    <3> QED BY <1>2, <3>1
  <2> QED BY <2>1, <2>2
<1>5. ASSUME NEW j \in 1..Len(s) PROVE \E i \in 1..Len(s) + 1 : t[i] = s[j]
  <2>1. j + 1 \in 1..Len(s) + 1
    BY <1>0
  <2> QED BY <1>1, <2>1
<1>6. \E i \in 1..Len(s) + 1 : t[i] = c
  BY <1>0, <1>1
<1>7. {t[i] : i \in 1..Len(s) + 1} = {s[i] : i \in 1..Len(s)} \cup {c}
  <2>1. \A x \in {t[i] : i \in 1..Len(s) + 1} : x \in {s[i] : i \in 1..Len(s)} \cup {c}
    BY <1>4
  <2>2. \A x \in {s[i] : i \in 1..Len(s)} \cup {c} : x \in {t[i] : i \in 1..Len(s) + 1}
    BY <1>5, <1>6
  <2> QED BY <2>1, <2>2
<1> QED BY <1>0, <1>1, <1>3, <1>7 DEF Elements

\* The names in the invariant are pids, and NULL is none.
LEMMA ProcsArePids ==
    ASSUME PidInv
    PROVE  /\ Procs \in SUBSET Pid
           /\ idle \notin Procs
           /\ Procs \cup {idle} \in SUBSET Pid
           /\ idle \in Pid /\ init \in Pid /\ idle # init
           /\ NULL \notin Pid
<1>1. \A q \in Procs : q \in 1..MAX_PID - 1
  BY ListOfPids DEF PidInv, Procs
<1>2. 1..MAX_PID - 1 \subseteq Pid /\ idle \in Pid /\ init \in Pid /\ idle # init
      /\ NULL \notin Pid /\ idle \notin 1..MAX_PID - 1
  BY PidAssumption DEF Pid, idle, init, NULL
<1> QED BY <1>1, <1>2

\* Outside do_exit's loop Younger is yptr.
LEMMA YoungerIsYptr ==
    ASSUME yptr \in Refs, pc # "reparent"
    PROVE  Younger = yptr
BY DEF Younger, Refs

\* A step that leaves the list of processes and the links alone.
LEMMA SameKin ==
    ASSUME Ranked, Procs' = Procs, UNCHANGED linkVars, Younger' = Younger
    PROVE  Ranked'
BY DEF Ranked, linkVars

\* No process but idle, and no links.
LEMMA FamilyInvInit == Init => FamilyInv
<1> SUFFICES ASSUME Init PROVE FamilyInv
  OBVIOUS
<1>1. PidInv
  BY PidInvInit
<1>2. FamTypes
  BY <1>1, ProcsArePids DEF Init, FamTypes, Refs, Ref
<1>3. Procs = {} /\ Distinct(proc_list)
  BY DEF Init, Procs, Distinct
<1>4. Zombies /\ InitFirst
  BY <1>3 DEF Init, Zombies, InitFirst
<1>5. Ranked
  <2> DEFINE rank == [q \in Pid |-> 0]
  <2>1. rank \in [Pid -> 0..0] /\ 0 \in Nat
    OBVIOUS
  <2>2. Links(Procs \cup {idle}, Procs, parent, cptr, optr, Younger, rank)
    BY <1>1, <1>3, ProcsArePids DEF Init, Links
  <2> HIDE DEF rank
  <2> QED BY <2>1, <2>2 DEF Ranked
<1> QED BY <1>1, <1>2, <1>3, <1>4, <1>5 DEF FamilyInv

\* get_pid touches no link; called by idle, for init, it gives pid 1.
LEMMA DoForkKeepsFamily ==
    ASSUME FamilyInv, NEW p \in Pid, DoFork(p), PidInv'
    PROVE  FamilyInv'
<1>1. /\ pc = "out" /\ pc' \in {"scan", "ret"} /\ cur' = p
      /\ p \notin zombie /\ p \in Procs \cup {idle}
      /\ proc_list' = proc_list /\ zombie' = zombie
      /\ parent' = parent /\ cptr' = cptr /\ optr' = optr /\ yptr' = yptr
  BY DEF DoFork, GetPid, Repeat, linkVars
<1>2. Procs' = Procs
  BY <1>1 DEF Procs
<1>3. FamTypes' /\ Distinct(proc_list)'
  BY <1>1 DEF FamilyInv, FamTypes, Distinct
<1>4. Younger' = Younger
  BY <1>1 DEF Younger
<1>5. Ranked'
  BY <1>1, <1>2, <1>4, SameKin DEF FamilyInv, linkVars
<1>6. Zombies'
  BY <1>1, <1>2 DEF FamilyInv, Zombies
<1>7. InitFirst'
  <2>1. CASE init \in Procs
    BY <1>2, <2>1 DEF InitFirst
  <2>2. CASE init \notin Procs
    <3>1. proc_list = <<>> /\ last_pid = MAX_PID
      BY <1>1, <2>2 DEF FamilyInv, InitFirst
    <3>2. last_pid' = init
      BY <3>1, PidAssumption DEF DoFork, GetPid, Repeat, init
    <3> QED BY <1>1, <3>1, <3>2 DEF InitFirst
  <2> QED BY <2>1, <2>2
<1> QED BY <1>3, <1>5, <1>6, <1>7 DEF FamilyInv

\* Nor does its walk; an empty list ends it at once.
LEMMA ScanKeepsFamily ==
    ASSUME FamilyInv, Scan, PidInv'
    PROVE  FamilyInv'
<1>1. /\ pc = "scan" /\ pc' \in {"scan", "ret"} /\ cur' = cur
      /\ proc_list' = proc_list /\ zombie' = zombie
      /\ parent' = parent /\ cptr' = cptr /\ optr' = optr /\ yptr' = yptr
  BY DEF Scan, Collision, Narrow, Repeat, linkVars
<1>2. Procs' = Procs
  BY <1>1 DEF Procs
<1>3. FamTypes' /\ Distinct(proc_list)'
  BY <1>1 DEF FamilyInv, FamTypes, Distinct
<1>4. Younger' = Younger
  BY <1>1 DEF Younger
<1>5. Ranked'
  BY <1>1, <1>2, <1>4, SameKin DEF FamilyInv, linkVars
<1>6. Zombies'
  BY <1>1, <1>2 DEF FamilyInv, Zombies
<1>7. InitFirst'
  <2>1. CASE init \in Procs
    BY <1>2, <2>1 DEF InitFirst
  <2>2. CASE init \notin Procs
    <3>1. proc_list = <<>> /\ last_pid = init
      BY <1>1, <2>2 DEF FamilyInv, InitFirst
    <3>2. le > Len(proc_list)
      BY <3>1 DEF FamilyInv, PidInv, PidTypes
    <3>3. last_pid' = last_pid
      BY <3>1, <3>2 DEF Scan, FamilyInv, PidInv, PidTypes
    <3> QED BY <1>1, <3>1, <3>3 DEF InitFirst
  <2> QED BY <2>1, <2>2
<1> QED BY <1>3, <1>5, <1>6, <1>7 DEF FamilyInv

\* The child at the head of p's list has no younger sibling, so entering the
\* loop does not change Younger.
LEMMA DoExitKeepsFamily ==
    ASSUME FamilyInv, NEW p \in Pid, DoExit(p), PidInv'
    PROVE  FamilyInv'
<1>1. /\ pc = "out" /\ pc' = "reparent" /\ cur' = p
      /\ p \in Procs /\ p \notin zombie /\ p # init
      /\ proc_list' = proc_list /\ zombie' = zombie \cup {p} /\ last_pid' = last_pid
      /\ parent' = parent /\ cptr' = cptr /\ optr' = optr /\ yptr' = yptr
  BY DEF DoExit, pidVars, linkVars
<1>2. Procs' = Procs
  BY <1>1 DEF Procs
<1>3. FamTypes' /\ Distinct(proc_list)'
  BY <1>1 DEF FamilyInv, FamTypes, Distinct
<1>4. Younger' = Younger
  <2>1. Younger = yptr
    BY <1>1, YoungerIsYptr DEF FamilyInv, FamTypes
  <2>2. cptr[p] = NULL \/ yptr[cptr[p]] = NULL
    BY <1>1, <2>1 DEF FamilyInv, Ranked, Links
  <2>3. NULL \notin Pid
    BY ProcsArePids DEF FamilyInv
  <2> QED BY <1>1, <2>2, <2>3 DEF Younger
<1>5. Ranked'
  BY <1>1, <1>2, <1>4, SameKin DEF FamilyInv, linkVars
<1>6. Zombies'
  BY <1>1, <1>2 DEF FamilyInv, Zombies
<1>7. InitFirst'
  <2>1. init \in Procs
    BY <1>1 DEF FamilyInv, InitFirst, Procs
  <2> QED BY <1>2, <2>1 DEF InitFirst
<1> QED BY <1>3, <1>5, <1>6, <1>7 DEF FamilyInv

\* The loop is over when the zombie has no child left.
LEMMA ReparentDoneKeepsFamily ==
    ASSUME FamilyInv, ReparentDone, PidInv'
    PROVE  FamilyInv'
<1>1. /\ pc = "reparent" /\ pc' = "out" /\ cur' = cur /\ cptr[cur] = NULL
      /\ proc_list' = proc_list /\ zombie' = zombie /\ last_pid' = last_pid
      /\ parent' = parent /\ cptr' = cptr /\ optr' = optr /\ yptr' = yptr
  BY DEF ReparentDone, pidVars, linkVars
<1>2. Procs' = Procs
  BY <1>1 DEF Procs
<1>3. FamTypes' /\ Distinct(proc_list)'
  BY <1>1 DEF FamilyInv, FamTypes, Distinct
<1>4. Younger' = Younger
  <2>1. NULL \notin Pid
    BY ProcsArePids DEF FamilyInv
  <2> QED BY <1>1, <2>1 DEF Younger
<1>5. Ranked'
  BY <1>1, <1>2, <1>4, SameKin DEF FamilyInv, linkVars
<1>6. Zombies'
  BY <1>1, <1>2 DEF FamilyInv, Zombies
<1>7. InitFirst'
  <2>1. init \in Procs
    BY <1>1 DEF FamilyInv, InitFirst, Procs
  <2> QED BY <1>2, <2>1 DEF InitFirst
<1> QED BY <1>3, <1>5, <1>6, <1>7 DEF FamilyInv

\* The rank of a process that becomes the youngest of its siblings.
LEMMA TopRank ==
    ASSUME NEW M \in Nat, NEW rank \in [Pid -> 0..M], NEW c \in Pid
    PROVE  \E rank2 \in [Pid -> 0..M + 1] :
              \A q \in Pid \ {c} : rank2[q] = rank[q] /\ rank2[q] < rank2[c]
<1> DEFINE rank2 == [rank EXCEPT ![c] = M + 1]
<1>1. rank2 \in [Pid -> 0..M + 1]
  OBVIOUS
<1>2. \A q \in Pid \ {c} : rank2[q] = rank[q] /\ rank2[q] < rank2[c]
  OBVIOUS
<1> HIDE DEF rank2
<1> QED BY <1>1, <1>2

\* set_links: the pid is fresh, so the new process had no link.
LEMMA SetLinksKeepsFamily ==
    ASSUME FamilyInv, SetLinks, PidInv'
    PROVE  FamilyInv'
<1>1. PICK c, o : c = last_pid /\ o = cptr[cur]
  OBVIOUS
<1>2. /\ pc = "ret" /\ pc' = "out" /\ cur' = cur /\ zombie' = zombie
      /\ proc_list' = <<c>> \o proc_list
      /\ parent' = [parent EXCEPT ![c] = cur]
      /\ yptr' = [q \in Pid |-> IF q = c THEN NULL ELSE IF q = o THEN c ELSE yptr[q]]
      /\ optr' = [optr EXCEPT ![c] = o]
      /\ cptr' = [cptr EXCEPT ![c] = NULL, ![cur] = c]
  BY <1>1 DEF SetLinks
<1>3. c \in 1..MAX_PID - 1 /\ c \notin Procs
  BY <1>1, <1>2, PidInvFresh DEF FamilyInv, PidFresh
<1>4. /\ Procs \in SUBSET Pid /\ idle \in Pid /\ NULL \notin Pid
      /\ Procs \cup {idle} \in SUBSET Pid
  BY ProcsArePids DEF FamilyInv
<1>5. c \in Pid /\ c # idle
  BY <1>3 DEF Pid, idle
<1>6. Procs' = Procs \cup {c} /\ Distinct(proc_list')
  <2>0. PICK S : S = 1..MAX_PID - 1
    OBVIOUS
  <2>1. proc_list \in Seq(S) /\ Distinct(proc_list) /\ c \in S
    BY <1>3, <2>0 DEF FamilyInv, PidInv, PidTypes
  <2>2. c \notin Elements(proc_list)
    BY <1>3 DEF Procs, Elements
  <2>3. /\ Distinct(proc_list')
        /\ Elements(proc_list') = Elements(proc_list) \cup {c}
    <3>1. proc_list' = WithHead(proc_list, c)
      BY <1>2 DEF WithHead
    <3> QED BY <2>1, <2>2, <3>1, ListAdd
  <2> QED BY <2>3 DEF Procs, Elements
<1>7. cur \in Procs \cup {idle} /\ cur \notin zombie /\ cur \in Pid /\ cur # c
  BY <1>2, <1>3, <1>5 DEF FamilyInv, Zombies, FamTypes
<1>8. o \in Ref /\ parent \in Refs /\ cptr \in Refs /\ optr \in Refs /\ yptr \in Refs
  BY <1>1, <1>7 DEF FamilyInv, FamTypes, Refs
<1>9. FamTypes'
  BY <1>2, <1>5, <1>7, <1>8 DEF FamTypes, Refs, Ref
<1>10. Younger = yptr /\ Younger' = yptr'
  <2>1. (yptr \in Refs /\ pc # "reparent" => Younger = yptr)'
    BY YoungerIsYptr, PTL
  <2> QED BY <1>2, <1>8, <1>9, <2>1, YoungerIsYptr DEF FamTypes
<1>11. Ranked'
  <2>1. PICK M \in Nat : \E rank \in [Pid -> 0..M] :
           Links(Procs \cup {idle}, Procs, parent, cptr, optr, yptr, rank)
    BY <1>10 DEF FamilyInv, Ranked
  <2>2. PICK rank \in [Pid -> 0..M] :
           Links(Procs \cup {idle}, Procs, parent, cptr, optr, yptr, rank)
    BY <2>1
  <2>3. PICK rank2 \in [Pid -> 0..M + 1] :
           \A q \in Pid \ {c} : rank2[q] = rank[q] /\ rank2[q] < rank2[c]
    BY <1>5, TopRank
  <2>4. \A q \in Procs : q \in Pid \ {c}
    BY <1>3, <1>4
  <2>5. /\ parent'[c] = cur /\ optr'[c] = cptr[cur] /\ yptr'[c] = NULL /\ cptr'[cur] = c
        /\ \A q \in Procs : /\ parent'[q] = parent[q] /\ optr'[q] = optr[q]
                             /\ rank2[q] = rank[q]
        /\ \A q \in Procs : yptr'[q] = IF q = cptr[cur] THEN c ELSE yptr[q]
        /\ \A q \in Procs : rank2[q] < rank2[c]
        /\ \A q \in (Procs \cup {idle}) \ {cur} : cptr'[q] = cptr[q]
        /\ \A q \in ((Procs \cup {c}) \cup {idle}) \ (Procs \cup {idle}) : cptr'[q] = NULL
    BY <1>1, <1>2, <1>3, <1>4, <1>5, <1>7, <1>8, <2>3, <2>4 DEF Refs
  <2>6. /\ c \in Pid \ Procs
        /\ (Procs \cup {c}) \cup {idle} \in SUBSET Pid
        /\ Procs \cup {idle} \subseteq (Procs \cup {c}) \cup {idle}
    BY <1>3, <1>4, <1>5
  <2>7. Links((Procs \cup {c}) \cup {idle}, Procs \cup {c}, parent', cptr', optr', yptr', rank2)
    BY <1>4, <1>7, <2>2, <2>5, <2>6, Linked
  <2>8. M + 1 \in Nat
    OBVIOUS
  <2> QED BY <1>6, <1>10, <2>3, <2>7, <2>8 DEF Ranked
<1>12. Zombies'
  <2>1. c \notin zombie
    BY <1>3 DEF FamilyInv, Zombies
  <2>2. \A z \in zombie : z \in Pid /\ cptr'[z] = cptr[z]
    BY <1>2, <1>4, <1>7, <1>8, <2>1 DEF FamilyInv, Zombies, Refs
  <2> QED BY <1>2, <1>6, <2>2 DEF FamilyInv, Zombies
<1>13. InitFirst'
  <2>1. init \in Procs'
    BY <1>1, <1>2, <1>6 DEF FamilyInv, InitFirst
  <2> QED BY <2>1 DEF InitFirst
<1> QED BY <1>6, <1>9, <1>11, <1>12, <1>13 DEF FamilyInv

\* A round of do_exit's loop takes the child at the head out of the zombie's
\* list and makes it the youngest of init.
LEMMA ReparentKeepsFamily ==
    ASSUME FamilyInv, Reparent, PidInv'
    PROVE  FamilyInv'
<1>1. PICK c, i, o : c = cptr[cur] /\ i = cptr[init] /\ o = optr[c]
  OBVIOUS
<1>2. /\ pc = "reparent" /\ pc' = pc /\ cur' = cur /\ zombie' = zombie /\ c # NULL
      /\ proc_list' = proc_list
      /\ cptr' = [cptr EXCEPT ![cur] = o, ![init] = c]
      /\ optr' = [optr EXCEPT ![c] = i]
      /\ yptr' = [q \in Pid |-> IF q = c THEN NULL ELSE IF q = i THEN c ELSE yptr[q]]
      /\ parent' = [parent EXCEPT ![c] = init]
  BY <1>1 DEF Reparent, pidVars
<1>3. Procs' = Procs /\ Distinct(proc_list')
  BY <1>2 DEF Procs, FamilyInv
<1>4. /\ Procs \in SUBSET Pid /\ NULL \notin Pid /\ init \in Pid
      /\ Procs \cup {idle} \in SUBSET Pid
  BY ProcsArePids DEF FamilyInv
<1>5. init \in Procs /\ cur \in Procs /\ cur # init /\ cur \in zombie /\ init \notin zombie
  BY <1>2 DEF FamilyInv, InitFirst, Zombies
<1>6. parent \in Refs /\ cptr \in Refs /\ optr \in Refs /\ yptr \in Refs /\ Younger \in Refs
  BY DEF FamilyInv, FamTypes, Refs, Ref, Younger
<1>7. PICK M \in Nat : \E rank \in [Pid -> 0..M] :
         Links(Procs \cup {idle}, Procs, parent, cptr, optr, Younger, rank)
  BY DEF FamilyInv, Ranked
<1>8. PICK rank \in [Pid -> 0..M] :
         Links(Procs \cup {idle}, Procs, parent, cptr, optr, Younger, rank)
  BY <1>7
<1>9. /\ c \in Procs /\ parent[c] = cur /\ Younger[c] = NULL
      /\ o = NULL \/ (o \in Procs /\ parent[o] = cur /\ o # c)
      /\ i = NULL \/ (i \in Procs /\ parent[i] = init)
  <2>1. c \in Procs /\ parent[c] = cur /\ Younger[c] = NULL
    BY <1>1, <1>2, <1>5, <1>8 DEF Links
  <2>2. o = NULL \/ (o \in Procs /\ parent[o] = cur /\ rank[o] < rank[c])
    BY <1>1, <1>8, <2>1 DEF Links
  <2>3. rank[c] \in Nat
    BY <1>4, <2>1
  <2>4. i = NULL \/ (i \in Procs /\ parent[i] = init)
    BY <1>1, <1>5, <1>8 DEF Links
  <2> QED BY <2>1, <2>2, <2>3, <2>4
<1>10. c \in Pid /\ o \in Ref /\ i \in Ref /\ cur \in Pid /\ i # c /\ (i = o => i = NULL)
  BY <1>4, <1>5, <1>9 DEF Ref
<1>11. FamTypes'
  BY <1>2, <1>4, <1>6, <1>10 DEF FamTypes, Refs, Ref
<1>12. PICK cp1 \in Refs : \A q \in Pid : cp1[q] = IF q = cur THEN o ELSE cptr[q]
  <2> DEFINE f == [cptr EXCEPT ![cur] = o]
  <2>1. f \in Refs /\ \A q \in Pid : f[q] = IF q = cur THEN o ELSE cptr[q]
    BY <1>6, <1>10 DEF Refs
  <2> HIDE DEF f
  <2> QED BY <2>1
<1>13. PICK yp1 \in Refs : \A q \in Pid : yp1[q] = IF q = o THEN NULL ELSE Younger[q]
  <2> DEFINE f == [q \in Pid |-> IF q = o THEN NULL ELSE Younger[q]]
  <2>1. f \in Refs /\ \A q \in Pid : f[q] = IF q = o THEN NULL ELSE Younger[q]
    BY <1>6 DEF Refs, Ref
  <2> HIDE DEF f
  <2> QED BY <2>1
<1>14. Links(Procs \cup {idle}, Procs \ {c}, parent, cp1, optr, yp1, rank)
  <2>1. /\ \A q \in Procs \ {c} : optr[q] = IF q = Younger[c] THEN optr[c] ELSE optr[q]
        /\ \A q \in Procs \ {c} : yp1[q] = IF q = optr[c] THEN Younger[c] ELSE Younger[q]
        /\ \A q \in Procs \cup {idle} :
              cp1[q] = IF Younger[c] = NULL /\ q = parent[c] THEN optr[c] ELSE cptr[q]
    BY <1>1, <1>4, <1>9, <1>12, <1>13
  <2>2. rank \in [Pid -> Nat]
    OBVIOUS
  <2> QED BY <1>4, <1>6, <1>8, <1>9, <2>1, <2>2, Unlinked
<1>15. Ranked'
  <2>1. PICK rank2 \in [Pid -> 0..M + 1] :
           \A q \in Pid \ {c} : rank2[q] = rank[q] /\ rank2[q] < rank2[c]
    BY <1>10, TopRank
  <2>2. /\ Younger'[c] = NULL
        /\ \A q \in Procs \ {c} : Younger'[q] = IF q = cp1[init] THEN c ELSE yp1[q]
    <3>1. cptr'[cur] = o /\ cp1[init] = i
      BY <1>1, <1>2, <1>4, <1>5, <1>6, <1>10, <1>12 DEF Refs
    <3>2. ASSUME NEW q \in Pid
          PROVE  Younger'[q] = IF q = o THEN NULL
                               ELSE IF q = c THEN NULL ELSE IF q = i THEN c ELSE yptr[q]
      BY <1>2, <3>1 DEF Younger
    <3>3. ASSUME NEW q \in Procs \ {c}
          PROVE  yp1[q] = IF q = o THEN NULL ELSE yptr[q]
      BY <1>1, <1>4, <1>13 DEF Younger
    <3> QED BY <1>4, <1>10, <3>1, <3>2, <3>3
  <2>3. /\ parent'[c] = init /\ optr'[c] = cp1[init] /\ cptr'[init] = c
        /\ \A q \in Procs \ {c} : /\ parent'[q] = parent[q] /\ optr'[q] = optr[q]
                                   /\ rank2[q] = rank[q]
        /\ \A q \in Procs \ {c} : rank2[q] < rank2[c]
        /\ \A q \in (Procs \cup {idle}) \ {init} : cptr'[q] = cp1[q]
        /\ \A q \in (Procs \cup {idle}) \ (Procs \cup {idle}) : cptr'[q] = NULL
    BY <1>1, <1>2, <1>4, <1>5, <1>6, <1>10, <1>12, <2>1 DEF Refs
  <2>4. /\ c \in Pid \ (Procs \ {c}) /\ Procs \ {c} \in SUBSET Pid
        /\ init \in Procs \cup {idle} /\ (Procs \ {c}) \cup {c} = Procs
        /\ Procs \cup {idle} \subseteq Procs \cup {idle}
    BY <1>4, <1>5, <1>9, <1>10
  <2>5. Links(Procs \cup {idle}, (Procs \ {c}) \cup {c}, parent', cptr', optr', Younger', rank2)
    <3>1. PICK F, P, yp2 : F = Procs \cup {idle} /\ P = Procs \ {c} /\ yp2 = Younger'
      OBVIOUS
    <3>2. F \in SUBSET Pid /\ P \in SUBSET Pid /\ c \in Pid \ P /\ init \in F /\ F \subseteq F
      BY <1>4, <2>4, <3>1
    <3>3. Links(F, P, parent, cp1, optr, yp1, rank)
      BY <1>14, <3>1
    <3>4. /\ yp2[c] = NULL
          /\ \A q \in P : yp2[q] = IF q = cp1[init] THEN c ELSE yp1[q]
      BY <2>2, <3>1
    <3>5. /\ parent'[c] = init /\ optr'[c] = cp1[init] /\ cptr'[init] = c
          /\ \A q \in P : parent'[q] = parent[q] /\ optr'[q] = optr[q] /\ rank2[q] = rank[q]
          /\ \A q \in P : rank2[q] < rank2[c]
          /\ \A q \in F \ {init} : cptr'[q] = cp1[q]
          /\ \A q \in F \ F : cptr'[q] = NULL
      BY <2>3, <3>1
    <3>6. Links(F, P \cup {c}, parent', cptr', optr', yp2, rank2)
      BY <3>2, <3>3, <3>4, <3>5, Linked
    <3> QED BY <3>1, <3>6
  <2>6. M + 1 \in Nat
    OBVIOUS
  <2> QED BY <1>3, <2>1, <2>4, <2>5, <2>6 DEF Ranked
<1>16. Zombies'
  <2>0. \A z \in zombie : z \in Pid /\ z # init
    BY <1>4 DEF FamilyInv, Zombies
  <2>1. \A z \in zombie : z = cur \/ cptr'[z] = cptr[z]
    BY <1>2, <1>4, <1>6, <2>0 DEF Refs
  <2> QED BY <1>2, <1>3, <2>1 DEF FamilyInv, Zombies
<1>17. InitFirst'
  BY <1>3, <1>5 DEF InitFirst
<1> QED BY <1>3, <1>11, <1>15, <1>16, <1>17 DEF FamilyInv

\* A process without a youngest child has no child: it may go.
LEMMA Childless ==
    ASSUME NEW F \in SUBSET Pid, NEW P \in SUBSET Pid, NEW par \in Refs, NEW cp \in Refs,
           NEW op \in Refs, NEW yp \in Refs, NEW M \in Nat, NEW rank \in [Pid -> 0..M],
           Links(F, P, par, cp, op, yp, rank), NEW p \in F, cp[p] = NULL
    PROVE  \A c \in P : par[c] # p
<1>1. Closed({}, p, P, cp, op)
  BY DEF Closed
<1>2. \A c \in P : par[c] = p => c \in {}
  BY <1>1, Reached
<1> QED BY <1>2

\* remove_links: the zombie has no child, so nobody is left with it as parent.
LEMMA DoWaitKeepsFamily ==
    ASSUME FamilyInv, NEW p \in Pid, NEW z \in Pid, DoWait(p, z), PidInv'
    PROVE  FamilyInv'
<1>1. PICK o, y : o = optr[z] /\ y = yptr[z]
  OBVIOUS
<1>2. /\ pc = "out" /\ pc' = "out" /\ cur' = cur /\ z \in zombie /\ zombie' = zombie \ {z}
      /\ yptr' = [q \in Pid |-> IF q = z THEN NULL ELSE IF q = o THEN y ELSE yptr[q]]
      /\ optr' = [q \in Pid |-> IF q = z THEN NULL ELSE IF q = y THEN o ELSE optr[q]]
      /\ cptr' = IF y = NULL THEN [cptr EXCEPT ![parent[z]] = o] ELSE cptr
      /\ parent' = [parent EXCEPT ![z] = NULL]
  BY <1>1 DEF DoWait, RemoveLinks
<1>3. z \in Procs /\ z # init /\ cptr[z] = NULL /\ init \in Procs
  <2>1. z \in Procs /\ z # init /\ cptr[z] = NULL
    BY <1>2 DEF FamilyInv, Zombies
  <2> QED BY <2>1 DEF FamilyInv, InitFirst, Procs
<1>4. /\ Procs \in SUBSET Pid /\ NULL \notin Pid /\ idle \notin Procs
      /\ Procs \cup {idle} \in SUBSET Pid
  BY ProcsArePids DEF FamilyInv
<1>5. Procs' = Procs \ {z} /\ Distinct(proc_list')
  <2>0. PICK S : S = 1..MAX_PID - 1
    OBVIOUS
  <2>1. proc_list \in Seq(S) /\ Distinct(proc_list)
    BY <2>0 DEF FamilyInv, PidInv, PidTypes
  <2>2. PICK k \in DOMAIN proc_list :
           proc_list[k] = z /\ proc_list' = Without(proc_list, k)
    BY DEF DoWait, RemoveLinks, Without
  <2>3. k \in 1..Len(proc_list)
    BY <2>1, <2>2
  <2>4. Distinct(proc_list') /\ Elements(proc_list') = Elements(proc_list) \ {proc_list[k]}
    BY <2>1, <2>2, <2>3, ListDel
  <2> QED BY <2>2, <2>4 DEF Procs, Elements
<1>6. parent \in Refs /\ cptr \in Refs /\ optr \in Refs /\ yptr \in Refs /\ cur \in Pid
  BY DEF FamilyInv, FamTypes
<1>7. PICK M \in Nat : \E rank \in [Pid -> 0..M] :
         Links(Procs \cup {idle}, Procs, parent, cptr, optr, yptr, rank)
  BY <1>2, <1>6, YoungerIsYptr DEF FamilyInv, Ranked
<1>8. PICK rank \in [Pid -> 0..M] :
         Links(Procs \cup {idle}, Procs, parent, cptr, optr, yptr, rank)
  BY <1>7
<1>9. /\ parent[z] \in Procs \cup {idle} /\ y = NULL => cptr[parent[z]] = z
      /\ o \in Ref /\ y \in Ref /\ parent[z] \in Pid
  <2>1. /\ parent[z] \in Procs \cup {idle}
        /\ y = NULL => cptr[parent[z]] = z
    BY <1>1, <1>3, <1>4, <1>8 DEF Links
  <2> QED BY <1>1, <1>3, <1>4, <1>6, <2>1 DEF Refs
<1>10. FamTypes'
  BY <1>2, <1>6, <1>9 DEF FamTypes, Refs, Ref
<1>11. Ranked'
  <2>1. /\ \A q \in Procs \ {z} : parent'[q] = parent[q]
        /\ \A q \in Procs \ {z} : optr'[q] = IF q = yptr[z] THEN optr[z] ELSE optr[q]
        /\ \A q \in Procs \ {z} : yptr'[q] = IF q = optr[z] THEN yptr[z] ELSE yptr[q]
    BY <1>1, <1>2, <1>4, <1>6 DEF Refs
  <2>2. \A q \in Procs \cup {idle} :
           cptr'[q] = IF yptr[z] = NULL /\ q = parent[z] THEN optr[z] ELSE cptr[q]
    BY <1>1, <1>2, <1>4, <1>6, <1>9 DEF Refs
  <2>3. rank \in [Pid -> Nat]
    OBVIOUS
  <2>4. Links(Procs \cup {idle}, Procs \ {z}, parent', cptr', optr', yptr', rank)
    BY <1>3, <1>4, <1>6, <1>8, <2>1, <2>2, <2>3, Unlinked
  <2>5. \A c \in Procs : parent[c] # z
    BY <1>3, <1>4, <1>6, <1>8, Childless
  <2>6. Links((Procs \ {z}) \cup {idle}, Procs \ {z}, parent', cptr', optr', yptr', rank)
    BY <2>1, <2>4, <2>5 DEF Links
  <2>7. Younger' = yptr'
    <3>1. (yptr \in Refs /\ pc # "reparent" => Younger = yptr)'
      BY YoungerIsYptr, PTL
    <3> QED BY <1>2, <1>10, <3>1 DEF FamTypes
  <2> QED BY <1>5, <2>6, <2>7 DEF Ranked
<1>12. Zombies'
  <2>1. parent[z] \in zombie => y # NULL
    BY <1>2, <1>3, <1>4, <1>9 DEF FamilyInv, Zombies
  <2>2. \A x \in zombie : cptr'[x] = NULL
    BY <1>2, <1>4, <1>6, <1>9, <2>1 DEF FamilyInv, Zombies, Refs
  <2> QED BY <1>2, <1>5, <2>2 DEF FamilyInv, Zombies
<1>13. InitFirst'
  BY <1>3, <1>5 DEF InitFirst
<1> QED BY <1>5, <1>10, <1>11, <1>12, <1>13 DEF FamilyInv

\* The invariant survives every step, with that of get_pid.
LEMMA FamilyInvStep == FamilyInv /\ [Next]_vars => FamilyInv'
<1> SUFFICES ASSUME FamilyInv, [Next]_vars PROVE FamilyInv'
  OBVIOUS
<1>1. PidInv'
  BY PidInvStep DEF FamilyInv
<1>2. ASSUME NEW p \in Pid, DoFork(p) PROVE FamilyInv'
  BY <1>1, <1>2, DoForkKeepsFamily
<1>3. ASSUME NEW p \in Pid, DoExit(p) PROVE FamilyInv'
  BY <1>1, <1>3, DoExitKeepsFamily
<1>4. ASSUME NEW p \in Pid, NEW z \in Pid, DoWait(p, z) PROVE FamilyInv'
  BY <1>1, <1>4, DoWaitKeepsFamily
<1>5. CASE Scan
  BY <1>1, <1>5, ScanKeepsFamily
<1>6. CASE SetLinks
  BY <1>1, <1>6, SetLinksKeepsFamily
<1>7. CASE Reparent
  BY <1>1, <1>7, ReparentKeepsFamily
<1>8. CASE ReparentDone
  BY <1>1, <1>8, ReparentDoneKeepsFamily
<1>9. CASE UNCHANGED vars
  <2>1. /\ Procs' = Procs /\ Younger' = Younger /\ proc_list' = proc_list /\ pc' = pc
        /\ zombie' = zombie /\ cur' = cur /\ last_pid' = last_pid /\ UNCHANGED linkVars
        /\ parent' = parent /\ cptr' = cptr /\ optr' = optr /\ yptr' = yptr
    BY <1>9 DEF vars, pidVars, linkVars, Procs, Younger
  <2>2. Ranked'
    BY <2>1, SameKin DEF FamilyInv
  <2> QED BY <1>1, <2>1, <2>2 DEF FamilyInv, FamTypes, Zombies, InitFirst
<1> QED BY <1>2, <1>3, <1>4, <1>5, <1>6, <1>7, <1>8, <1>9 DEF Next

\* Walking the family links meets each child exactly once, with yptr the way
\* back, and every process has a parent that exists: after any forks, exits and
\* waits, for every bound on processes and pids.
THEOREM FamilyIsExact == Spec => []FamilyExact
<1>1. FamilyInv => FamilyExact
  <2> SUFFICES ASSUME FamilyInv, pc # "reparent" PROVE FamilyExact
    BY DEF FamilyExact
  <2>1. parent \in Refs /\ cptr \in Refs /\ optr \in Refs /\ yptr \in Refs
    BY DEF FamilyInv, FamTypes
  <2>2. Procs \in SUBSET Pid /\ Procs \cup {idle} \in SUBSET Pid
    BY ProcsArePids DEF FamilyInv
  <2>3. PICK M \in Nat : \E rank \in [Pid -> 0..M] :
           Links(Procs \cup {idle}, Procs, parent, cptr, optr, yptr, rank)
    BY <2>1, YoungerIsYptr DEF FamilyInv, Ranked
  <2>4. PICK rank \in [Pid -> 0..M] :
           Links(Procs \cup {idle}, Procs, parent, cptr, optr, yptr, rank)
    BY <2>3
  <2>5. ASSUME NEW p \in Procs \cup {idle}
        PROVE  ExactWalk(Sibling(p), p, Procs, parent, yptr)
    <3>1. PICK w : w = Sibling(p)
      OBVIOUS
    <3>2. Walks(w, p, cptr, optr)
      BY <2>1, <2>2, <3>1, SiblingWalks
    <3>3. ExactWalk(w, p, Procs, parent, yptr)
      BY <2>1, <2>2, <2>4, <3>2, WalkExact
    <3> QED BY <3>1, <3>3
  <2>6. \A c \in Procs : parent[c] \in Procs \cup {idle}
    BY <2>4 DEF Links
  <2> QED BY <2>5, <2>6, Zenon DEF FamilyExact, ExactWalk, Children
<1> QED BY FamilyInvInit, FamilyInvStep, <1>1, PTL DEF Spec
=============================================================================
