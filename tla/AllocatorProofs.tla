-------------------------- MODULE AllocatorProofs --------------------------
(***************************************************************************)
(* Proofs about the two allocators, that of pages of memory (FirstFit, as  *)
(* long as memory is never exhausted) and that of disk blocks together     *)
(* with the block map of a file (SfsFile): what is free and what is in use *)
(* never overlap, and nothing is lost.  A file made of such blocks behaves *)
(* as one sequence of bytes (ByteFile).  The theorems hold for every       *)
(* number of pages, every disk, every size of a block and every number of  *)
(* direct blocks and entries.                                              *)
(***************************************************************************)
EXTENDS FirstFit, SfsFile, FiniteSetTheorems, Induction

----------------------------------------------------------------------------
(* Module FirstFit.                                                        *)

\* f comes after e in a list of the pages H in ascending order; free_list is
\* below all pages.
Follows(H, e, f) ==
    \/ f > e /\ \A h \in H : h <= e \/ f <= h
    \/ f = free_list /\ \A h \in H : h <= e

\* The pointers are those of a ring of the header and the pages H, ascending,
\* and prev is the inverse of next.
Ring(next, prev, H) ==
    \A e \in H \cup {free_list} :
        /\ next[e] \in H \cup {free_list} /\ prev[e] \in H \cup {free_list}
        /\ prev[next[e]] = e /\ next[prev[e]] = e
        /\ Follows(H, e, next[e])

\* The blocks with heads H and these sizes do not overlap and make up the set F.
Tiles(size, H, F) ==
    /\ \A p \in H : size[p] > 0 /\ p + size[p] <= NPAGE
    /\ \A p, q \in H : p < q => p + size[p] <= q
    /\ \A x \in Page : x \in F <=> \E p \in H : p <= x /\ x < p + size[p]

\* The block at p ends where the one at q starts.
Meets(size, p, q) == p + size[p] = q

\* No two blocks touch.
Apart(size, H) == \A p, q \in H : p + size[p] # q

Mem == [next : [Entry -> Entry], prev : [Entry -> Entry],
        property : [Page -> Nat], PG_property : SUBSET Page]

\* The inductive invariant.
FitInv ==
    /\ mem \in Mem /\ owned \subseteq Page /\ nr_free = Cardinality(Page \ owned)
    /\ Ring(mem.next, mem.prev, mem.PG_property)
    /\ Tiles(mem.property, mem.PG_property, Page \ owned)
    /\ Apart(mem.property, mem.PG_property)
    /\ NPAGE - 1 \notin owned

----------------------------------------------------------------------------
(* The walk along the list.                                                *)

(***************************************************************************)
(* A set of numbers above 0 that is not empty has its Min as least element.*)
(***************************************************************************)
LEMMA MinIsLeast ==
  ASSUME NEW S, S \subseteq Nat, S # {}
  PROVE  Min(S) \in S /\ \A k \in S : Min(S) <= k
<1>1. \E m \in S : \A k \in S : m <= k
  BY LeastNat
<1>2. \E m \in S : \A k \in S : m =< k
  BY <1>1
<1> QED BY <1>2 DEF Min

(***************************************************************************)
(* What Walk computes: the header, then the next of the entry before.      *)
(***************************************************************************)
LEMMA WalkIs ==
  ASSUME NEW m, m.next \in [Entry -> Entry]
  PROVE  /\ Walk(m) \in [0 .. NPAGE + 1 -> Entry] /\ Walk(m)[0] = free_list
         /\ \A k \in 0 .. NPAGE : Walk(m)[k + 1] = m.next[Walk(m)[k]]
<1> DEFINE M == NPAGE + 1
           nx == m.next
           G == [i \in 0 .. M - 1 |-> nx]
           Is(f) == f = [k \in 0 .. M |-> IF k = 0 THEN free_list ELSE nx[f[k - 1]]]
           at == CHOOSE f : Is(f)
<1>0. M \in Nat /\ free_list \in Entry /\ M - 1 = NPAGE /\ nx \in [Entry -> Entry]
  BY FirstFitAssumption DEF Entry
<1> HIDE DEF nx
<1>1. G \in Rounds(M, Entry)
  BY <1>0 DEF Rounds
<1>2. PICK f \in [0 .. M -> Entry] : Runs(M, free_list, G, f)
  <2> HIDE DEF M, G
  <2> QED BY <1>0, <1>1, LoopExists
<1>3. ASSUME NEW k \in 0 .. M, k # 0 PROVE f[k] = nx[f[k - 1]]
  <2>1. k - 1 \in 0 .. M - 1 /\ (k - 1) + 1 = k
    BY <1>0, <1>3
  <2>2. G[k - 1] = nx
    BY <2>1
  <2> HIDE DEF G, M
  <2>3. \A i \in 0 .. M - 1 : f[i + 1] = G[i][f[i]]
    BY <1>2, Zenon DEF Runs
  <2> QED BY <2>1, <2>2, <2>3, Zenon
<1>4. f[0] = free_list
  BY <1>2, Zenon DEF Runs
<1> HIDE DEF M, G
<1>5. Is(f)
  BY <1>2, <1>3, <1>4
<1>6. Is(at)
  BY <1>5
<1>7. Walk(m) = at
  BY DEF Walk, M, nx
<1> HIDE DEF at
<1>8. at[0] = free_list
  BY <1>0, <1>6
<1>9. \A k \in 0 .. M - 1 : at[k + 1] = nx[at[k]]
  <2> SUFFICES ASSUME NEW k \in 0 .. M - 1 PROVE at[k + 1] = nx[at[k]]
      OBVIOUS
  <2>1. k + 1 \in 0 .. M /\ k + 1 # 0 /\ (k + 1) - 1 = k
    BY <1>0
  <2> QED BY <1>6, <2>1
<1>10. \A k \in 0 .. M : at[k] \in Entry
  <2> DEFINE T == {k \in 0 .. M : at[k] \in Entry}
  <2>1. 0 \in T
    BY <1>0, <1>8
  <2>2. \A k \in 0 .. M - 1 : k \in T => k + 1 \in T
    BY <1>0, <1>9
  <2> HIDE DEF T
  <2>3. \A k \in 0 .. M : k \in T
    BY <1>0, <2>1, <2>2, LoopInduction
  <2> QED BY <2>3 DEF T
<1>11. at \in [0 .. M -> Entry]
  BY <1>6, <1>10
<1> QED BY <1>0, <1>7, <1>8, <1>9, <1>11 DEF M, nx

(***************************************************************************)
(* A walk along a ring meets the pages of the ring in ascending order,     *)
(* each once, and comes back to the header within NPAGE + 1 steps.         *)
(***************************************************************************)
LEMMA RingWalk ==
  ASSUME NEW m, m.next \in [Entry -> Entry], NEW H \in SUBSET Page,
         Ring(m.next, m.prev, H)
  PROVE  /\ WalkEnds(m) /\ Length(m) \in 0 .. NPAGE /\ Listed(m) = H
         /\ \A k \in 1 .. Length(m) : Walk(m)[k] \in H
         /\ \A j, k \in 1 .. Length(m) : j < k => Walk(m)[j] < Walk(m)[k]
<1> DEFINE w == Walk(m)
           nx == m.next
<1>0. /\ NPAGE \in Nat /\ NPAGE > 0 /\ free_list = -1
      /\ \A h \in H : h \in 0 .. NPAGE - 1 /\ h \in Int /\ h # free_list
  BY FirstFitAssumption DEF Page, free_list
<1>1. /\ w \in [0 .. NPAGE + 1 -> Entry] /\ w[0] = free_list
      /\ \A k \in 0 .. NPAGE : w[k + 1] = nx[w[k]]
  BY WalkIs
<1>2. \A e \in H \cup {free_list} : nx[e] \in H \cup {free_list} /\ Follows(H, e, nx[e])
  BY DEF Ring
<1> HIDE DEF w, nx
<1>3. \A k \in 0 .. NPAGE + 1 : w[k] \in H \cup {free_list}
  <2> DEFINE T == {k \in 0 .. NPAGE + 1 : w[k] \in H \cup {free_list}}
  <2>1. 0 \in T
    BY <1>0, <1>1
  <2>2. ASSUME NEW k \in 0 .. (NPAGE + 1) - 1, k \in T PROVE k + 1 \in T
    <3>1. k \in 0 .. NPAGE /\ k + 1 \in 0 .. NPAGE + 1
      BY <1>0
    <3> QED BY <1>1, <1>2, <2>2, <3>1
  <2> HIDE DEF T
  <2>3. \A k \in 0 .. NPAGE + 1 : k \in T
    BY <1>0, <2>1, <2>2, LoopInduction
  <2> QED BY <2>3 DEF T
<1>4. ASSUME NEW k \in 0 .. NPAGE, w[k + 1] # free_list
      PROVE  w[k] < w[k + 1] /\ \A h \in H : h <= w[k] \/ w[k + 1] <= h
  <2>1. k \in 0 .. NPAGE + 1 /\ w[k] \in H \cup {free_list}
    BY <1>0, <1>3
  <2>2. Follows(H, w[k], w[k + 1])
    BY <1>1, <1>2, <2>1
  <2> QED BY <1>4, <2>2 DEF Follows
<1>5. ASSUME NEW k \in 0 .. NPAGE, w[k + 1] = free_list
      PROVE  \A h \in H : h <= w[k]
  <2>1. k \in 0 .. NPAGE + 1 /\ w[k] \in H \cup {free_list}
    BY <1>0, <1>3
  <2>2. Follows(H, w[k], free_list)
    BY <1>1, <1>2, <1>5, <2>1
  <2>3. ~(free_list > w[k])
    BY <1>0, <2>1
  <2> QED BY <2>2, <2>3 DEF Follows
<1>6. WalkEnds(m)
  <2> SUFFICES ASSUME \A k \in 1 .. NPAGE + 1 : w[k] # free_list PROVE FALSE
      BY DEF WalkEnds, w
  <2> DEFINE T == {k \in 0 .. NPAGE + 1 : w[k] >= k - 1}
  <2>1. 0 \in T
    BY <1>0, <1>1
  <2>2. ASSUME NEW k \in 0 .. (NPAGE + 1) - 1, k \in T PROVE k + 1 \in T
    <3>1. k \in 0 .. NPAGE /\ k \in 0 .. NPAGE + 1 /\ k + 1 \in 1 .. NPAGE + 1
          /\ k + 1 \in 0 .. NPAGE + 1
      BY <1>0
    <3>2. w[k] < w[k + 1] /\ w[k] >= k - 1
      BY <1>4, <2>2, <3>1
    <3>3. w[k] \in Int /\ w[k + 1] \in Int
      BY <1>0, <1>3, <3>1
    <3>4. w[k + 1] >= (k + 1) - 1
      BY <3>2, <3>3
    <3> QED BY <3>1, <3>4
  <2> HIDE DEF T
  <2>3. \A k \in 0 .. NPAGE + 1 : k \in T
    BY <1>0, <2>1, <2>2, LoopInduction
  <2>4. NPAGE + 1 \in 0 .. NPAGE + 1 /\ NPAGE + 1 \in 1 .. NPAGE + 1
    BY <1>0
  <2>5. w[NPAGE + 1] >= (NPAGE + 1) - 1
    BY <2>3, <2>4 DEF T
  <2>6. w[NPAGE + 1] \in H
    BY <1>3, <2>4
  <2> QED BY <1>0, <2>5, <2>6
<1> DEFINE S == {k \in 1 .. NPAGE + 1 : w[k] = free_list}
           L == Length(m)
<1>7. /\ L \in 0 .. NPAGE /\ w[L + 1] = free_list
      /\ \A k \in 1 .. L : w[k] # free_list
  <2>1. S \subseteq Nat /\ S # {}
    BY <1>6 DEF WalkEnds, w
  <2>2. L = Min(S) - 1
    BY DEF Length, w
  <2>3. Min(S) \in S /\ \A k \in S : Min(S) <= k
    <3> HIDE DEF S
    <3> QED BY <2>1, MinIsLeast
  <2> HIDE DEF L
  <2>4. Min(S) \in 1 .. NPAGE + 1 /\ w[Min(S)] = free_list
    BY <2>3
  <2>5. L \in 0 .. NPAGE /\ L + 1 = Min(S)
    BY <1>0, <2>2, <2>4
  <2>6. ASSUME NEW k \in 1 .. L PROVE w[k] # free_list
    BY <1>0, <2>3, <2>5
  <2> QED BY <2>4, <2>5, <2>6
<1> HIDE DEF S, L
<1>8. \A k \in 1 .. L : w[k] \in H
  BY <1>0, <1>3, <1>7
<1>9. \A k \in 0 .. L : w[k] \in Int
  BY <1>0, <1>3, <1>7
<1>10. \A k \in 0 .. L - 1 : w[k] < w[k + 1] /\ \A h \in H : h <= w[k] \/ w[k + 1] <= h
  <2> SUFFICES ASSUME NEW k \in 0 .. L - 1
               PROVE  w[k] < w[k + 1] /\ \A h \in H : h <= w[k] \/ w[k + 1] <= h
      OBVIOUS
  <2>1. k \in 0 .. NPAGE /\ k + 1 \in 1 .. L
    BY <1>0, <1>7
  <2> QED BY <1>4, <1>7, <2>1
<1>11. \A k \in 0 .. L : \A j \in 0 .. k - 1 : w[j] < w[k]
  <2> DEFINE T == {k \in 0 .. L : \A j \in 0 .. k - 1 : w[j] < w[k]}
  <2>1. 0 \in T
    BY <1>7
  <2>2. ASSUME NEW k \in 0 .. L - 1, k \in T PROVE k + 1 \in T
    <3>1. k \in 0 .. L /\ k + 1 \in 0 .. L /\ w[k] < w[k + 1] /\ w[k] \in Int /\ w[k + 1] \in Int
      BY <1>7, <1>9, <1>10
    <3>2. ASSUME NEW j \in 0 .. (k + 1) - 1 PROVE w[j] < w[k + 1]
      <4>1. j = k \/ (j \in 0 .. k - 1 /\ w[j] < w[k] /\ w[j] \in Int)
        BY <1>7, <1>9, <2>2, <3>1
      <4> QED BY <3>1, <4>1
    <3> QED BY <3>1, <3>2
  <2> HIDE DEF T
  <2>3. \A k \in 0 .. L : k \in T
    BY <1>7, <2>1, <2>2, LoopInduction
  <2> QED BY <2>3 DEF T
<1>12. ASSUME NEW h \in H PROVE \E k \in 1 .. L : w[k] = h
  <2> DEFINE T == {k \in 0 .. L : w[k] < h \/ \E j \in 1 .. k : w[j] = h}
  <2>1. 0 \in T
    BY <1>0, <1>1, <1>7
  <2>2. ASSUME NEW k \in 0 .. L - 1, k \in T PROVE k + 1 \in T
    <3>1. k + 1 \in 0 .. L /\ k + 1 \in 1 .. k + 1 /\ k \in 0 .. L
          /\ \A j \in 1 .. k : j \in 1 .. k + 1
      BY <1>7
    <3>2. CASE w[k] < h
      <4>1. w[k + 1] <= h
        BY <1>0, <1>9, <1>10, <3>1, <3>2
      <4>2. w[k + 1] = h \/ w[k + 1] < h
        BY <1>0, <1>9, <3>1, <4>1
      <4> QED BY <3>1, <4>2
    <3>3. CASE \E j \in 1 .. k : w[j] = h
      BY <3>1, <3>3
    <3> QED BY <2>2, <3>2, <3>3
  <2> HIDE DEF T
  <2>3. \A k \in 0 .. L : k \in T
    BY <1>7, <2>1, <2>2, LoopInduction
  <2>4. L \in T
    BY <1>7, <2>3
  <2>5. h <= w[L]
    BY <1>5, <1>7
  <2>6. ~(w[L] < h)
    BY <1>0, <1>7, <1>9, <2>5
  <2> QED BY <2>4, <2>6 DEF T
<1>13. Listed(m) = H
  <2>1. Listed(m) = {w[k] : k \in 1 .. L}
    BY DEF Listed, w, L
  <2> QED BY <1>8, <1>12, <2>1
<1>14. \A j, k \in 1 .. L : j < k => w[j] < w[k]
  BY <1>7, <1>11
<1> QED BY <1>6, <1>7, <1>8, <1>13, <1>14 DEF w, L

(***************************************************************************)
(* The first page of a ring, in the order of the walk, that is in S is the *)
(* lowest one of S.                                                        *)
(***************************************************************************)
LEMMA FirstIsLowest ==
  ASSUME NEW m, m.next \in [Entry -> Entry], NEW H \in SUBSET Page,
         Ring(m.next, m.prev, H), NEW S \in SUBSET H, S # {}
  PROVE  FirstIn(m, S) \in S /\ \A h \in S : FirstIn(m, S) <= h
<1> DEFINE w == Walk(m)
           L == Length(m)
           K == {k \in 1 .. L : w[k] \in S}
<1>1. /\ L \in Nat /\ {w[k] : k \in 1 .. L} = H
      /\ \A j, k \in 1 .. L : j < k => w[j] < w[k]
  <2>1. /\ L \in 0 .. NPAGE /\ Listed(m) = H
        /\ \A j, k \in 1 .. L : j < k => w[j] < w[k]
    BY RingWalk
  <2>2. L \in Nat
    BY <2>1, FirstFitAssumption
  <2> QED BY <2>1, <2>2, Zenon DEF Listed
<1>2. FirstIn(m, S) = w[Min(K)]
  BY DEF FirstIn
<1> HIDE DEF w, L
<1>3. K \subseteq Nat /\ K # {}
  BY <1>1
<1>4. Min(K) \in K /\ \A k \in K : Min(K) <= k
  <2> HIDE DEF K
  <2> QED BY <1>3, MinIsLeast
<1>5. ASSUME NEW h \in S PROVE w[Min(K)] <= h
  <2>1. PICK k \in 1 .. L : w[k] = h
    BY <1>1
  <2>2. Min(K) <= k /\ Min(K) \in 1 .. L /\ w[Min(K)] \in S
    <3>1. k \in K
      BY <2>1
    <3>2. Min(K) <= k /\ Min(K) \in K
      <4> HIDE DEF K
      <4> QED BY <1>4, <3>1
    <3> HIDE DEF w
    <3> QED BY <3>2
  <2>3. Min(K) = k \/ Min(K) < k
    BY <2>2
  <2>4. w[Min(K)] \in Int /\ h \in Int
    <3>1. S \subseteq Int
      BY FirstFitAssumption DEF Page
    <3> QED BY <2>2, <3>1
  <2> QED BY <1>1, <2>1, <2>2, <2>3, <2>4
<1> QED BY <1>2, <1>4, <1>5

----------------------------------------------------------------------------
(* The operations on the list.                                             *)

(***************************************************************************)
(* __list_add with an entry x behind e keeps the ring when x belongs there.*)
(***************************************************************************)
LEMMA RingAdd ==
  ASSUME NEW next \in [Entry -> Entry], NEW prev \in [Entry -> Entry],
         NEW H \in SUBSET Page, Ring(next, prev, H),
         NEW e \in H \cup {free_list}, NEW x \in Page \ H,
         e < x, next[e] = free_list \/ x < next[e]
  PROVE  Ring([next EXCEPT ![e] = x, ![x] = next[e]],
              [prev EXCEPT ![next[e]] = x, ![x] = e], H \cup {x})
<1> DEFINE f  == next[e]
           nx == [next EXCEPT ![e] = x, ![x] = f]
           pv == [prev EXCEPT ![f] = x, ![x] = e]
           E == H \cup {free_list}
<1>0. /\ free_list = -1 /\ H \cup {x} \subseteq Int /\ \A h \in H \cup {x} : h >= 0
      /\ E \subseteq Entry /\ x \in Entry /\ x \notin E /\ E \subseteq Int
  BY FirstFitAssumption DEF Page, free_list, Entry
<1>1. \A d \in E : /\ next[d] \in E /\ prev[d] \in E
                   /\ prev[next[d]] = d /\ next[prev[d]] = d
                   /\ Follows(H, d, next[d])
  BY DEF Ring
<1>2. f \in E /\ prev[f] = e
  BY <1>1
<1>3. /\ nx[e] = x /\ nx[x] = f /\ pv[f] = x /\ pv[x] = e
      /\ \A d \in E : d # e => nx[d] = next[d]
      /\ \A d \in E : d # f => pv[d] = prev[d]
  BY <1>0, <1>2
<1>4. (f = free_list /\ \A h \in H : h <= e) \/ (x < f /\ \A h \in H : h <= e \/ f <= h)
  <2>1. Follows(H, e, f) /\ e \in Int /\ (f = free_list \/ x < f)
    BY <1>0, <1>1
  <2>2. ~(free_list > e)
    BY <1>0
  <2> HIDE DEF f
  <2> QED BY <1>0, <1>2, <2>1, <2>2 DEF Follows
<1> HIDE DEF nx, pv, f
<1>5. ASSUME NEW d \in E \cup {x}
      PROVE  /\ nx[d] \in E \cup {x} /\ pv[d] \in E \cup {x}
             /\ pv[nx[d]] = d /\ nx[pv[d]] = d
  <2>1. CASE d = x
    BY <1>2, <1>3, <2>1
  <2>2. CASE d = e
    <3>1. nx[d] = x /\ pv[nx[d]] = d
      BY <1>3, <2>2
    <3>2. CASE e = f
      BY <1>3, <2>2, <3>1, <3>2
    <3>3. CASE e # f
      <4>1. pv[d] = prev[d] /\ prev[d] \in E /\ next[prev[d]] = d
        BY <1>1, <1>3, <2>2, <3>3
      <4>2. prev[d] # e
        BY <2>2, <3>3, <4>1 DEF f
      <4> QED BY <1>3, <3>1, <4>1, <4>2
    <3> QED BY <3>2, <3>3
  <2>3. CASE d = f /\ d # e
    <3>1. pv[d] = x /\ nx[pv[d]] = d
      BY <1>3, <2>3
    <3>2. nx[d] = next[d] /\ next[d] \in E /\ prev[next[d]] = d
      BY <1>1, <1>2, <1>3, <2>3
    <3>3. next[d] # f
      BY <1>2, <2>3, <3>2
    <3> QED BY <1>3, <3>1, <3>2, <3>3
  <2>4. CASE d # x /\ d # e /\ d # f
    <3>1. /\ d \in E /\ nx[d] = next[d] /\ pv[d] = prev[d] /\ next[d] \in E /\ prev[d] \in E
          /\ prev[next[d]] = d /\ next[prev[d]] = d
      BY <1>1, <1>3, <2>4
    <3>2. next[d] # f /\ prev[d] # e
      BY <1>2, <2>4, <3>1 DEF f
    <3> QED BY <1>3, <3>1, <3>2
  <2> QED BY <2>1, <2>2, <2>3, <2>4
<1>6. ASSUME NEW d \in E \cup {x} PROVE Follows(H \cup {x}, d, nx[d])
  <2>1. CASE d = x
    <3>1. CASE f = free_list /\ \A h \in H : h <= e
      BY <1>0, <1>3, <2>1, <3>1 DEF Follows
    <3>2. CASE x < f /\ \A h \in H : h <= e \/ f <= h
      BY <1>0, <1>2, <1>3, <2>1, <3>2 DEF Follows
    <3> QED BY <1>4, <3>1, <3>2
  <2>2. CASE d = e
    <3>1. \A h \in H \cup {x} : h <= e \/ x <= h
      BY <1>0, <1>2, <1>4
    <3> QED BY <1>0, <1>3, <2>2, <3>1 DEF Follows
  <2>3. CASE d # x /\ d # e
    <3>1. /\ d \in E /\ nx[d] = next[d] /\ next[d] \in E /\ Follows(H, d, next[d])
          /\ d \in Int /\ e \in Int /\ next[d] \in Int
      BY <1>0, <1>1, <1>3, <2>3
    <3>2. CASE e < d
      <4>1. d \in H
        BY <1>0, <2>3, <3>1, <3>2
      <4>2. x <= d
        BY <1>0, <1>2, <1>4, <3>1, <3>2, <4>1
      <4> QED BY <3>1, <4>2 DEF Follows
    <3>3. CASE d < e
      <4>1. e \in H
        BY <1>0, <3>1, <3>3
      <4>2. next[d] > d /\ next[d] <= e /\ \A h \in H : h <= d \/ next[d] <= h
        BY <3>1, <3>3, <4>1 DEF Follows
      <4>3. next[d] <= x
        BY <1>0, <3>1, <4>2
      <4> QED BY <3>1, <4>2, <4>3 DEF Follows
    <3> QED BY <2>3, <3>1, <3>2, <3>3
  <2> QED BY <2>1, <2>2, <2>3
<1>7. (H \cup {x}) \cup {free_list} = E \cup {x}
  OBVIOUS
<1> HIDE DEF E
<1>8. Ring(nx, pv, H \cup {x})
  BY <1>5, <1>6, <1>7 DEF Ring
<1> QED BY <1>8 DEF nx, pv, f

(***************************************************************************)
(* list_del keeps the ring.                                                *)
(***************************************************************************)
LEMMA RingDel ==
  ASSUME NEW next \in [Entry -> Entry], NEW prev \in [Entry -> Entry],
         NEW H \in SUBSET Page, Ring(next, prev, H), NEW p \in H
  PROVE  /\ Ring([next EXCEPT ![prev[p]] = next[p]], [prev EXCEPT ![next[p]] = prev[p]], H \ {p})
         /\ prev[p] \in (H \ {p}) \cup {free_list} /\ next[p] \in (H \ {p}) \cup {free_list}
         /\ prev[p] < p /\ (next[p] = free_list \/ p < next[p])
         /\ \A h \in H : h <= prev[p] \/ p <= h
<1> DEFINE a == prev[p]
           b == next[p]
           nx == [next EXCEPT ![a] = b]
           pv == [prev EXCEPT ![b] = a]
           E == H \cup {free_list}
           E1 == (H \ {p}) \cup {free_list}
<1>0. /\ free_list = -1 /\ H \subseteq Int /\ \A h \in H : h >= 0
      /\ E \subseteq Entry /\ E \subseteq Int /\ p \in E /\ p # free_list
  BY FirstFitAssumption DEF Page, free_list, Entry
<1>1. \A d \in E : /\ next[d] \in E /\ prev[d] \in E
                   /\ prev[next[d]] = d /\ next[prev[d]] = d
                   /\ Follows(H, d, next[d])
  BY DEF Ring
<1>2. a \in E /\ b \in E /\ next[a] = p /\ prev[b] = p /\ Follows(H, a, p) /\ Follows(H, p, b)
  <2>1. a \in E /\ b \in E /\ next[a] = p /\ prev[b] = p /\ Follows(H, p, b)
    BY <1>0, <1>1
  <2> QED BY <1>1, <2>1
<1>3. /\ nx[a] = b /\ pv[b] = a
      /\ \A d \in E : d # a => nx[d] = next[d]
      /\ \A d \in E : d # b => pv[d] = prev[d]
  BY <1>0, <1>2
<1> HIDE DEF nx, pv, a, b
<1>4. a < p /\ \A h \in H : h <= a \/ p <= h
  BY <1>0, <1>2 DEF Follows
<1>5. (b = free_list /\ \A h \in H : h <= p) \/ (p < b /\ \A h \in H : h <= p \/ b <= h)
  BY <1>0, <1>2 DEF Follows
<1>6. a \in E1 /\ b \in E1
  BY <1>0, <1>2, <1>4, <1>5
<1>7. ASSUME NEW d \in E1
      PROVE  /\ nx[d] \in E1 /\ pv[d] \in E1 /\ pv[nx[d]] = d /\ nx[pv[d]] = d
             /\ Follows(H \ {p}, d, nx[d])
  <2>0. d \in E /\ d # p
    BY <1>0
  <2>1. nx[d] \in E1 /\ pv[nx[d]] = d
    <3>1. CASE d = a
      BY <1>3, <1>6, <3>1
    <3>2. CASE d # a
      <4>1. nx[d] = next[d] /\ next[d] \in E /\ prev[next[d]] = d
        BY <1>1, <1>3, <2>0, <3>2
      <4>2. next[d] # p /\ next[d] # b
        BY <1>2, <2>0, <3>2, <4>1 DEF a
      <4> QED BY <1>3, <4>1, <4>2
    <3> QED BY <3>1, <3>2
  <2>2. pv[d] \in E1 /\ nx[pv[d]] = d
    <3>1. CASE d = b
      BY <1>3, <1>6, <3>1
    <3>2. CASE d # b
      <4>1. pv[d] = prev[d] /\ prev[d] \in E /\ next[prev[d]] = d
        BY <1>1, <1>3, <2>0, <3>2
      <4>2. prev[d] # p /\ prev[d] # a
        BY <1>2, <2>0, <3>2, <4>1 DEF b
      <4> QED BY <1>3, <4>1, <4>2
    <3> QED BY <3>1, <3>2
  <2>3. Follows(H \ {p}, d, nx[d])
    <3>1. CASE d # a
      BY <1>1, <1>3, <2>0, <3>1 DEF Follows
    <3>2. CASE d = a
      <4>1. a \in Int /\ b \in Int /\ p \in Int
        BY <1>0, <1>2
      <4>2. CASE b = free_list /\ \A h \in H : h <= p
        BY <1>0, <1>3, <1>4, <3>2, <4>1, <4>2 DEF Follows
      <4>3. CASE p < b /\ \A h \in H : h <= p \/ b <= h
        BY <1>0, <1>3, <1>4, <3>2, <4>1, <4>3 DEF Follows
      <4> QED BY <1>5, <4>2, <4>3
    <3> QED BY <3>1, <3>2
  <2> QED BY <2>1, <2>2, <2>3
<1>8. Ring(nx, pv, H \ {p})
  BY <1>7 DEF Ring
<1> QED BY <1>4, <1>5, <1>6, <1>8 DEF nx, pv, a, b

----------------------------------------------------------------------------
(* The blocks.                                                             *)

(***************************************************************************)
(* Pages that are not free become a block of their own.                    *)
(***************************************************************************)
LEMMA TilesAdd ==
  ASSUME NEW size \in [Page -> Nat], NEW H \in SUBSET Page, NEW F \in SUBSET Page,
         Tiles(size, H, F), NEW base \in Page, NEW n \in 1 .. NPAGE - base,
         Run(base, n) \cap F = {}
  PROVE  /\ base \notin H /\ Run(base, n) \subseteq Page
         /\ Tiles([size EXCEPT ![base] = n], H \cup {base}, F \cup Run(base, n))
<1> DEFINE size1 == [size EXCEPT ![base] = n]
           R == Run(base, n)
<1>0. /\ NPAGE \in Nat /\ Page = 0 .. NPAGE - 1 /\ base \in Nat /\ n \in Nat
      /\ \A h \in H : h \in Nat /\ size[h] \in Nat
  BY FirstFitAssumption DEF Page
<1>1. /\ \A p \in H : size[p] > 0 /\ p + size[p] <= NPAGE
      /\ \A p, q \in H : p < q => p + size[p] <= q
      /\ \A x \in Page : x \in F <=> \E p \in H : p <= x /\ x < p + size[p]
  BY DEF Tiles
<1>2. \A x \in Int : x \in R <=> base <= x /\ x < base + n
  BY <1>0 DEF Run
<1>3. R \subseteq Page /\ base \in R
  BY <1>0 DEF Run
<1>4. \A h \in H : h \in F
  BY <1>0, <1>1
<1>5. base \notin H
  BY <1>3, <1>4
<1>6. size1[base] = n /\ \A h \in H : size1[h] = size[h]
  BY <1>5
<1> HIDE DEF size1, R
<1>7. ASSUME NEW p \in H PROVE p < base => p + size[p] <= base
  <2>1. base \notin F
    BY <1>3 DEF R
  <2> QED BY <1>0, <1>1, <2>1
<1>8. ASSUME NEW q \in H PROVE base < q => base + n <= q
  <2>1. q \notin R
    BY <1>4 DEF R
  <2> QED BY <1>0, <1>2, <2>1
<1>9. \A p \in H \cup {base} : size1[p] > 0 /\ p + size1[p] <= NPAGE
  BY <1>0, <1>1, <1>6
<1>10. \A p, q \in H \cup {base} : p < q => p + size1[p] <= q
  BY <1>0, <1>1, <1>6, <1>7, <1>8
<1>11. ASSUME NEW x \in Page
       PROVE  x \in F \cup R <=> \E p \in H \cup {base} : p <= x /\ x < p + size1[p]
  <2>1. x \in R <=> base <= x /\ x < base + size1[base]
    BY <1>0, <1>2, <1>6
  <2>2. x \in F <=> \E p \in H : p <= x /\ x < p + size1[p]
    BY <1>1, <1>6
  <2> QED BY <2>1, <2>2
<1>12. Tiles(size1, H \cup {base}, F \cup R)
  BY <1>9, <1>10, <1>11 DEF Tiles
<1> QED BY <1>3, <1>5, <1>12 DEF size1, R

(***************************************************************************)
(* Two blocks that touch become one; it touches what the upper one did.    *)
(***************************************************************************)
LEMMA TilesJoin ==
  ASSUME NEW size \in [Page -> Nat], NEW H \in SUBSET Page, NEW F \in SUBSET Page,
         Tiles(size, H, F), NEW p \in H, NEW q \in H, Meets(size, p, q),
         NEW size1 \in [Page -> Nat], size1[p] = size[p] + size[q],
         \A a \in H \ {p, q} : size1[a] = size[a]
  PROVE  Tiles(size1, H \ {q}, F)
<1>0. /\ NPAGE \in Nat /\ Page = 0 .. NPAGE - 1
      /\ \A h \in H : h \in Nat /\ size[h] \in Nat
  BY FirstFitAssumption DEF Page
<1>1. /\ \A a \in H : size[a] > 0 /\ a + size[a] <= NPAGE
      /\ \A a, b \in H : a < b => a + size[a] <= b
      /\ \A x \in Page : x \in F <=> \E a \in H : a <= x /\ x < a + size[a]
  BY DEF Tiles
<1>2. p < q /\ p + size[p] = q
  BY <1>0, <1>1 DEF Meets
<1>3. size1[p] = size[p] + size[q] /\ \A a \in H \ {p, q} : size1[a] = size[a]
  OBVIOUS
<1>4. p + size1[p] = q + size[q]
  BY <1>0, <1>2, <1>3
<1>5. ASSUME NEW a \in H \ {q} PROVE size1[a] > 0 /\ a + size1[a] <= NPAGE
  <2>1. CASE a = p
    <3>1. size1[p] > 0
      BY <1>0, <1>1, <1>3
    <3> QED BY <1>1, <1>4, <2>1, <3>1
  <2>2. CASE a # p
    BY <1>1, <1>3, <2>2
  <2> QED BY <2>1, <2>2
<1>6. ASSUME NEW a \in H \ {q}, NEW b \in H \ {q}, a < b PROVE a + size1[a] <= b
  <2>1. CASE a = p
    <3>1. q <= b
      BY <1>1, <1>2, <1>6, <2>1
    <3>2. q < b
      BY <1>0, <3>1
    <3> QED BY <1>1, <1>4, <2>1, <3>2
  <2>2. CASE a # p
    BY <1>1, <1>3, <1>6, <2>2
  <2> QED BY <2>1, <2>2
<1>7. ASSUME NEW x \in Page
      PROVE  x \in F <=> \E a \in H \ {q} : a <= x /\ x < a + size1[a]
  <2>1. p <= x /\ x < p + size1[p] <=> (p <= x /\ x < p + size[p]) \/ (q <= x /\ x < q + size[q])
    BY <1>0, <1>2, <1>4
  <2>2. \A a \in H \ {p, q} : a + size1[a] = a + size[a]
    BY <1>3
  <2>3. x \in F <=> \E a \in H : a <= x /\ x < a + size[a]
    BY <1>1
  <2>4. p \in H \ {q}
    BY <1>0, <1>2
  <2>5. ASSUME x \in F PROVE \E a \in H \ {q} : a <= x /\ x < a + size1[a]
    <3>1. PICK a \in H : a <= x /\ x < a + size[a]
      BY <2>3, <2>5
    <3>2. CASE a \in {p, q}
      BY <2>1, <2>4, <3>1, <3>2
    <3>3. CASE a \notin {p, q}
      BY <2>2, <3>1, <3>3
    <3> QED BY <3>2, <3>3
  <2>6. ASSUME NEW a \in H \ {q}, a <= x, x < a + size1[a] PROVE x \in F
    <3>1. CASE a = p
      BY <2>1, <2>3, <2>6, <3>1
    <3>2. CASE a # p
      BY <2>2, <2>3, <2>6, <3>2
    <3> QED BY <3>1, <3>2
  <2> QED BY <2>5, <2>6
<1>8. Tiles(size1, H \ {q}, F)
  BY <1>5, <1>6, <1>7 DEF Tiles
<1> QED BY <1>8

\* The blocks without the first n pages of the one at p, when it is longer.
IsCut(size, H, F, p, n) ==
    LET size1 == [size EXCEPT ![p + n] = size[p] - n]
        H1    == (H \ {p}) \cup {p + n}
    IN  /\ p + n \in Page \ H /\ \A h \in H : h <= p \/ p + n < h
        /\ size1 \in [Page -> Nat]
        /\ Tiles(size1, H1, F \ Run(p, n)) /\ Apart(size1, H1)

\* The blocks without the one at p, of n pages.
IsTaken(size, H, F, p, n) == Tiles(size, H \ {p}, F \ Run(p, n)) /\ Apart(size, H \ {p})

(***************************************************************************)
(* The first n pages of a block are taken off.                             *)
(***************************************************************************)
LEMMA TilesCut ==
  ASSUME NEW size \in [Page -> Nat], NEW H \in SUBSET Page, NEW F \in SUBSET Page,
         Tiles(size, H, F), Apart(size, H), NEW p \in H, NEW n \in Nat, n > 0
  PROVE  /\ n < size[p] => IsCut(size, H, F, p, n)
         /\ n = size[p] => IsTaken(size, H, F, p, n)
         /\ n <= size[p] => Run(p, n) \subseteq F
<1>0. /\ NPAGE \in Nat /\ Page = 0 .. NPAGE - 1
      /\ \A h \in H : h \in Nat /\ size[h] \in Nat /\ h \in Int
  BY FirstFitAssumption DEF Page
<1>1. /\ \A a \in H : size[a] > 0 /\ a + size[a] <= NPAGE
      /\ \A a, b \in H : a < b => a + size[a] <= b
      /\ \A x \in Page : x \in F <=> \E a \in H : a <= x /\ x < a + size[a]
  BY DEF Tiles
<1>2. \A x \in Int : x \in Run(p, n) <=> p <= x /\ x < p + n
  BY <1>0 DEF Run
<1>3. \A a, b \in H : a + size[a] # b
  BY DEF Apart
<1>4. ASSUME n <= size[p] PROVE Run(p, n) \subseteq F
  BY <1>0, <1>1, <1>4 DEF Run
<1>5. ASSUME NEW x \in Page, NEW a \in H, a # p, a <= x, x < a + size[a], n <= size[p]
      PROVE  x \notin Run(p, n)
  <2>1. a < p => a + size[a] <= p
    BY <1>1
  <2>2. p < a => p + size[p] <= a
    BY <1>1
  <2> QED BY <1>0, <1>2, <1>5, <2>1, <2>2
<1>6. ASSUME n = size[p] PROVE IsTaken(size, H, F, p, n)
  <2>1. ASSUME NEW x \in Page
        PROVE  x \in F \ Run(p, n) <=> \E a \in H \ {p} : a <= x /\ x < a + size[a]
    <3>1. x \in Run(p, n) <=> p <= x /\ x < p + size[p]
      BY <1>0, <1>2, <1>6
    <3>2. x \in F <=> \E a \in H : a <= x /\ x < a + size[a]
      BY <1>1
    <3>3. ASSUME NEW a \in H \ {p}, a <= x, x < a + size[a] PROVE x \notin Run(p, n)
      <4>1. n <= size[p] /\ a \in H /\ a # p
        BY <1>6
      <4> QED BY <1>5, <3>3, <4>1
    <3> QED BY <3>1, <3>2, <3>3
  <2> QED BY <1>1, <1>3, <2>1 DEF IsTaken, Tiles, Apart
<1>7. ASSUME n < size[p] PROVE IsCut(size, H, F, p, n)
  <2> DEFINE r == p + n
             size1 == [size EXCEPT ![r] = size[p] - n]
             H1 == (H \ {p}) \cup {r}
  <2>1. r \in Page /\ r \in Nat /\ p < r /\ r < p + size[p] /\ p \in Nat
    BY <1>0, <1>1, <1>7
  <2>2. \A h \in H : h <= p \/ p + size[p] <= h
    BY <1>0, <1>1
  <2>3. r \notin H /\ \A h \in H : h <= p \/ r < h
    BY <1>0, <2>1, <2>2
  <2>4. size1 \in [Page -> Nat] /\ size1[r] = size[p] - n /\ \A h \in H : size1[h] = size[h]
    BY <1>0, <1>7, <2>1, <2>3
  <2>5. r + size1[r] = p + size[p]
    BY <1>0, <2>4
  <2> HIDE DEF r, size1
  <2>6. ASSUME NEW a \in H, a # p
        PROVE  (a < r => a + size[a] <= p /\ a < p) /\ (r < a => p + size[p] <= a)
    BY <1>0, <1>1, <2>1, <2>2, <2>6
  <2>7. ASSUME NEW a \in H1 PROVE size1[a] > 0 /\ a + size1[a] <= NPAGE
    <3>1. CASE a = r
      <4>1. size1[r] > 0
        BY <1>0, <1>7, <2>4
      <4> QED BY <1>1, <2>5, <3>1, <4>1
    <3>2. CASE a # r
      BY <1>1, <2>4, <3>2
    <3> QED BY <3>1, <3>2
  <2>8. ASSUME NEW a \in H1, NEW b \in H1, a < b PROVE a + size1[a] <= b
    <3>1. CASE a = r
      <4>1. b \in H /\ b # p
        BY <2>1, <2>8, <3>1
      <4> QED BY <2>5, <2>6, <2>8, <3>1, <4>1
    <3>2. CASE a # r /\ b = r
      <4>1. a \in H /\ a # p
        BY <3>2
      <4>2. a + size[a] <= p /\ size1[a] = size[a] /\ a \in Nat /\ size[a] \in Nat
        BY <1>0, <2>4, <2>6, <2>8, <3>2, <4>1
      <4> QED BY <2>1, <3>2, <4>2
    <3>3. CASE a # r /\ b # r
      BY <1>1, <2>4, <2>8, <3>3
    <3> QED BY <3>1, <3>2, <3>3
  <2>9. ASSUME NEW x \in Page
        PROVE  x \in F \ Run(p, n) <=> \E a \in H1 : a <= x /\ x < a + size1[a]
    <3>1. x \in F <=> \E a \in H : a <= x /\ x < a + size[a]
      BY <1>1
    <3>2. x \in Run(p, n) <=> p <= x /\ x < r
      BY <1>0, <1>2 DEF r
    <3>3. ASSUME x \in F, x \notin Run(p, n)
          PROVE  \E a \in H1 : a <= x /\ x < a + size1[a]
      <4>1. PICK a \in H : a <= x /\ x < a + size[a]
        BY <3>1, <3>3
      <4>2. CASE a = p
        <5>1. r <= x /\ x < r + size1[r]
          BY <1>0, <2>1, <2>5, <3>2, <3>3, <4>1, <4>2
        <5> QED BY <5>1
      <4>3. CASE a # p
        BY <2>4, <4>1, <4>3
      <4> QED BY <4>2, <4>3
    <3>4. ASSUME NEW a \in H1, a <= x, x < a + size1[a] PROVE x \in F /\ x \notin Run(p, n)
      <4>1. CASE a = r
        <5>1. r <= x /\ x < p + size[p]
          BY <2>5, <3>4, <4>1
        <5>2. p <= x /\ ~(x < r)
          BY <1>0, <2>1, <5>1
        <5> QED BY <3>1, <3>2, <5>1, <5>2
      <4>2. CASE a # r
        <5>1. a \in H /\ a # p /\ x < a + size[a]
          BY <2>4, <3>4, <4>2
        <5>2. n <= size[p]
          BY <1>0, <1>7
        <5> QED BY <1>5, <3>1, <3>4, <5>1, <5>2
      <4> QED BY <4>1, <4>2
    <3> QED BY <3>3, <3>4
  <2>10. Tiles(size1, H1, F \ Run(p, n))
    BY <2>7, <2>8, <2>9 DEF Tiles
  <2>11. Apart(size1, H1)
    <3> SUFFICES ASSUME NEW a \in H1, NEW b \in H1, a + size1[a] = b PROVE FALSE
        BY DEF Apart
    <3>1. CASE a # r /\ b # r
      BY <1>3, <2>4, <3>1
    <3>2. CASE a = r /\ b # r
      BY <1>3, <2>5, <3>2
    <3>3. CASE a # r /\ b = r
      <4>1. a \in H /\ a # p /\ a \in Nat /\ size1[a] = size[a] /\ size[a] \in Nat /\ size[a] > 0
        BY <1>0, <1>1, <2>4, <3>3
      <4>2. a < r
        BY <2>1, <3>3, <4>1
      <4>3. a + size[a] <= p
        BY <2>6, <4>1, <4>2
      <4> QED BY <2>1, <3>3, <4>1, <4>3
    <3>4. CASE a = r /\ b = r
      BY <1>0, <1>7, <2>1, <2>4, <3>4
    <3> QED BY <3>1, <3>2, <3>3, <3>4
  <2> QED BY <2>1, <2>3, <2>4, <2>10, <2>11, Zenon DEF IsCut, r, size1
<1> QED BY <1>4, <1>6, <1>7

----------------------------------------------------------------------------
(* The steps of the allocator.                                             *)

\* The list and the blocks of m, which make up the set F.
Sound(m, F) ==
    /\ m \in Mem
    /\ Ring(m.next, m.prev, m.PG_property)
    /\ Tiles(m.property, m.PG_property, F)

(***************************************************************************)
(* What list_del does to the fields.                                       *)
(***************************************************************************)
LEMMA DelFields ==
  ASSUME NEW m \in Mem, NEW p \in Entry, NEW d, d = list_del(m, p)
  PROVE  /\ d \in Mem /\ d.property = m.property /\ d.PG_property = m.PG_property
         /\ d.next = [m.next EXCEPT ![m.prev[p]] = m.next[p]]
         /\ d.prev = [m.prev EXCEPT ![m.next[p]] = m.prev[p]]
<1>1. m.next[p] \in Entry /\ m.prev[p] \in Entry
  BY DEF Mem
<1> QED BY <1>1 DEF Mem, list_del

\* In d the block at q of m is a part of the one at p.
IsJoin(d, m, p, q) ==
    /\ d.PG_property = m.PG_property \ {q} /\ p # q
    /\ p + d.property[p] = q + m.property[q]
    /\ \A a \in d.PG_property : a # p => d.property[a] = m.property[a]

(***************************************************************************)
(* Joining two blocks that touch.                                          *)
(***************************************************************************)
LEMMA JoinStep ==
  ASSUME NEW F \in SUBSET Page, NEW m, Sound(m, F),
         NEW p \in m.PG_property, NEW q \in m.PG_property, Meets(m.property, p, q)
  PROVE  Sound(Joined(m, p, q), F) /\ IsJoin(Joined(m, p, q), m, p, q)
<1> DEFINE H  == m.PG_property
           d == Joined(m, p, q)
           c == [m EXCEPT !.property[p] = @ + m.property[q], !.PG_property = @ \ {q}]
           size1 == [m.property EXCEPT ![p] = @ + m.property[q]]
<1>1. /\ m \in Mem /\ Ring(m.next, m.prev, H) /\ Tiles(m.property, H, F)
      /\ H \in SUBSET Page /\ m.property \in [Page -> Nat]
      /\ m.next \in [Entry -> Entry] /\ m.prev \in [Entry -> Entry]
  BY DEF Sound, Mem
<1>2. /\ Tiles(size1, H \ {q}, F) /\ p # q /\ size1 \in [Page -> Nat]
      /\ p + size1[p] = q + m.property[q]
      /\ \A a \in H \ {p, q} : size1[a] = m.property[a]
  <2> DEFINE size == m.property
  <2>1. /\ size1 \in [Page -> Nat] /\ size1[p] = size[p] + size[q]
        /\ \A a \in H \ {p, q} : size1[a] = size[a]
    BY <1>1
  <2>2. Tiles(size, H, F) /\ H \in SUBSET Page /\ size \in [Page -> Nat]
        /\ p \in H /\ q \in H /\ Meets(size, p, q)
    BY <1>1
  <2> HIDE DEF size, size1, H
  <2>3. Tiles(size1, H \ {q}, F)
    BY <2>1, <2>2, TilesJoin
  <2>4. p # q /\ p + size1[p] = q + size[q]
    <3>1. p \in Nat /\ q \in Nat /\ size[p] \in Nat /\ size[q] \in Nat /\ size[p] > 0
      BY <2>2, FirstFitAssumption DEF Tiles, Page
    <3> QED BY <2>1, <2>2, <3>1 DEF Meets
  <2> QED BY <2>1, <2>3, <2>4 DEF size
<1>3. /\ c \in Mem /\ c.property = size1 /\ c.PG_property = H \ {q}
      /\ c.next = m.next /\ c.prev = m.prev
  BY <1>1, <1>2 DEF Mem
<1>4. d = list_del(c, q) /\ q \in Entry
  BY <1>1 DEF Joined, Entry
<1> HIDE DEF c, size1, d
<1>5. /\ d \in Mem /\ d.property = size1 /\ d.PG_property = H \ {q}
      /\ d.next = [m.next EXCEPT ![m.prev[q]] = m.next[q]]
      /\ d.prev = [m.prev EXCEPT ![m.next[q]] = m.prev[q]]
  BY <1>3, <1>4, DelFields
<1>6. Ring(d.next, d.prev, H \ {q})
  <2>1. Ring([m.next EXCEPT ![m.prev[q]] = m.next[q]],
             [m.prev EXCEPT ![m.next[q]] = m.prev[q]], H \ {q})
    BY <1>1, RingDel
  <2> QED BY <1>5, <2>1
<1>7. Sound(d, F)
  BY <1>2, <1>5, <1>6 DEF Sound
<1>8. p + d.property[p] = q + m.property[q]
  BY <1>2, <1>5
<1>9. \A a \in d.PG_property : a # p => d.property[a] = m.property[a]
  BY <1>2, <1>5
<1>10. IsJoin(d, m, p, q)
  BY <1>2, <1>5, <1>8, <1>9 DEF IsJoin
<1> QED BY <1>7, <1>10 DEF d

(***************************************************************************)
(* The end of default_free_pages: when base alone may touch other blocks,  *)
(* looking at its two neighbours in the list is enough.                    *)
(***************************************************************************)
LEMMA CoalescedApart ==
  ASSUME NEW F \in SUBSET Page, NEW m, Sound(m, F), NEW base \in m.PG_property,
         \A a, b \in m.PG_property \ {base} : a + m.property[a] # b
  PROVE  LET d == Coalesced(m, base)
         IN  Sound(d, F) /\ Apart(d.property, d.PG_property)
<1> DEFINE below == m.prev[base]
           low == IF Touch(m, below, base) THEN below ELSE base
           m1 == IF low # base THEN Joined(m, low, base) ELSE m
           above == m1.next[low]
           d == IF Touch(m1, low, above) THEN Joined(m1, low, above) ELSE m1
<1>0. \A m2 : Sound(m2, F) =>
         /\ m2.next \in [Entry -> Entry] /\ m2.prev \in [Entry -> Entry]
         /\ m2.property \in [Page -> Nat]
         /\ m2.PG_property \in SUBSET Page /\ m2.PG_property \subseteq Nat
         /\ \A a \in m2.PG_property : m2.property[a] \in Nat /\ m2.property[a] > 0
         /\ \A a, b \in m2.PG_property : a < b => a + m2.property[a] <= b
  BY FirstFitAssumption DEF Sound, Mem, Tiles, Page
<1>1. /\ below \in (m.PG_property \ {base}) \cup {free_list} /\ below < base
      /\ \A h \in m.PG_property : h <= below \/ base <= h
  <2>1. Ring(m.next, m.prev, m.PG_property)
    BY DEF Sound
  <2> QED BY <1>0, <2>1, RingDel
<1>2. /\ Sound(m1, F) /\ low \in m1.PG_property
      /\ \A a, b \in m1.PG_property : a # low => a + m1.property[a] # b
  <2>1. CASE Touch(m, below, base)
    <3>1. low = below /\ below \in m.PG_property /\ below # base 
          /\ Meets(m.property, below, base)
      BY <1>1, <2>1 DEF Touch, Meets
    <3>2. m1 = Joined(m, below, base)
      BY <3>1
    <3> HIDE DEF m1, low, below
    <3>3. /\ Sound(m1, F) /\ m1.PG_property = m.PG_property \ {base}
          /\ \A a \in m1.PG_property : a # below => m1.property[a] = m.property[a]
      <4>1. Sound(m1, F)
        BY <3>1, <3>2, JoinStep
      <4>2. IsJoin(m1, m, below, base)
        BY <3>1, <3>2, JoinStep
      <4> QED BY <4>1, <4>2 DEF IsJoin
    <3> QED BY <3>1, <3>3
  <2>2. CASE ~Touch(m, below, base)
    <3>1. low = base /\ m1 = m
      BY <2>2
    <3>2. ASSUME NEW a \in m.PG_property, a # base PROVE a + m.property[a] # base
      <4> HIDE DEF below
      <4>0. a \in Nat /\ m.property[a] \in Nat /\ m.property[a] > 0 /\ base \in Nat
        BY <1>0
      <4>1. CASE a = below
        <5>1. below # free_list /\ base # free_list
          BY <4>0, <4>1 DEF free_list
        <5> QED BY <2>2, <4>1, <5>1 DEF Touch
      <4>2. CASE a # below
        <5>1. a + m.property[a] = base => a < base
          BY <4>0
        <5>2. a < base => a <= below
          BY <1>1, <4>0
        <5>3. below \in Int
          BY <1>0, <1>1 DEF free_list
        <5>4. a < base => a < below /\ below \in m.PG_property
          BY <1>1, <4>0, <4>2, <5>2, <5>3 DEF free_list
        <5>5. a < base => a + m.property[a] <= below
          BY <1>0, <5>4
        <5> QED BY <1>1, <4>0, <5>1, <5>3, <5>5
      <4> QED BY <4>1, <4>2
    <3> QED BY <3>1, <3>2
  <2> QED BY <2>1, <2>2
<1> HIDE DEF m1, low
<1>3. /\ above \in (m1.PG_property \ {low}) \cup {free_list}
      /\ \/ above = free_list /\ \A h \in m1.PG_property : h <= low
         \/ low < above /\ \A h \in m1.PG_property : h <= low \/ above <= h
  <2>1. Ring(m1.next, m1.prev, m1.PG_property)
    BY <1>2 DEF Sound
  <2>2. above \in (m1.PG_property \ {low}) \cup {free_list}
    BY <1>0, <1>2, <2>1, RingDel
  <2>3. Follows(m1.PG_property, low, above)
    BY <1>2, <2>1 DEF Ring
  <2> HIDE DEF above
  <2>4. low \in Nat
    BY <1>0, <1>2
  <2> QED BY <2>2, <2>3, <2>4 DEF Follows, free_list
<1>4. Sound(d, F) /\ Apart(d.property, d.PG_property)
  <2>1. CASE Touch(m1, low, above)
    <3>1. above \in m1.PG_property /\ above # low /\ Meets(m1.property, low, above)
      BY <1>3, <2>1 DEF Touch, Meets
    <3>2. d = Joined(m1, low, above)
      BY <2>1
    <3> HIDE DEF d, above
    <3>3. /\ Sound(d, F) /\ d.PG_property = m1.PG_property \ {above}
          /\ low + d.property[low] = above + m1.property[above]
          /\ \A a \in d.PG_property : a # low => d.property[a] = m1.property[a]
      <4>1. Sound(d, F)
        BY <1>2, <3>1, <3>2, JoinStep
      <4>2. IsJoin(d, m1, low, above)
        BY <1>2, <3>1, <3>2, JoinStep
      <4> QED BY <4>1, <4>2 DEF IsJoin
    <3>4. ASSUME NEW a \in d.PG_property, NEW b \in d.PG_property PROVE a + d.property[a] # b
      <4>1. CASE a = low
        BY <1>2, <3>1, <3>3, <4>1
      <4>2. CASE a # low
        BY <1>2, <3>3, <4>2
      <4> QED BY <4>1, <4>2
    <3> QED BY <3>3, <3>4 DEF Apart
  <2>2. CASE ~Touch(m1, low, above)
    <3>1. d = m1
      BY <2>2
    <3> HIDE DEF above, d
    <3>2. ASSUME NEW b \in m1.PG_property PROVE low + m1.property[low] # b
      <4>0. low \in Nat /\ m1.property[low] \in Nat /\ m1.property[low] > 0 /\ b \in Nat
        BY <1>0, <1>2
      <4>1. CASE above = free_list /\ \A h \in m1.PG_property : h <= low
        BY <4>0, <4>1
      <4>2. CASE above \in m1.PG_property /\ low < above
                 /\ \A h \in m1.PG_property : h <= low \/ above <= h
        <5>1. low + m1.property[low] <= above /\ above \in Nat
          BY <1>0, <1>2, <4>2
        <5>2. low + m1.property[low] # above
          <6>1. low # free_list /\ above # free_list
            BY <4>0, <5>1 DEF free_list
          <6> QED BY <2>2, <6>1 DEF Touch
        <5>3. b <= low \/ above <= b
          BY <4>2
        <5> QED BY <4>0, <5>1, <5>2, <5>3
      <4>3. low < above => above # free_list
        BY <4>0 DEF free_list
      <4> QED BY <1>3, <4>1, <4>2, <4>3
    <3> QED BY <1>2, <3>1, <3>2 DEF Apart
  <2> QED BY <2>1, <2>2
<1>5. Coalesced(m, base) = d
  BY Zenon DEF Coalesced, m1, low
<1> QED BY <1>4, <1>5

\* In d the pages of m have one more block, n pages from base on.
IsInsert(d, m, base, n) ==
    /\ d.PG_property = m.PG_property \cup {base} /\ base \notin m.PG_property
    /\ \A a \in m.PG_property : d.property[a] = m.property[a]

(***************************************************************************)
(* The insertion loop of default_free_pages, when the highest page is free:*)
(* base takes its place in the list in front of the first page above it.   *)
(***************************************************************************)
LEMMA InsertStep ==
  ASSUME NEW F \in SUBSET Page, NEW m, Sound(m, F), NPAGE - 1 \in F,
         NEW base \in Page, NEW n \in 1 .. NPAGE - base, Run(base, n) \cap F = {}
  PROVE  LET d == Inserted([m EXCEPT !.property[base] = n,
                                     !.PG_property = @ \cup {base}], base)
         IN  Sound(d, F \cup Run(base, n)) /\ IsInsert(d, m, base, n)
<1> DEFINE H == m.PG_property
           size == m.property
           size1 == [size EXCEPT ![base] = n]
           m0 == [m EXCEPT !.property[base] = n, !.PG_property = @ \cup {base}]
           above == {p \in Listed(m0) : base < p}
           q == FirstIn(m0, above)
           e == m.prev[q]
           d == Inserted(m0, base)
<1>1. /\ m \in Mem /\ Ring(m.next, m.prev, H) /\ Tiles(size, H, F)
      /\ H \in SUBSET Page /\ size \in [Page -> Nat]
      /\ m.next \in [Entry -> Entry] /\ m.prev \in [Entry -> Entry]
  BY DEF Sound, Mem
<1>2. base \notin H /\ Tiles(size1, H \cup {base}, F \cup Run(base, n))
  <2> HIDE DEF H, size
  <2>1. base \notin H
    BY <1>1, TilesAdd
  <2>2. Tiles(size1, H \cup {base}, F \cup Run(base, n))
    BY <1>1, TilesAdd
  <2> QED BY <2>1, <2>2
<1>3. /\ base \in Nat /\ n \in Nat /\ NPAGE \in Nat /\ base <= NPAGE - 1 /\ NPAGE - 1 \in Page
      /\ free_list = -1 /\ \A h \in H : h \in Nat /\ h \in Int /\ h # base /\ h # free_list
      /\ base \in Entry /\ H \cup {free_list} \subseteq Entry
  BY <1>1, <1>2, FirstFitAssumption DEF Page, free_list, Entry
<1>4. /\ m0 \in Mem /\ m0.next = m.next /\ m0.prev = m.prev
      /\ m0.property = size1 /\ m0.PG_property = H \cup {base}
  BY <1>1, <1>3 DEF Mem
<1> HIDE DEF m0, d
<1>5. Listed(m0) = H
  BY <1>1, <1>4, RingWalk
<1>6. above \in SUBSET H /\ above # {}
  <2>1. PICK p \in H : p <= NPAGE - 1 /\ NPAGE - 1 < p + size[p]
    BY <1>1, <1>3 DEF Tiles
  <2>2. p < base => p + size1[p] <= base
    BY <1>2 DEF Tiles
  <2>3. size1[p] = size[p] /\ size[p] \in Nat
    BY <1>1, <1>3
  <2>4. base < p
    BY <1>3, <2>1, <2>2, <2>3
  <2> QED BY <1>5, <2>4
<1>7. q \in H /\ base < q /\ \A h \in H : base < h => q <= h
  <2>1. q \in above /\ \A h \in above : q <= h
    <3> HIDE DEF above
    <3> QED BY <1>1, <1>4, <1>6, FirstIsLowest
  <2> QED BY <1>5, <2>1
<1>8. d = __list_add(m0, base, e, q)
  <2>1. Listed(m0) # {}
    BY <1>5, <1>6
  <2>2. d = list_add_before(m0, q, base)
    BY <1>6, <2>1, Zenon DEF d, Inserted
  <2> QED BY <1>4, <2>2 DEF list_add_before
<1> HIDE DEF above, q
<1>9. e \in H \cup {free_list} /\ m.next[e] = q /\ e < q
  <2>1. e \in H \cup {free_list} /\ m.next[e] = q
    BY <1>1, <1>7 DEF Ring
  <2>2. e < q
    BY <1>1, <1>7, RingDel
  <2> QED BY <2>1, <2>2
<1> HIDE DEF e
<1>10. e < base /\ e \in Entry /\ q \in Entry /\ base \in Page \ H
  <2>1. e \in H => ~(base < e)
    BY <1>3, <1>7, <1>9
  <2> QED BY <1>2, <1>3, <1>7, <1>9, <2>1
<1>11. /\ d \in Mem /\ d.property = size1 /\ d.PG_property = H \cup {base}
       /\ d.next = [m.next EXCEPT ![e] = base, ![base] = q]
       /\ d.prev = [m.prev EXCEPT ![q] = base, ![base] = e]
  <2>1. /\ d \in Mem /\ d.property = m0.property /\ d.PG_property = m0.PG_property
        /\ d.next = [m0.next EXCEPT ![e] = base, ![base] = q]
        /\ d.prev = [m0.prev EXCEPT ![q] = base, ![base] = e]
    BY <1>3, <1>4, <1>8, <1>10 DEF Mem, __list_add
  <2> QED BY <1>4, <2>1
<1>12. Ring(d.next, d.prev, H \cup {base})
  <2>1. Ring([m.next EXCEPT ![e] = base, ![base] = m.next[e]],
             [m.prev EXCEPT ![m.next[e]] = base, ![base] = e], H \cup {base})
    BY <1>1, <1>7, <1>9, <1>10, RingAdd
  <2> QED BY <1>9, <1>11, <2>1
<1>13. Sound(d, F \cup Run(base, n))
  BY <1>2, <1>11, <1>12 DEF Sound
<1>14. IsInsert(d, m, base, n)
  <2>1. \A a \in H : size1[a] = size[a]
    BY <1>1, <1>3
  <2> QED BY <1>2, <1>11, <2>1 DEF IsInsert
<1> QED BY <1>13, <1>14 DEF d, m0

(***************************************************************************)
(* A set of pages has a size, and so has what n pages of a run leave of it.*)
(***************************************************************************)
LEMMA RunSize ==
  ASSUME NEW F \in SUBSET Page, NEW p \in Page, NEW n \in Nat, Run(p, n) \subseteq F
  PROVE  /\ IsFiniteSet(F) /\ Cardinality(F) \in Nat
         /\ Cardinality(F \ Run(p, n)) = Cardinality(F) - n
<1> DEFINE R == Run(p, n)
<1>1. NPAGE \in Nat /\ p \in Int /\ p + n - 1 \in Int
  BY FirstFitAssumption DEF Page
<1>2. IsFiniteSet(Page)
  BY <1>1, FS_Interval DEF Page
<1>3. IsFiniteSet(F) /\ Cardinality(F) \in Nat
  BY <1>2, FS_Subset, FS_CardinalityType
<1>4. Cardinality(R) = n
  <2>1. Cardinality(p .. p + n - 1) = IF p > p + n - 1 THEN 0 ELSE (p + n - 1) - p + 1
    BY <1>1, FS_Interval
  <2> QED BY <1>1, <2>1 DEF Run
<1>5. F \cap R = R /\ IsFiniteSet(R)
  BY <1>3, FS_Subset
<1> HIDE DEF R
<1>6. Cardinality(F \ R) = Cardinality(F) - Cardinality(F \cap R)
  BY <1>3, FS_Difference
<1> QED BY <1>3, <1>4, <1>5, <1>6 DEF R

(***************************************************************************)
(* The step of free_pages: base touches at most its neighbours, so the     *)
(* blocks are apart again after it.                                        *)
(***************************************************************************)
LEMMA FreeStep ==
  ASSUME FitInv, free_pages
  PROVE  FitInv'
<1> DEFINE F == Page \ owned
<1>0. /\ mem \in Mem /\ owned \subseteq Page /\ nr_free = Cardinality(F)
      /\ Sound(mem, F) /\ Apart(mem.property, mem.PG_property) /\ NPAGE - 1 \in F
      /\ F \in SUBSET Page
  BY FirstFitAssumption DEF FitInv, Sound, Page
<1>a. PICK base \in Page : \E n \in 1 .. NPAGE - base :
          Run(base, n) \subseteq owned /\ default_free_pages(base, n)
  BY DEF free_pages
<1>1. PICK n \in 1 .. NPAGE - base :
          Run(base, n) \subseteq owned /\ default_free_pages(base, n)
  BY <1>a
<1> DEFINE R == Run(base, n)
           m0 == [mem EXCEPT !.property[base] = n, !.PG_property = @ \cup {base}]
           c == Inserted(m0, base)
<1>2. mem' = Coalesced(c, base) /\ nr_free' = nr_free + n /\ owned' = owned \ R
  BY <1>1 DEF default_free_pages
<1>3. R \cap F = {}
  BY <1>1
<1>4. Sound(c, F \cup R) /\ IsInsert(c, mem, base, n)
  <2> HIDE DEF F
  <2>1. Sound(c, F \cup R)
    BY <1>0, <1>3, InsertStep
  <2>2. IsInsert(c, mem, base, n)
    BY <1>0, <1>3, InsertStep
  <2> QED BY <2>1, <2>2
<1> HIDE DEF c
<1>5. Page \ owned' = F \cup R /\ F \cup R \in SUBSET Page /\ owned' \subseteq Page /\ n \in Nat
  <2>1. n \in Nat
    BY FirstFitAssumption DEF Page
  <2> HIDE DEF R
  <2>2. R \subseteq owned
    BY <1>1 DEF R
  <2> QED BY <1>0, <1>2, <2>1, <2>2
<1>6. Sound(mem', F \cup R) /\ Apart(mem'.property, mem'.PG_property)
  <2>1. base \in c.PG_property /\ \A a, b \in c.PG_property \ {base} : a + c.property[a] # b
    BY <1>0, <1>4 DEF IsInsert, Apart
  <2> HIDE DEF F, R
  <2> QED BY <1>2, <1>4, <1>5, <2>1, CoalescedApart
<1>7. nr_free' = Cardinality(F \cup R)
  <2> HIDE DEF F, R
  <2> DEFINE G == F \cup R
  <2>1. R \subseteq G /\ G \ R = F
    BY <1>3
  <2> HIDE DEF G
  <2>2. Cardinality(G) \in Nat /\ Cardinality(G \ R) = Cardinality(G) - n
    BY <1>5, <2>1, RunSize DEF G, R
  <2>3. nr_free = Cardinality(G) - n
    BY <1>0, <2>1, <2>2
  <2> QED BY <1>2, <1>5, <2>2, <2>3 DEF G
<1>8. NPAGE - 1 \notin owned'
  BY <1>0, <1>2
<1> QED BY <1>5, <1>6, <1>7, <1>8 DEF FitInv, Sound

(***************************************************************************)
(* The step of alloc_pages: the lowest block that is large enough loses    *)
(* its first pages, and what is left of it has its place in the list.      *)
(***************************************************************************)
LEMMA AllocStep ==
  ASSUME FitInv, alloc_pages, NPAGE - 1 \notin owned'
  PROVE  FitInv'
<1> DEFINE F == Page \ owned
           H == mem.PG_property
           size == mem.property
<1>0. /\ mem \in Mem /\ owned \subseteq Page /\ nr_free = Cardinality(F)
      /\ Ring(mem.next, mem.prev, H) /\ Tiles(size, H, F) /\ Apart(size, H)
      /\ F \in SUBSET Page /\ H \in SUBSET Page /\ size \in [Page -> Nat]
      /\ mem.next \in [Entry -> Entry] /\ mem.prev \in [Entry -> Entry]
  BY DEF FitInv, Mem
<1>1. PICK n \in 1 .. NPAGE : default_alloc_pages(n)
  BY DEF alloc_pages
<1> DEFINE fits == {h \in Listed(mem) : size[h] >= n}
           page == FirstIn(mem, fits)
           R == Run(page, n)
           a == mem.prev[page]
           b == mem.next[page]
           dl == list_del(mem, page)
           cut == [dl EXCEPT !.PG_property = @ \ {page}]
           p == page + n
           c2 == [cut EXCEPT !.property[p] = Rest(mem, page, n), !.PG_property = @ \cup {p}]
<1>2. /\ fits # {} /\ nr_free' = nr_free - n /\ owned' = owned \cup R
      /\ mem' = IF size[page] > n THEN list_add(c2, a, p) ELSE cut
  BY <1>1, Zenon DEF default_alloc_pages
<1>3. Listed(mem) = H
  BY <1>0, RingWalk
<1>4. page \in H /\ size[page] >= n
  <2>1. fits \in SUBSET H
    BY <1>3
  <2>2. page \in fits
    <3> HIDE DEF fits
    <3> QED BY <1>0, <1>2, <2>1, FirstIsLowest
  <2> QED BY <1>3, <2>2
<1> HIDE DEF page, fits
<1>5. n \in Nat /\ n > 0 /\ page \in Page /\ page \in Nat /\ size[page] \in Nat /\ page \in Entry
  BY <1>0, <1>4, FirstFitAssumption DEF Page, Entry
<1>6. /\ dl \in Mem /\ dl.property = size /\ dl.PG_property = H
      /\ dl.next = [mem.next EXCEPT ![a] = b] /\ dl.prev = [mem.prev EXCEPT ![b] = a]
  <2>1. a \in Entry /\ b \in Entry
    BY <1>0, <1>5
  <2> QED BY <1>0, <1>5, <2>1 DEF Mem, list_del
<1>7. Ring([mem.next EXCEPT ![a] = b], [mem.prev EXCEPT ![b] = a], H \ {page})
  BY <1>0, <1>4, RingDel
<1>8. /\ a \in (H \ {page}) \cup {free_list} /\ b \in (H \ {page}) \cup {free_list}
      /\ a < page /\ (b = free_list \/ page < b)
  <2>1. a \in (H \ {page}) \cup {free_list} /\ b \in (H \ {page}) \cup {free_list}
    BY <1>0, <1>4, RingDel
  <2>2. a < page
    BY <1>0, <1>4, RingDel
  <2>3. b = free_list \/ page < b
    BY <1>0, <1>4, RingDel
  <2> QED BY <2>1, <2>2, <2>3
<1> HIDE DEF dl
<1>9. /\ cut \in Mem /\ cut.property = size /\ cut.PG_property = H \ {page}
      /\ cut.next = dl.next /\ cut.prev = dl.prev
      /\ Ring(cut.next, cut.prev, H \ {page})
  <2>1. /\ cut \in Mem /\ cut.property = size /\ cut.PG_property = H \ {page}
        /\ cut.next = dl.next /\ cut.prev = dl.prev
    BY <1>6 DEF Mem
  <2> HIDE DEF cut
  <2> QED BY <1>6, <1>7, <2>1
<1> HIDE DEF cut
<1>10. R \subseteq F /\ Page \ owned' = F \ R /\ owned' \subseteq Page
  <2> HIDE DEF F, H, size
  <2>1. Run(page, n) \subseteq F
    BY <1>0, <1>4, <1>5, TilesCut
  <2> HIDE DEF R
  <2> QED BY <1>0, <1>2, <2>1 DEF F, R
<1>11. nr_free' = Cardinality(F \ R)
  <2> HIDE DEF F
  <2>1. Cardinality(F) \in Nat /\ Cardinality(F \ R) = Cardinality(F) - n
    BY <1>0, <1>5, <1>10, RunSize
  <2> QED BY <1>0, <1>2, <2>1
<1>12. Sound(mem', F \ R) /\ Apart(mem'.property, mem'.PG_property)
  <2>1. CASE size[page] > n
    <3> DEFINE size1 == [size EXCEPT ![p] = size[page] - n]
               H1 == (H \ {page}) \cup {p}
    <3>1. /\ p \in Page \ H /\ size1 \in [Page -> Nat] /\ \A h \in H : h <= page \/ p < h
          /\ Tiles(size1, H1, F \ R) /\ Apart(size1, H1)
      <4> HIDE DEF F, H, size
      <4>0. n < size[page]
        BY <1>5, <2>1
      <4>1. IsCut(size, H, F, page, n)
        BY <1>0, <1>4, <1>5, <4>0, TilesCut
      <4> QED BY <4>1, Zenon DEF IsCut
    <3>2. /\ c2 \in Mem /\ c2.property = size1 /\ c2.PG_property = H1
          /\ c2.next = cut.next /\ c2.prev = cut.prev
      BY <1>9, <3>1 DEF Mem, Rest
    <3>3. cut.next[a] = b /\ a \in Entry /\ b \in Entry
      BY <1>0, <1>6, <1>8, <1>9 DEF Entry
    <3> HIDE DEF c2, size1, a, b
    <3>4. mem' = __list_add(c2, p, a, b)
      BY <1>2, <2>1, <3>2, <3>3 DEF list_add
    <3>5. /\ mem' \in Mem /\ mem'.property = size1 /\ mem'.PG_property = H1
          /\ mem'.next = [cut.next EXCEPT ![a] = p, ![p] = b]
          /\ mem'.prev = [cut.prev EXCEPT ![b] = p, ![p] = a]
      <4>0. p \in Entry
        BY <3>1 DEF Entry
      <4> HIDE DEF p, H1
      <4> QED BY <3>2, <3>3, <3>4, <4>0 DEF Mem, __list_add
    <3>6. Ring(mem'.next, mem'.prev, H1)
      <4>1. /\ cut.next \in [Entry -> Entry] /\ cut.prev \in [Entry -> Entry]
            /\ H \ {page} \in SUBSET Page /\ p \in Page \ (H \ {page})
        BY <1>0, <1>9, <3>1 DEF Mem
      <4>2. a < p /\ (b = free_list \/ p < b)
        <5>1. a \in Int
          BY <1>0, <1>8 DEF Page, free_list
        <5>2. a < p
          BY <1>5, <1>8, <5>1
        <5>3. b \in H => b <= page \/ p < b
          BY <3>1
        <5>4. b \in H => b \in Int
          BY <1>0 DEF Page
        <5> QED BY <1>5, <1>8, <5>2, <5>3, <5>4
      <4> HIDE DEF p, H
      <4>3. Ring([cut.next EXCEPT ![a] = p, ![p] = cut.next[a]],
                 [cut.prev EXCEPT ![cut.next[a]] = p, ![p] = a], (H \ {page}) \cup {p})
        BY <1>8, <1>9, <3>3, <4>1, <4>2, RingAdd
      <4> QED BY <3>3, <3>5, <4>3
    <3> QED BY <3>1, <3>5, <3>6 DEF Sound
  <2>2. CASE ~(size[page] > n)
    <3>1. n = size[page] /\ mem' = cut
      BY <1>2, <1>4, <1>5, <2>2
    <3>2. IsTaken(size, H, F, page, n)
      <4> HIDE DEF F, H, size
      <4> QED BY <1>0, <1>4, <1>5, <3>1, TilesCut
    <3> QED BY <1>9, <3>1, <3>2 DEF Sound, IsTaken
  <2> QED BY <2>1, <2>2
<1> QED BY <1>10, <1>11, <1>12 DEF FitInv, Sound

(***************************************************************************)
(* After page_init all pages are one block.                                *)
(***************************************************************************)
LEMMA FitInit ==
  ASSUME page_init
  PROVE  FitInv
<1>0. NPAGE \in Nat /\ NPAGE > 0 /\ Page = 0 .. NPAGE - 1 /\ 0 \in Page /\ free_list = -1
      /\ 0 \in Entry /\ free_list \in Entry /\ NPAGE - 1 \in Page
  BY FirstFitAssumption DEF Page, free_list, Entry
<1>1. /\ mem.next = [e \in Entry |-> IF e = free_list THEN 0 ELSE free_list]
      /\ mem.prev = [e \in Entry |-> IF e = free_list THEN 0 ELSE free_list]
      /\ mem.property = [p \in Page |-> IF p = 0 THEN NPAGE ELSE 0]
      /\ mem.PG_property = {0} /\ nr_free = NPAGE /\ owned = {}
      /\ mem = [next |-> mem.next, prev |-> mem.prev, property |-> mem.property,
                PG_property |-> mem.PG_property]
  BY DEF page_init
<1>2. mem \in Mem
  BY <1>0, <1>1 DEF Mem
<1>3. Ring(mem.next, mem.prev, {0})
  <2>1. /\ mem.next[0] = free_list /\ mem.next[free_list] = 0
        /\ mem.prev[0] = free_list /\ mem.prev[free_list] = 0
    BY <1>0, <1>1
  <2> QED BY <1>0, <2>1 DEF Ring, Follows
<1>4. mem.property[0] = NPAGE
  BY <1>0, <1>1
<1>5. Tiles(mem.property, {0}, Page) /\ Apart(mem.property, {0})
  BY <1>0, <1>4 DEF Tiles, Apart
<1>6. nr_free = Cardinality(Page)
  <2>1. Cardinality(0 .. NPAGE - 1) = IF 0 > NPAGE - 1 THEN 0 ELSE (NPAGE - 1) - 0 + 1
    BY <1>0, FS_Interval
  <2> QED BY <1>0, <1>1, <2>1
<1>7. Page \ owned = Page
  BY <1>1
<1> QED BY <1>0, <1>1, <1>2, <1>3, <1>5, <1>6, <1>7 DEF FitInv

(***************************************************************************)
(* Blocks that tile the free pages without touching are maximal runs of    *)
(* free pages.                                                             *)
(***************************************************************************)
LEMMA FitImplies ==
  ASSUME FitInv
  PROVE  BlocksExact /\ MaximalBlocks
<1> DEFINE F == Page \ owned
           H == mem.PG_property
           size == mem.property
<1>0. /\ nr_free = Cardinality(F) /\ H \in SUBSET Page /\ size \in [Page -> Nat]
      /\ mem.next \in [Entry -> Entry] /\ Ring(mem.next, mem.prev, H)
      /\ Tiles(size, H, F) /\ Apart(size, H)
  BY DEF FitInv, Mem
<1>1. /\ NPAGE \in Nat /\ Page = 0 .. NPAGE - 1
      /\ \A h \in H : h \in Nat /\ size[h] \in Nat
  BY <1>0, FirstFitAssumption DEF Page
<1>2. /\ \A p \in H : size[p] > 0 /\ p + size[p] <= NPAGE
      /\ \A p, q \in H : p < q => p + size[p] <= q
      /\ \A x \in Page : x \in F <=> \E p \in H : p <= x /\ x < p + size[p]
      /\ \A p, q \in H : p + size[p] # q
  BY <1>0 DEF Tiles, Apart
<1>3. WalkEnds(mem) /\ Listed(mem) = H /\ Length(mem) \in Nat
      /\ \A j, k \in 1 .. Length(mem) : j < k => Walk(mem)[j] < Walk(mem)[k]
  <2>1. WalkEnds(mem) /\ Listed(mem) = H
    BY <1>0, RingWalk
  <2>2. Length(mem) \in 0 .. NPAGE
    BY <1>0, RingWalk
  <2>3. \A j, k \in 1 .. Length(mem) : j < k => Walk(mem)[j] < Walk(mem)[k]
    BY <1>0, RingWalk
  <2> QED BY <1>1, <2>1, <2>2, <2>3
<1>4. \A p \in H : \A x \in Int : x \in PagesOf(p) <=> p <= x /\ x < p + size[p]
  BY <1>1 DEF PagesOf, Run
<1>5. \A p \in H : PagesOf(p) \subseteq Page
  BY <1>1, <1>2 DEF PagesOf, Run
<1>6. UNION {PagesOf(p) : p \in H} = F
  <2>1. \A x \in F : \E p \in H : x \in PagesOf(p)
    BY <1>1, <1>2, <1>4
  <2>2. \A p \in H : \A x \in PagesOf(p) : x \in F
    BY <1>1, <1>2, <1>4, <1>5
  <2> QED BY <2>1, <2>2
<1>7. ASSUME NEW p \in H, NEW q \in H, p # q PROVE PagesOf(p) \cap PagesOf(q) = {}
  <2> SUFFICES ASSUME NEW x \in PagesOf(p), x \in PagesOf(q) PROVE FALSE
      OBVIOUS
  <2>1. /\ x \in Int /\ p <= x /\ x < p + size[p] /\ q <= x /\ x < q + size[q]
    BY <1>1, <1>4, <1>5
  <2>2. p < q \/ q < p
    BY <1>1, <1>7
  <2>3. (p < q => p + size[p] <= q) /\ (q < p => q + size[q] <= p)
    BY <1>2
  <2> QED BY <1>1, <2>1, <2>2, <2>3
<1>8. BlocksExact
  <2> HIDE DEF F, H
  <2> QED BY <1>0, <1>3, <1>6, <1>7 DEF BlocksExact, F, H
<1>9. ASSUME NEW p \in H PROVE p - 1 \notin F /\ p + size[p] \notin F
  <2>1. ASSUME p - 1 \in F PROVE FALSE
    <3>1. PICK a \in H : a <= p - 1 /\ p - 1 < a + size[a]
      BY <1>2, <2>1
    <3>2. a + size[a] <= p
      BY <1>1, <1>2, <3>1
    <3>3. a + size[a] = p
      BY <1>1, <3>1, <3>2
    <3> QED BY <1>2, <3>3
  <2>2. ASSUME p + size[p] \in F PROVE FALSE
    <3>1. PICK b \in H : b <= p + size[p] /\ p + size[p] < b + size[b]
      BY <1>2, <2>2
    <3>2. p < b => p + size[p] <= b
      BY <1>2
    <3>3. b < p => b + size[b] <= p
      BY <1>2
    <3>4. b = p + size[p]
      BY <1>1, <3>1, <3>2, <3>3
    <3> QED BY <1>2, <3>4
  <2> QED BY <2>1, <2>2
<1>10. \A k \in 1 .. Length(mem) - 1 : Walk(mem)[k] < Walk(mem)[k + 1]
  <2> SUFFICES ASSUME NEW k \in 1 .. Length(mem) - 1 PROVE Walk(mem)[k] < Walk(mem)[k + 1]
      OBVIOUS
  <2>1. k \in 1 .. Length(mem) /\ k + 1 \in 1 .. Length(mem) /\ k < k + 1
    BY <1>3
  <2> QED BY <1>3, <2>1, Zenon
<1>11. MaximalBlocks
  <2>1. \A p \in H : {p - 1, p + size[p]} \cap F = {}
    BY <1>9
  <2> HIDE DEF F
  <2> QED BY <1>3, <1>10, <2>1, Zenon DEF MaximalBlocks, F
<1> QED BY <1>8, <1>11

(***************************************************************************)
(* While the highest page is free, whatever was split and joined before,   *)
(* the list is an ascending ring of blocks that tile the free pages and do *)
(* not touch: FitInv is inductive.                                         *)
(***************************************************************************)
THEOREM FitInvariant == AmpleSpec => []FitInv
<1>1. page_init => FitInv
  BY FitInit
<1>2. FitInv /\ [AmpleNext]_pmm_vars => FitInv'
  <2> SUFFICES ASSUME FitInv, [AmpleNext]_pmm_vars PROVE FitInv'
      OBVIOUS
  <2>1. CASE alloc_pages /\ NPAGE - 1 \notin owned'
    BY <2>1, AllocStep
  <2>2. CASE free_pages
    BY <2>2, FreeStep
  <2>3. CASE UNCHANGED pmm_vars
    BY <2>3 DEF pmm_vars, FitInv
  <2> QED BY <2>1, <2>2, <2>3 DEF AmpleNext
<1> QED BY <1>1, <1>2, PTL DEF AmpleSpec

(***************************************************************************)
(* default_alloc_pages and default_free_pages lose no page and hand none   *)
(* out twice, for every number of pages and every sequence of calls that   *)
(* leaves the highest page free.                                           *)
(***************************************************************************)
THEOREM FitBlocksExact == AmpleSpec => []BlocksExact
BY FitInvariant, FitImplies, PTL

(***************************************************************************)
(* The blocks of the free list are the maximal runs of free pages, so the  *)
(* joins at the end of default_free_pages leave no two blocks that could   *)
(* be one: external fragmentation comes from the callers alone.            *)
(***************************************************************************)
THEOREM FitMaximalBlocks == AmpleSpec => []MaximalBlocks
BY FitInvariant, FitImplies, PTL

----------------------------------------------------------------------------
(* Module SfsFile.                                                         *)

(* The block map as one function.                                          *)

\* -1 stands for the indirect block, k for the block of index k of the file.
Place == -1 .. NDIRECT + NENTRY - 1

Map(s) == [k \in Place |->
             IF k = -1 THEN s.din.indirect
             ELSE IF k < NDIRECT THEN s.din.direct[k]
             ELSE IF s.din.indirect = 0 THEN 0
             ELSE s.data[s.din.indirect][k - NDIRECT]]

\* Each block is free, another file's, or named by exactly one place.
Exact(map, free) ==
    /\ map \in [Place -> Block \cup {0}] /\ free \subseteq Block \ others
    /\ \A k \in Place : map[k] # 0 => map[k] \notin free /\ map[k] \notin others
    /\ \A k, l \in Place : map[k] = map[l] /\ map[k] # 0 => k = l
    /\ \A b \in Block : b \in free \/ b \in others \/ \E k \in Place : map[k] = b

\* The inode in memory names what the one on the disk names, unless it is dirty.
Kept(s) == s.dirty \/ /\ s.din.direct = disk_din.direct
                      /\ s.din.indirect = disk_din.indirect

Owned(s) == Exact(Map(s), s.free) /\ Kept(s)

Inode == [size : Nat, blocks : Nat, direct : [0..NDIRECT - 1 -> Block \cup {0}],
          indirect : Block \cup {0}]

\* What can be in a block.
Byte == Nat \cup {bytes[i] : bytes \in Writes, i \in Int}

\* The states that the operators of SfsFile work on.
Fs == [free : SUBSET Block, data : [Block -> [Cell -> Byte]], din : Inode, dirty : BOOLEAN,
          ret : Error \cup Asserted, ino : Block \cup {0}, buf : Seq(Byte), alen : Nat]

\* What every operator keeps, unless an assertion fails in it.
Good == {s \in Fs : s.ret \in Error => Owned(s)}

----------------------------------------------------------------------------

(***************************************************************************)
(* The constants.                                                          *)
(***************************************************************************)
LEMMA Constants ==
  /\ BLKSIZE \in Nat /\ BLKSIZE > 0 /\ NDIRECT \in Nat /\ NDIRECT > 0
  /\ NENTRY \in Nat /\ NENTRY > 0
  /\ Block \subseteq Nat /\ 0 \notin Block /\ Nat \subseteq Byte
  /\ \A c \in 0 .. BLKSIZE - 1 : c \in Cell
  /\ \A c \in 0 .. NENTRY - 1 : c \in Cell
<1>1. /\ BLKSIZE \in Nat \ {0} /\ NDIRECT \in Nat \ {0} /\ NENTRY \in Nat \ {0}
      /\ Block \subseteq Nat \ {0}
  BY SfsAssumption
<1> QED BY <1>1 DEF Cell, Byte

(***************************************************************************)
(* A place that names no block gets a free one.                            *)
(***************************************************************************)
LEMMA ExactAdd ==
  ASSUME NEW map, NEW free, Exact(map, free), NEW k \in Place, map[k] = 0, NEW b \in free
  PROVE  Exact([map EXCEPT ![k] = b], free \ {b})
<1> DEFINE map1 == [map EXCEPT ![k] = b]
<1>1. /\ map \in [Place -> Block \cup {0}] /\ free \subseteq Block \ others
      /\ \A l \in Place : map[l] # 0 => map[l] \notin free /\ map[l] \notin others
      /\ \A l, m \in Place : map[l] = map[m] /\ map[l] # 0 => l = m
      /\ \A c \in Block : c \in free \/ c \in others \/ \E l \in Place : map[l] = c
  BY DEF Exact
<1>2. map1 \in [Place -> Block \cup {0}] /\ map1[k] = b
      /\ \A l \in Place : l # k => map1[l] = map[l]
  BY <1>1
<1>3. b \in Block /\ b # 0 /\ b \notin others /\ \A l \in Place : map[l] # b
  BY <1>1, Constants
<1> HIDE DEF map1
<1>4. \A l \in Place : map1[l] # 0 => map1[l] \notin free \ {b} /\ map1[l] \notin others
  BY <1>1, <1>2, <1>3
<1>5. \A l, m \in Place : map1[l] = map1[m] /\ map1[l] # 0 => l = m
  BY <1>1, <1>2, <1>3
<1>6. ASSUME NEW c \in Block
      PROVE  c \in free \ {b} \/ c \in others \/ \E l \in Place : map1[l] = c
  <2>1. CASE c = b
    BY <1>2, <2>1
  <2>2. CASE c # b /\ \E l \in Place : map[l] = c
    <3>1. PICK l \in Place : map[l] = c
      BY <2>2
    <3>2. l # k
      BY <3>1, Constants
    <3> QED BY <1>2, <3>1, <3>2
  <2> QED BY <1>1, <2>1, <2>2
<1>7. Exact(map1, free \ {b})
  BY <1>1, <1>2, <1>4, <1>5, <1>6 DEF Exact
<1> QED BY <1>7 DEF map1

(***************************************************************************)
(* A place gives its block back.                                           *)
(***************************************************************************)
LEMMA ExactDel ==
  ASSUME NEW map, NEW free, Exact(map, free), NEW k \in Place, map[k] # 0
  PROVE  Exact([map EXCEPT ![k] = 0], free \cup {map[k]})
<1> DEFINE b == map[k]
           map1 == [map EXCEPT ![k] = 0]
<1>1. /\ map \in [Place -> Block \cup {0}] /\ free \subseteq Block \ others
      /\ \A l \in Place : map[l] # 0 => map[l] \notin free /\ map[l] \notin others
      /\ \A l, m \in Place : map[l] = map[m] /\ map[l] # 0 => l = m
      /\ \A c \in Block : c \in free \/ c \in others \/ \E l \in Place : map[l] = c
  BY DEF Exact
<1>2. map1 \in [Place -> Block \cup {0}] /\ map1[k] = 0
      /\ \A l \in Place : l # k => map1[l] = map[l]
  BY <1>1
<1>3. b \in Block /\ b \notin others /\ \A l \in Place : l # k => map[l] # b
  BY <1>1
<1> HIDE DEF map1
<1>4. \A l \in Place : map1[l] # 0 => map1[l] \notin free \cup {b} /\ map1[l] \notin others
  BY <1>1, <1>2, <1>3
<1>5. \A l, m \in Place : map1[l] = map1[m] /\ map1[l] # 0 => l = m
  BY <1>1, <1>2
<1>6. ASSUME NEW c \in Block
      PROVE  c \in free \cup {b} \/ c \in others \/ \E l \in Place : map1[l] = c
  <2>1. CASE c # b /\ \E l \in Place : map[l] = c
    <3>1. PICK l \in Place : map[l] = c
      BY <2>1
    <3> QED BY <1>2, <2>1, <3>1
  <2> QED BY <1>1, <2>1
<1> HIDE DEF b
<1>7. Exact(map1, free \cup {b})
  BY <1>1, <1>2, <1>3, <1>4, <1>5, <1>6 DEF Exact
<1> QED BY <1>7 DEF map1, b

----------------------------------------------------------------------------
(* What the places name.                                                   *)

LEMMA MapAt ==
  ASSUME NEW s
  PROVE  /\ -1 \in Place /\ Map(s)[-1] = s.din.indirect
         /\ \A k \in 0 .. NDIRECT - 1 : k \in Place /\ Map(s)[k] = s.din.direct[k]
         /\ \A k \in 0 .. NENTRY - 1 :
               /\ NDIRECT + k \in Place
               /\ Map(s)[NDIRECT + k] = IF s.din.indirect = 0 THEN 0
                                        ELSE s.data[s.din.indirect][k]
<1>0. NDIRECT \in Nat /\ NENTRY \in Nat /\ NDIRECT > 0 /\ NENTRY > 0
  BY Constants
<1>1. /\ -1 \in Place
      /\ \A k \in 0 .. NDIRECT - 1 : k \in Place /\ k # -1 /\ k < NDIRECT
      /\ \A k \in 0 .. NENTRY - 1 : /\ NDIRECT + k \in Place /\ NDIRECT + k # -1
                                    /\ ~(NDIRECT + k < NDIRECT) /\ (NDIRECT + k) - NDIRECT = k
  BY <1>0 DEF Place
<1> HIDE DEF Place
<1> QED BY <1>1 DEF Map

(***************************************************************************)
(* The places are the indirect block, the direct ones and the entries.     *)
(***************************************************************************)
LEMMA MapEq ==
  ASSUME NEW s, NEW f, NEW X, f \in [Place -> X], f[-1] = s.din.indirect,
         \A k \in 0 .. NDIRECT - 1 : f[k] = s.din.direct[k],
         \A k \in 0 .. NENTRY - 1 : f[NDIRECT + k] = IF s.din.indirect = 0 THEN 0
                                                     ELSE s.data[s.din.indirect][k]
  PROVE  Map(s) = f
<1>0. NDIRECT \in Nat /\ NENTRY \in Nat
  BY Constants
<1>1. ASSUME NEW k \in Place PROVE Map(s)[k] = f[k]
  <2>1. CASE k = -1
    BY <2>1, MapAt
  <2>2. CASE k \in 0 .. NDIRECT - 1
    BY <2>2, MapAt
  <2>3. CASE k \in NDIRECT .. NDIRECT + NENTRY - 1
    <3>1. k - NDIRECT \in 0 .. NENTRY - 1 /\ NDIRECT + (k - NDIRECT) = k
      BY <1>0, <2>3
    <3>2. Map(s)[NDIRECT + (k - NDIRECT)] = f[NDIRECT + (k - NDIRECT)]
      BY <3>1, MapAt
    <3> QED BY <3>1, <3>2
  <2> QED BY <1>0, <2>1, <2>2, <2>3 DEF Place
<1>2. Map(s) = [k \in Place |-> Map(s)[k]]
  BY DEF Map
<1> HIDE DEF Map
<1> QED BY <1>1, <1>2

(***************************************************************************)
(* A state that names the same blocks has the same map.                    *)
(***************************************************************************)
LEMMA MapSame ==
  ASSUME NEW s, NEW r, r.din.direct = s.din.direct, r.din.indirect = s.din.indirect,
         s.din.indirect # 0 => r.data[s.din.indirect] = s.data[s.din.indirect]
  PROVE  Map(r) = Map(s)
BY DEF Map

(***************************************************************************)
(* A state in which one direct block, or one entry, names another block.   *)
(***************************************************************************)
Updated(f, g, k, b) == f = [g EXCEPT ![k] = b]

NamesDirect(r, s, index, b) ==
    /\ Map(s) \in [Place -> Block \cup {0}]
    /\ s.din.direct \in [0 .. NDIRECT - 1 -> Block \cup {0}]
    /\ r.din.direct = [s.din.direct EXCEPT ![index] = b]
    /\ r.din.indirect = s.din.indirect
    /\ s.din.indirect # 0 => r.data[s.din.indirect] = s.data[s.din.indirect]

NamesEntry(r, s, index, b) ==
    /\ Map(s) \in [Place -> Block \cup {0}]
    /\ s.din.indirect # 0 /\ s.data[s.din.indirect] \in [Cell -> Byte]
    /\ r.din.direct = s.din.direct /\ r.din.indirect = s.din.indirect
    /\ r.data[s.din.indirect] = [s.data[s.din.indirect] EXCEPT ![index] = b]

LEMMA SetDirect ==
  ASSUME NEW s, NEW r, NEW b \in Block \cup {0}, NEW index \in 0 .. NDIRECT - 1,
         NamesDirect(r, s, index, b)
  PROVE  Updated(Map(r), Map(s), index, b)
<1> USE DEF NamesDirect
<1> DEFINE l == index
           f == [Map(s) EXCEPT ![l] = b]
<1>1. l \in Place /\ -1 \in Place /\ l # -1 /\ Map(s)[-1] = s.din.indirect
  BY MapAt
<1>2. f \in [Place -> Block \cup {0}]
  BY <1>1
<1>3. f[l] = b /\ \A k \in Place : k # l => f[k] = Map(s)[k]
  BY <1>1
<1> HIDE DEF f
<1>4. f[-1] = r.din.indirect
  BY <1>1, <1>3
<1>5. \A k \in 0 .. NDIRECT - 1 : f[k] = r.din.direct[k]
  <2>1. \A k \in 0 .. NDIRECT - 1 : k # l => f[k] = s.din.direct[k]
    BY <1>3, MapAt
  <2>2. \A k \in 0 .. NDIRECT - 1 :
          r.din.direct[k] = IF k = index THEN b ELSE s.din.direct[k]
    OBVIOUS
  <2> QED BY <1>3, <2>1, <2>2
<1>6. \A k \in 0 .. NENTRY - 1 :
        f[NDIRECT + k] = IF r.din.indirect = 0 THEN 0 ELSE r.data[r.din.indirect][k]
  <2>1. \A k \in 0 .. NENTRY - 1 : NDIRECT + k # l
    BY Constants
  <2>2. \A k \in 0 .. NENTRY - 1 : f[NDIRECT + k] = Map(s)[NDIRECT + k]
    BY <1>3, <2>1, MapAt
  <2>3. \A k \in 0 .. NENTRY - 1 :
          Map(s)[NDIRECT + k] = IF s.din.indirect = 0 THEN 0 ELSE s.data[s.din.indirect][k]
    BY MapAt
  <2> QED BY <2>2, <2>3
<1>7. Map(r) = f
  BY <1>2, <1>4, <1>5, <1>6, MapEq
<1> QED BY <1>7, Zenon DEF f, Updated

LEMMA SetEntry ==
  ASSUME NEW s, NEW r, NEW b \in Block \cup {0}, NEW index \in 0 .. NENTRY - 1,
         NamesEntry(r, s, index, b)
  PROVE  Updated(Map(r), Map(s), NDIRECT + index, b)
<1> USE DEF NamesEntry
<1> DEFINE l == NDIRECT + index
           ent == s.din.indirect
           f == [Map(s) EXCEPT ![l] = b]
<1>1. l \in Place /\ -1 \in Place /\ l # -1 /\ Map(s)[-1] = ent
  <2>1. l # -1
    BY Constants
  <2> QED BY <2>1, MapAt
<1>2. f \in [Place -> Block \cup {0}]
  BY <1>1
<1>3. f[l] = b /\ \A k \in Place : k # l => f[k] = Map(s)[k]
  <2> HIDE DEF l
  <2> QED BY <1>1
<1> HIDE DEF f
<1>4. f[-1] = r.din.indirect
  BY <1>1, <1>3
<1>5. \A k \in 0 .. NDIRECT - 1 : f[k] = r.din.direct[k]
  <2>1. \A k \in 0 .. NDIRECT - 1 : k # l
    BY Constants
  <2> QED BY <1>3, <2>1, MapAt
<1>6. \A k \in 0 .. NENTRY - 1 : f[NDIRECT + k] = r.data[ent][k]
  <2> SUFFICES ASSUME NEW k \in 0 .. NENTRY - 1 PROVE f[NDIRECT + k] = r.data[ent][k]
      OBVIOUS
  <2>1. k \in Cell /\ (k # index => NDIRECT + k # l)
    BY Constants
  <2>2. r.data[ent][k] = IF k = index THEN b ELSE s.data[ent][k]
    BY <2>1
  <2>3. NDIRECT + k \in Place /\ Map(s)[NDIRECT + k] = s.data[ent][k]
    BY MapAt
  <2> QED BY <1>3, <2>1, <2>2, <2>3
<1>7. \A k \in 0 .. NENTRY - 1 :
        f[NDIRECT + k] = IF r.din.indirect = 0 THEN 0 ELSE r.data[r.din.indirect][k]
  BY <1>6
<1>8. Map(r) = f
  BY <1>2, <1>4, <1>5, <1>7, MapEq
<1> QED BY <1>8, Zenon DEF f, Updated

----------------------------------------------------------------------------
(* sfs_block_alloc and sfs_block_free.                                     *)

\* In r the block b of s is taken and cleared.
Takes(r, s, b) == r = [s EXCEPT !.free = @ \ {b}, !.data[b] = zero_block, !.ino = b]

(***************************************************************************)
(* sfs_block_alloc takes a free block or has none.                         *)
(***************************************************************************)
LEMMA Alloc ==
  ASSUME NEW s \in Fs
  PROVE  \/ s.free = {} /\ sfs_block_alloc(s) = Fail(s, "E_NO_MEM")
         \/ \E b \in s.free : Takes(sfs_block_alloc(s), s, b)
<1>1. CASE s.free = {}
  BY <1>1, Zenon DEF sfs_block_alloc
<1>2. CASE s.free # {}
  <2>1. s.free \subseteq Nat
    BY Constants DEF Fs
  <2>2. PICK m \in s.free : \A k \in s.free : m <= k
    BY <1>2, <2>1, LeastNat
  <2>3. Min(s.free) \in s.free
    BY <2>2 DEF Min
  <2>4. Takes(sfs_block_alloc(s), s, Min(s.free))
    BY <1>2, Zenon DEF sfs_block_alloc, Takes
  <2> QED BY <2>3, <2>4
<1> QED BY <1>1, <1>2

LEMMA TakesFields ==
  ASSUME NEW s \in Fs, NEW b \in s.free, NEW r, Takes(r, s, b)
  PROVE  /\ r \in Fs /\ r.free = s.free \ {b} /\ r.ino = b /\ b \in Block /\ b # 0
         /\ r.data = [s.data EXCEPT ![b] = zero_block]
         /\ r.din = s.din /\ r.dirty = s.dirty /\ r.ret = s.ret
<1>1. zero_block \in [Cell -> Byte]
  BY Constants DEF zero_block
<1>2. b \in Block /\ b # 0
  BY Constants DEF Fs
<1> QED BY <1>1, <1>2 DEF Takes, Fs

----------------------------------------------------------------------------
(* What does not touch the block map.                                      *)

\* r differs from s in what a call returns only.
Same(r, s) == /\ r.din.direct = s.din.direct /\ r.din.indirect = s.din.indirect
              /\ r.free = s.free /\ r.dirty = s.dirty
              /\ s.din.indirect # 0 => r.data[s.din.indirect] = s.data[s.din.indirect]

LEMMA SameOwned ==
  ASSUME NEW s, NEW r, Same(r, s), Owned(s)
  PROVE  Owned(r) /\ Map(r) = Map(s)
<1>1. Map(r) = Map(s)
  BY MapSame DEF Same
<1> QED BY <1>1 DEF Owned, Kept, Same

LEMMA FailFields ==
  ASSUME NEW s \in Fs, NEW e \in Error \cup Asserted
  PROVE  Fail(s, e) \in Fs /\ Fail(s, e).ret = e /\ Same(Fail(s, e), s)
<1> DEFINE t == Fail(s, e)
<1>1. t \in Fs /\ t.ret = e /\ t.din = s.din /\ t.free = s.free /\ t.dirty = s.dirty
      /\ t.data = s.data
  BY DEF Fail, Fs
<1> HIDE DEF t
<1>2. Same(t, s)
  BY <1>1 DEF Same
<1> QED BY <1>1, <1>2 DEF t

LEMMA StoreFields ==
  ASSUME NEW s \in Fs, NEW b \in Block \cup {0}
  PROVE  Store(s, b) \in Fs /\ Store(s, b).ino = b /\ Store(s, b).ret = s.ret
         /\ Same(Store(s, b), s) /\ Store(s, b).data = s.data /\ Store(s, b).din = s.din
<1> DEFINE t == Store(s, b)
<1>1. t \in Fs /\ t.ino = b /\ t.din = s.din /\ t.free = s.free /\ t.dirty = s.dirty
      /\ t.data = s.data /\ t.ret = s.ret
  BY DEF Store, Fs
<1> HIDE DEF t
<1>2. Same(t, s)
  BY <1>1 DEF Same
<1> QED BY <1>1, <1>2 DEF t

----------------------------------------------------------------------------
(* From an index to a block.                                               *)

\* r is the result of a search for the block of place k.
Found(r, k) == r \in Good /\ (r.ret = "ok" => r.ino = Map(r)[k])

\* What a search leaves alone in s.
Kin(r, s) == /\ r.din.size = s.din.size /\ r.din.blocks = s.din.blocks
             /\ r.alen = s.alen /\ r.buf = s.buf /\ (s.dirty => r.dirty)

\* r has the blocks of s, and what is in them.
Stays(r, s) == /\ Map(r) = Map(s) /\ r.free = s.free
               /\ \A d \in Block \ s.free : r.data[d] = s.data[d]

\* An entry without an indirect block takes two blocks.
Twice(s, k) == k >= NDIRECT /\ s.din.indirect = 0

\* There is no block for place k, or one where two are needed.
Short(s, k) == s.free = {} \/ (Twice(s, k) /\ \E b \in s.free : s.free = {b})

\* Place k has got a block of zeroes.
Gains(r, s, k) ==
    \E c \in s.free :
       /\ r.data[c] = zero_block
       /\ \A d \in Block \ s.free : d # s.din.indirect => r.data[d] = s.data[d]
       /\ \/ /\ ~Twice(s, k)
             /\ Map(r) = [Map(s) EXCEPT ![k] = c] /\ r.free = s.free \ {c}
          \/ /\ Twice(s, k)
             /\ \E b \in s.free \ {c} :
                   /\ Map(r) = [[Map(s) EXCEPT ![-1] = b] EXCEPT ![k] = c]
                   /\ r.free = (s.free \ {b}) \ {c}

\* What the search for place k of s has done to it.
Searched(r, s, k, create) ==
    /\ Kin(r, s)
    /\ \/ r.ret = "ok" /\ Stays(r, s) /\ (create => Map(s)[k] # 0)
       \/ r.ret = "ok" /\ create /\ Map(s)[k] = 0 /\ Gains(r, s, k)
       \/ r.ret = "E_NO_MEM" /\ create /\ Map(s)[k] = 0 /\ Stays(r, s) /\ Short(s, k)

(***************************************************************************)
(* A search that fails has changed nothing; one that ends in an assertion  *)
(* need not keep anything.                                                 *)
(***************************************************************************)
LEMMA FailFound ==
  ASSUME NEW s \in Fs, NEW e \in Error \cup Asserted, e # "ok", e \in Error => Owned(s), NEW k
  PROVE  Found(Fail(s, e), k)
<1> DEFINE t == Fail(s, e)
<1>1. t \in Fs /\ t.ret = e /\ Same(t, s)
  BY FailFields
<1> HIDE DEF t
<1>2. t.ret \in Error => Owned(t)
  BY <1>1, SameOwned
<1> QED BY <1>1, <1>2 DEF Found, Good, t

LEMMA NoMem ==
  ASSUME NEW s \in Fs
  PROVE  /\ Fail(s, "E_NO_MEM").ret = "E_NO_MEM" /\ Fail(s, "E_NO_MEM") \in Fs
         /\ Owned(s) => \A k : Found(Fail(s, "E_NO_MEM"), k)
<1>1. "E_NO_MEM" \in Error \cup Asserted /\ "E_NO_MEM" # "ok"
  BY DEF Error
<1>2. Owned(s) => \A k : Found(Fail(s, "E_NO_MEM"), k)
  BY <1>1, FailFound, Zenon
<1> QED BY <1>1, <1>2, FailFields, Zenon

LEMMA StoreFound ==
  ASSUME NEW s \in Fs, Owned(s), NEW k \in Place
  PROVE  Found(Store(s, Map(s)[k]), k)
<1> DEFINE t == Store(s, Map(s)[k])
<1>1. Map(s)[k] \in Block \cup {0}
  BY DEF Owned, Exact
<1>2. t \in Fs /\ t.ino = Map(s)[k] /\ Same(t, s)
  BY <1>1, StoreFields
<1> HIDE DEF t
<1>3. Owned(t) /\ Map(t) = Map(s)
  BY <1>2, SameOwned
<1> QED BY <1>2, <1>3 DEF Found, Good, t

LEMMA FailStays ==
  ASSUME NEW s \in Fs, NEW t \in Fs, Kin(t, s), Stays(t, s), NEW e \in Error \cup Asserted
  PROVE  Kin(Fail(t, e), s) /\ Stays(Fail(t, e), s)
<1> DEFINE r == Fail(t, e)
<1>1. /\ r.din = t.din /\ r.free = t.free /\ r.data = t.data /\ r.dirty = t.dirty
      /\ r.alen = t.alen /\ r.buf = t.buf
  BY DEF Fail, Fs
<1> HIDE DEF r
<1>2. Map(r) = Map(t)
  BY <1>1, MapSame
<1> QED BY <1>1, <1>2 DEF Kin, Stays, r

LEMMA StoreStays ==
  ASSUME NEW s \in Fs, NEW b
  PROVE  Kin(Store(s, b), s) /\ Stays(Store(s, b), s)
<1> DEFINE r == Store(s, b)
<1>1. /\ r.din = s.din /\ r.free = s.free /\ r.data = s.data /\ r.dirty = s.dirty
      /\ r.alen = s.alen /\ r.buf = s.buf
  BY DEF Store, Fs
<1> HIDE DEF r
<1>2. Map(r) = Map(s)
  BY <1>1, MapSame
<1> QED BY <1>1, <1>2 DEF Kin, Stays, r

LEMMA StoreSearched ==
  ASSUME NEW s \in Fs, s.ret = "ok", NEW k \in Place, Map(s)[k] \in Block \cup {0},
         NEW create \in BOOLEAN, create => Map(s)[k] # 0
  PROVE  Searched(Store(s, Map(s)[k]), s, k, create)
<1> DEFINE b == Map(s)[k]
<1>1. Kin(Store(s, b), s) /\ Stays(Store(s, b), s)
  BY StoreStays, Zenon
<1>2. Store(s, b).ret = "ok"
  BY StoreFields
<1> QED BY <1>1, <1>2, Zenon DEF Searched

LEMMA NoMemSearched ==
  ASSUME NEW s \in Fs, NEW t \in Fs, Kin(t, s), Stays(t, s), NEW k, Map(s)[k] = 0, Short(s, k)
  PROVE  Searched(Fail(t, "E_NO_MEM"), s, k, TRUE)
<1>1. "E_NO_MEM" \in Error \cup Asserted
  BY DEF Error
<1>2. Kin(Fail(t, "E_NO_MEM"), s) /\ Stays(Fail(t, "E_NO_MEM"), s)
  BY <1>1, FailStays, Zenon
<1>3. Fail(t, "E_NO_MEM").ret = "E_NO_MEM"
  BY NoMem, Zenon
<1> QED BY <1>2, <1>3, Zenon DEF Searched

LEMMA SelfStays == \A s : Kin(s, s) /\ Stays(s, s)
BY DEF Kin, Stays

(***************************************************************************)
(* sfs_bmap_get_sub finds the block of an entry or adds one, and keeps     *)
(* what it has taken only when it uses it.                                 *)
(***************************************************************************)
LEMMA GetSub ==
  ASSUME NEW s \in Good, s.ret = "ok",
         NEW index \in 0 .. NENTRY - 1, NEW create \in BOOLEAN
  PROVE  /\ Found(sfs_bmap_get_sub(s, index, create), NDIRECT + index)
         /\ Searched(sfs_bmap_get_sub(s, index, create), s, NDIRECT + index, create)
<1> DEFINE ent == s.din.indirect
           l == NDIRECT + index
<1> SUFFICES ASSUME NEW r, r = sfs_bmap_get_sub(s, index, create)
             PROVE  Found(r, l) /\ Searched(r, s, l, create)
    BY Zenon
<1>1. s \in Fs /\ Owned(s)
  BY DEF Good, Error
<1>2. /\ l \in Place /\ -1 \in Place /\ l # -1 /\ Map(s)[-1] = ent
      /\ Map(s)[l] = IF ent = 0 THEN 0 ELSE s.data[ent][index]
  <2>1. l # -1
    BY Constants
  <2> QED BY <2>1, MapAt
<1>3. ent \in Block \cup {0} /\ Map(s)[l] \in Block \cup {0} /\ (ent # 0 => ent \notin s.free)
      /\ Exact(Map(s), s.free) /\ Kept(s)
  BY <1>1, <1>2, Constants DEF Owned, Exact
<1>4. s.ino \in Block \cup {0} /\ index \in Cell /\ s.free \subseteq Block
      /\ s.data \in [Block -> [Cell -> Byte]] /\ s.din \in Inode /\ s.dirty \in BOOLEAN
  BY <1>1, Constants DEF Fs
<1>5. CASE \/ ent # 0 /\ (s.data[ent][index] # 0 \/ ~create)
           \/ ent = 0 /\ ~create
  <2>1. r = Store(s, Map(s)[l])
    BY <1>2, <1>5, Zenon DEF sfs_bmap_get_sub
  <2>2. Found(Store(s, Map(s)[l]), l)
    BY <1>1, <1>2, StoreFound
  <2>3. create => Map(s)[l] # 0
    BY <1>2, <1>5
  <2>4. Searched(Store(s, Map(s)[l]), s, l, create)
    <3> HIDE DEF l
    <3> QED BY <1>1, <1>2, <1>3, <2>3, StoreSearched, Zenon
  <2> QED BY <2>1, <2>2, <2>4, Zenon
<1>0. l >= NDIRECT
  BY Constants
<1>6. ASSUME s.free = {}, create, Map(s)[l] = 0
      PROVE  Found(Fail(s, "E_NO_MEM"), l) /\ Searched(Fail(s, "E_NO_MEM"), s, l, create)
  <2>1. Found(Fail(s, "E_NO_MEM"), l)
    BY <1>1, NoMem, Zenon
  <2>2. Short(s, l)
    BY <1>6 DEF Short
  <2>3. Kin(s, s) /\ Stays(s, s)
    BY SelfStays, Zenon
  <2> HIDE DEF l
  <2>4. Searched(Fail(s, "E_NO_MEM"), s, l, TRUE)
    BY <1>1, <1>6, <2>2, <2>3, NoMemSearched, Zenon
  <2>5. create = TRUE
    BY <1>6
  <2> QED BY <2>1, <2>4, <2>5, Zenon
<1>7. CASE ent = 0 /\ create
  <2> DEFINE t == sfs_block_alloc(s)
             u == sfs_block_alloc(t)
  <2>1. r = IF t.ret = "ok"
            THEN IF u.ret = "ok"
                 THEN [u EXCEPT !.data[t.ino][index] = u.ino, !.din.indirect = t.ino,
                                !.dirty = @ \/ ent = 0]
                 ELSE Fail(sfs_block_free(t, t.ino), u.ret)
            ELSE t
    BY <1>7 DEF sfs_bmap_get_sub, Then
  <2>2. CASE s.free = {} /\ t = Fail(s, "E_NO_MEM")
    <3>1. t.ret = "E_NO_MEM"
      BY <1>1, <2>2, NoMem, Zenon
    <3> HIDE DEF t
    <3>2. r = Fail(s, "E_NO_MEM")
      BY <2>1, <2>2, <3>1
    <3>3. Map(s)[l] = 0
      BY <1>2, <1>7
    <3> QED BY <1>6, <1>7, <2>2, <3>2, <3>3, Zenon
  <2>3. CASE \E b \in s.free : Takes(t, s, b)
    <3>1. PICK b \in s.free : Takes(t, s, b)
      BY <2>3
    <3> HIDE DEF t
    <3>2. /\ t \in Fs /\ t.free = s.free \ {b} /\ t.ino = b /\ b \in Block /\ b # 0
          /\ t.data = [s.data EXCEPT ![b] = zero_block]
          /\ t.din = s.din /\ t.dirty = s.dirty /\ t.ret = "ok"
      BY <1>1, <3>1, TakesFields
    <3>3. CASE t.free = {} /\ u = Fail(t, "E_NO_MEM")
      <4> DEFINE v == sfs_block_free(t, b)
      <4>1. u.ret = "E_NO_MEM"
        BY <3>2, <3>3, NoMem, Zenon
      <4> HIDE DEF u
      <4>2. r = Fail(v, "E_NO_MEM")
        BY <2>1, <3>2, <4>1
      <4>3. v = [t EXCEPT !.free = @ \cup {b}]
        BY <3>2 DEF sfs_block_free, sfs_block_inuse
      <4>4. t.free \cup {b} = s.free
        BY <3>2
      <4> HIDE DEF v
      <4>5. v \in Fs /\ Same(v, s)
        BY <1>4, <1>7, <3>2, <4>3, <4>4 DEF Fs, Same
      <4>6. Owned(v)
        BY <1>1, <4>5, SameOwned
      <4>7. Found(Fail(v, "E_NO_MEM"), l)
        BY <4>5, <4>6, NoMem, Zenon
      <4>8. Searched(Fail(v, "E_NO_MEM"), s, l, TRUE)
        <5>1. Map(s)[l] = 0 /\ Short(s, l)
          BY <1>0, <1>2, <1>7, <3>2, <3>3, <4>4 DEF Short, Twice
        <5>2. /\ v.din = s.din /\ v.dirty = s.dirty /\ v.free = s.free /\ v.data = t.data
              /\ v.alen = t.alen /\ v.buf = t.buf
          BY <3>2, <4>3, <4>4 DEF Fs
        <5>3. t.alen = s.alen /\ t.buf = s.buf
          BY <1>1, <3>1 DEF Takes, Fs
        <5>4. Kin(v, s)
          BY <5>2, <5>3 DEF Kin
        <5>5. Map(v) = Map(s)
          BY <1>1, <4>5, SameOwned, Zenon
        <5>6. Stays(v, s)
          BY <1>4, <3>2, <5>2, <5>5 DEF Stays
        <5> HIDE DEF l
        <5> QED BY <1>1, <4>5, <5>1, <5>4, <5>6, NoMemSearched, Zenon
      <4>9. create = TRUE
        BY <1>7
      <4> QED BY <4>2, <4>7, <4>8, <4>9, Zenon
    <3>4. CASE \E c \in t.free : Takes(u, t, c)
      <4>1. PICK c \in t.free : Takes(u, t, c)
        BY <3>4
      <4> HIDE DEF u
      <4>2. /\ u \in Fs /\ u.free = t.free \ {c} /\ u.ino = c /\ c \in Block /\ c # 0
            /\ u.data = [t.data EXCEPT ![c] = zero_block]
            /\ u.din = t.din /\ u.dirty = t.dirty /\ u.ret = "ok"
        BY <3>2, <4>1, TakesFields
      <4>3. r = [u EXCEPT !.data[b][index] = c, !.din.indirect = b, !.dirty = TRUE]
        BY <1>7, <2>1, <3>2, <4>2 DEF Fs
      <4>4. b # c /\ c \in s.free \ {b} /\ c \in Byte
        BY <3>2, <4>2, Constants
      <4>0. zero_block \in [Cell -> Byte]
        <5>1. 0 \in Byte
          BY Constants
        <5> QED BY <5>1 DEF zero_block
      <4>5a. u.data[b] = zero_block /\ zero_block \in [Cell -> Byte]
        <5>1. t.data[b] = zero_block
          BY <1>4, <3>2
        <5>2. u.data[b] = t.data[b]
          BY <1>4, <3>2, <4>2, <4>4
        <5> QED BY <4>0, <5>1, <5>2
      <4>5b. [u.data[b] EXCEPT ![index] = c] \in [Cell -> Byte]
        BY <1>4, <4>4, <4>5a
      <4>5. /\ r \in Fs /\ r.free = (s.free \ {b}) \ {c} /\ r.ino = c /\ r.ret = "ok"
            /\ r.dirty /\ r.din.direct = s.din.direct /\ r.din.indirect = b
            /\ r.data[b] = [zero_block EXCEPT ![index] = c]
        <5>1. r = [u EXCEPT !.data = [u.data EXCEPT ![b] = [u.data[b] EXCEPT ![index] = c]],
                            !.din = [u.din EXCEPT !.indirect = b], !.dirty = TRUE]
          BY <4>3
        <5>2. [u.data EXCEPT ![b] = [u.data[b] EXCEPT ![index] = c]] \in [Block -> [Cell -> Byte]]
              /\ [u.data EXCEPT ![b] = [u.data[b] EXCEPT ![index] = c]][b]
                   = [zero_block EXCEPT ![index] = c]
          BY <3>2, <4>2, <4>5a, <4>5b DEF Fs
        <5>3. /\ [u.din EXCEPT !.indirect = b] \in Inode
              /\ [u.din EXCEPT !.indirect = b].direct = s.din.direct
              /\ [u.din EXCEPT !.indirect = b].indirect = b
          BY <1>4, <3>2, <4>2 DEF Inode
        <5>4. /\ r.free = u.free /\ r.ino = u.ino /\ r.ret = u.ret /\ r.dirty
              /\ r.data = [u.data EXCEPT ![b] = [u.data[b] EXCEPT ![index] = c]]
              /\ r.din = [u.din EXCEPT !.indirect = b]
          BY <4>2, <5>1 DEF Fs
        <5>5. r \in Fs
          BY <4>2, <5>1, <5>2, <5>3 DEF Fs
        <5> QED BY <3>2, <4>2, <5>2, <5>3, <5>4, <5>5
      <4> DEFINE f == [[Map(s) EXCEPT ![-1] = b] EXCEPT ![l] = c]
      <4>6. Exact(f, (s.free \ {b}) \ {c}) /\ f[l] = c
        <5> DEFINE g == [Map(s) EXCEPT ![-1] = b]
        <5>1. Map(s) \in [Place -> Block \cup {0}]
          BY <1>3 DEF Exact
        <5>2. Exact(g, s.free \ {b})
          BY <1>2, <1>3, <1>7, ExactAdd
        <5>3. g \in [Place -> Block \cup {0}] /\ g[l] = 0
          BY <1>2, <1>7, <3>2, <5>1
        <5> HIDE DEF g
        <5>4. Exact([g EXCEPT ![l] = c], (s.free \ {b}) \ {c})
          BY <1>2, <4>4, <5>2, <5>3, ExactAdd
        <5>5. [g EXCEPT ![l] = c][l] = c
          BY <1>2, <5>3
        <5> QED BY <5>4, <5>5 DEF g
      <4>7. Map(r) = f
        <5>1. f \in [Place -> Block \cup {0}]
          BY <4>6 DEF Exact
        <5>2. /\ f[-1] = b /\ f[l] = c
              /\ \A k \in Place : k # -1 /\ k # l => f[k] = Map(s)[k]
          <6>1. Map(s) \in [Place -> Block \cup {0}]
            BY <1>3 DEF Exact
          <6> HIDE DEF l
          <6> QED BY <1>2, <6>1
        <5> HIDE DEF f
        <5>3. f[-1] = r.din.indirect
          BY <4>5, <5>2
        <5>4. \A k \in 0 .. NDIRECT - 1 : f[k] = r.din.direct[k]
          <6>1. \A k \in 0 .. NDIRECT - 1 : k # -1 /\ k # l
            BY Constants
          <6> QED BY <4>5, <5>2, <6>1, MapAt
        <5>5. \A k \in 0 .. NENTRY - 1 : f[NDIRECT + k] = r.data[b][k]
          <6> SUFFICES ASSUME NEW k \in 0 .. NENTRY - 1 PROVE f[NDIRECT + k] = r.data[b][k]
              OBVIOUS
          <6>1. k \in Cell /\ NDIRECT + k # -1 /\ (k # index => NDIRECT + k # l)
            BY Constants
          <6>2. CASE k = index
            BY <1>4, <4>5, <5>2, <6>2 DEF zero_block
          <6>3. CASE k # index
            <7>1. r.data[b][k] = 0
              BY <1>4, <4>5, <6>1, <6>3 DEF zero_block
            <7>2. NDIRECT + k \in Place /\ Map(s)[NDIRECT + k] = 0
              BY <1>7, MapAt
            <7> QED BY <5>2, <6>1, <6>3, <7>1, <7>2
          <6> QED BY <6>2, <6>3
        <5>6. \A k \in 0 .. NENTRY - 1 :
                f[NDIRECT + k] = IF r.din.indirect = 0 THEN 0 ELSE r.data[r.din.indirect][k]
          BY <3>2, <4>5, <5>5
        <5> QED BY <5>1, <5>3, <5>4, <5>6, MapEq
      <4> HIDE DEF f
      <4>8. Owned(r)
        BY <4>5, <4>6, <4>7 DEF Owned, Kept
      <4>9. r.ino = Map(r)[l]
        BY <4>5, <4>6, <4>7
      <4>10. Kin(r, s)
        <5>1. t.alen = s.alen /\ t.buf = s.buf
          BY <1>1, <3>1 DEF Takes, Fs
        <5>2. u.alen = t.alen /\ u.buf = t.buf
          BY <3>2, <4>1 DEF Takes, Fs
        <5>3. /\ r.alen = u.alen /\ r.buf = u.buf /\ r.dirty
              /\ r.din = [u.din EXCEPT !.indirect = b]
          BY <4>2, <4>3 DEF Fs
        <5>4. r.din.size = s.din.size /\ r.din.blocks = s.din.blocks
          BY <1>4, <3>2, <4>2, <5>3 DEF Inode
        <5> QED BY <5>1, <5>2, <5>3, <5>4 DEF Kin
      <4>11. r.data[c] = zero_block /\ \A d \in Block \ s.free : r.data[d] = s.data[d]
        <5>1. r.data = [u.data EXCEPT ![b] = [u.data[b] EXCEPT ![index] = c]]
          BY <4>2, <4>3 DEF Fs
        <5>2. u.data[c] = zero_block /\ t.data[b] = zero_block /\ b \in s.free /\ c \in s.free
          BY <1>4, <3>1, <3>2, <4>2, <4>4 DEF Fs
        <5>3. \A d \in Block : /\ d # b => r.data[d] = u.data[d] /\ t.data[d] = s.data[d]
                               /\ d # c => u.data[d] = t.data[d]
          BY <1>4, <3>2, <4>2, <5>1 DEF Fs
        <5> QED BY <4>2, <4>4, <5>2, <5>3
      <4>12. Gains(r, s, l)
        <5>1. Twice(s, l)
          BY <1>0, <1>7 DEF Twice
        <5>2. b \in s.free \ {c} /\ c \in s.free
          BY <3>1, <4>4
        <5>3. Map(r) = [[Map(s) EXCEPT ![-1] = b] EXCEPT ![l] = c]
          BY <4>7, Zenon DEF f
        <5> HIDE DEF l
        <5>4. \A d \in Block \ s.free : d # s.din.indirect => r.data[d] = s.data[d]
          BY <4>11
        <5>5. r.free = (s.free \ {b}) \ {c} /\ r.data[c] = zero_block
          BY <4>5, <4>11
        <5> QED BY <5>1, <5>2, <5>3, <5>4, <5>5, Zenon DEF Gains
      <4>13. Map(s)[l] = 0 /\ create
        BY <1>2, <1>7
      <4> HIDE DEF l
      <4>14. Searched(r, s, l, create)
        BY <4>5, <4>10, <4>12, <4>13, Zenon DEF Searched
      <4> QED BY <4>5, <4>8, <4>9, <4>14 DEF Found, Good
    <3>5. \/ t.free = {} /\ u = Fail(t, "E_NO_MEM")
          \/ \E c \in t.free : Takes(u, t, c)
      BY <3>2, Alloc
    <3> QED BY <3>3, <3>4, <3>5
  <2>4. \/ s.free = {} /\ t = Fail(s, "E_NO_MEM")
        \/ \E b \in s.free : Takes(t, s, b)
    BY <1>1, Alloc
  <2> QED BY <2>2, <2>3, <2>4
<1>8. CASE ent # 0 /\ s.data[ent][index] = 0 /\ create
  <2> DEFINE t == Store(s, ent)
             u == sfs_block_alloc(t)
  <2>1. t \in Fs /\ t.ino = ent /\ t.ret = "ok" /\ t.din = s.din /\ t.data = s.data
        /\ Same(t, s)
    BY <1>1, <1>3, StoreFields
  <2>2. t.free = s.free /\ t.dirty = s.dirty /\ Owned(t)
    BY <1>1, <2>1, SameOwned DEF Same
  <2>3. r = IF t.ret = "ok"
            THEN IF u.ret = "ok"
                 THEN [u EXCEPT !.data[t.ino][index] = u.ino, !.din.indirect = t.ino,
                                !.dirty = @ \/ ent = 0]
                 ELSE u
            ELSE t
    BY <1>8 DEF sfs_bmap_get_sub, Then
  <2> HIDE DEF t
  <2>4. CASE t.free = {} /\ u = Fail(t, "E_NO_MEM")
    <3>1. u.ret = "E_NO_MEM"
      BY <2>1, <2>4, NoMem, Zenon
    <3> HIDE DEF u
    <3>2. r = Fail(t, "E_NO_MEM")
      BY <2>1, <2>3, <2>4, <3>1
    <3>3. Found(Fail(t, "E_NO_MEM"), l)
      BY <2>1, <2>2, NoMem, Zenon
    <3>4. Kin(t, s) /\ Stays(t, s)
      BY <1>1, StoreStays, Zenon DEF t
    <3>5. Map(s)[l] = 0 /\ Short(s, l)
      BY <1>2, <1>8, <2>2, <2>4 DEF Short
    <3> HIDE DEF l
    <3>6. Searched(Fail(t, "E_NO_MEM"), s, l, TRUE)
      BY <1>1, <2>1, <3>4, <3>5, NoMemSearched, Zenon
    <3>7. create = TRUE
      BY <1>8
    <3> QED BY <3>2, <3>3, <3>6, <3>7, Zenon
  <2>5. CASE \E c \in t.free : Takes(u, t, c)
    <3>1. PICK c \in t.free : Takes(u, t, c)
      BY <2>5
    <3> HIDE DEF u
    <3>2. /\ u \in Fs /\ u.free = t.free \ {c} /\ u.ino = c /\ c \in Block /\ c # 0
          /\ u.data = [t.data EXCEPT ![c] = zero_block]
          /\ u.din = t.din /\ u.dirty = t.dirty /\ u.ret = "ok"
      BY <2>1, <3>1, TakesFields
    <3>3. r = [u EXCEPT !.data[ent][index] = c, !.din.indirect = ent,
                        !.dirty = @ \/ ent = 0]
      BY <1>8, <2>1, <2>3, <3>2 DEF Fs
    <3>4. c \in s.free /\ c \in Byte /\ ent \in Block /\ c # ent
      BY <1>3, <1>8, <2>2, <3>1, <3>2, Constants
    <3>5a. u.data[ent] = s.data[ent] /\ s.data[ent] \in [Cell -> Byte] /\ (ent = 0) = FALSE
      BY <1>4, <1>8, <2>1, <3>2, <3>4
    <3>5b. [u.data[ent] EXCEPT ![index] = c] \in [Cell -> Byte]
      BY <1>4, <3>4, <3>5a
    <3>5. /\ r \in Fs /\ r.free = s.free \ {c} /\ r.ino = c /\ r.ret = "ok"
          /\ r.dirty = s.dirty /\ r.din.direct = s.din.direct /\ r.din.indirect = ent
          /\ r.data[ent] = [s.data[ent] EXCEPT ![index] = c]
      <4>1. r = [u EXCEPT !.data = [u.data EXCEPT ![ent] = [u.data[ent] EXCEPT ![index] = c]],
                          !.din = [u.din EXCEPT !.indirect = ent], !.dirty = @ \/ ent = 0]
        BY <3>3
      <4>2. [u.data EXCEPT ![ent] = [u.data[ent] EXCEPT ![index] = c]] \in [Block -> [Cell -> Byte]]
            /\ [u.data EXCEPT ![ent] = [u.data[ent] EXCEPT ![index] = c]][ent]
                 = [s.data[ent] EXCEPT ![index] = c]
        BY <3>2, <3>4, <3>5a, <3>5b DEF Fs
      <4>3. /\ [u.din EXCEPT !.indirect = ent] \in Inode
            /\ [u.din EXCEPT !.indirect = ent].direct = s.din.direct
            /\ [u.din EXCEPT !.indirect = ent].indirect = ent
        BY <1>4, <2>1, <3>2, <3>4 DEF Inode
      <4>4. u.dirty = s.dirty /\ (u.dirty \/ ent = 0) = s.dirty /\ u.free = s.free \ {c}
        BY <1>4, <1>8, <2>2, <3>2
      <4> QED BY <3>2, <4>1, <4>2, <4>3, <4>4 DEF Fs
    <3> DEFINE f == [Map(s) EXCEPT ![l] = c]
    <3>6. Exact(f, s.free \ {c})
      BY <1>2, <1>3, <1>8, <3>4, ExactAdd
    <3>7. Map(r) = f /\ f[l] = c
      <4>1. f[l] = c /\ Map(s) \in [Place -> Block \cup {0}] /\ c \in Block \cup {0}
        BY <1>2, <1>3, <3>2 DEF Exact
      <4>2. Map(r) = [Map(s) EXCEPT ![NDIRECT + index] = c]
        <5>1. NamesEntry(r, s, index, c)
          BY <1>8, <3>5, <3>5a, <4>1 DEF NamesEntry
        <5>2. Updated(Map(r), Map(s), NDIRECT + index, c)
          BY <4>1, <5>1, SetEntry, Zenon
        <5> QED BY <5>2 DEF Updated
      <4> QED BY <4>1, <4>2
    <3>8. Owned(r)
      BY <1>3, <3>5, <3>6, <3>7 DEF Owned, Kept
    <3>9. r.ino = Map(r)[l]
      BY <3>5, <3>7
    <3>10. Kin(r, s)
      <4>1. t.alen = s.alen /\ t.buf = s.buf
        BY <1>1 DEF t, Store, Fs
      <4>2. u.alen = t.alen /\ u.buf = t.buf
        BY <2>1, <3>1 DEF Takes, Fs
      <4>3. r.alen = u.alen /\ r.buf = u.buf /\ r.din = [u.din EXCEPT !.indirect = ent]
        BY <3>2, <3>3 DEF Fs
      <4>4. r.din.size = s.din.size /\ r.din.blocks = s.din.blocks
        BY <1>4, <2>1, <3>2, <4>3 DEF Inode
      <4> QED BY <3>5, <4>1, <4>2, <4>3, <4>4 DEF Kin
    <3>11. r.data[c] = zero_block
           /\ \A d \in Block \ s.free : d # ent => r.data[d] = s.data[d]
      <4>1. r.data = [u.data EXCEPT ![ent] = [u.data[ent] EXCEPT ![index] = c]]
        BY <3>2, <3>3 DEF Fs
      <4>2. \A d \in Block : /\ d # ent => r.data[d] = u.data[d]
                             /\ d # c => u.data[d] = s.data[d]
        BY <1>4, <2>1, <3>2, <4>1 DEF Fs
      <4>3. u.data[c] = zero_block
        BY <1>4, <2>1, <3>2
      <4> QED BY <3>2, <3>4, <4>2, <4>3
    <3>12. Gains(r, s, l)
      <4>1. ~Twice(s, l)
        BY <1>8 DEF Twice
      <4>2. Map(r) = [Map(s) EXCEPT ![l] = c]
        BY <3>7
      <4> HIDE DEF l
      <4> QED BY <3>4, <3>5, <3>11, <4>1, <4>2 DEF Gains
    <3>13. Map(s)[l] = 0 /\ create
      BY <1>2, <1>8
    <3> HIDE DEF l
    <3>14. Searched(r, s, l, create)
      BY <3>5, <3>10, <3>12, <3>13, Zenon DEF Searched
    <3> QED BY <3>5, <3>8, <3>9, <3>14 DEF Found, Good
  <2>6. \/ t.free = {} /\ u = Fail(t, "E_NO_MEM")
        \/ \E c \in t.free : Takes(u, t, c)
    BY <2>1, Alloc
  <2> QED BY <2>4, <2>5, <2>6
<1> QED BY <1>5, <1>7, <1>8

(***************************************************************************)
(* An assertion that fails.                                                *)
(***************************************************************************)
LEMMA AssertFails ==
  ASSUME NEW s \in Fs, NEW e \in Asserted
  PROVE  Fail(s, e) \in Good /\ Fail(s, e).ret # "ok"
<1>1. e \in Error \cup Asserted /\ e \notin Error /\ e # "ok"
  BY DEF Error, Asserted
<1>2. Fail(s, e) \in Fs /\ Fail(s, e).ret = e
  BY <1>1, FailFields
<1> QED BY <1>1, <1>2 DEF Good

\* r is the result of a search for the block of index k of the file.
IsBlockOf(r, k) ==
    /\ r \in Good
    /\ r.ret = "ok" => k \in 0 .. NDIRECT + NENTRY - 1 /\ r.ino = Map(r)[k]

(***************************************************************************)
(* sfs_bmap_get: the block of an index, or 0; a direct place gets a block  *)
(* only when it has none.                                                  *)
(***************************************************************************)
LEMMA GetDirect ==
  ASSUME NEW s \in Good, s.ret = "ok", NEW index \in 0 .. NDIRECT - 1,
         s.din.direct[index] = 0
  PROVE  LET r == Then(sfs_block_alloc(s),
                      LAMBDA t : [t EXCEPT !.din.direct[index] = t.ino, !.dirty = TRUE])
         IN  Found(r, index) /\ Searched(r, s, index, TRUE)
<1> DEFINE t == sfs_block_alloc(s)
           l == index
<1>0. SUFFICES ASSUME NEW r,
                    r = IF t.ret = "ok"
                        THEN [t EXCEPT !.din.direct[index] = t.ino, !.dirty = TRUE] ELSE t
             PROVE  Found(r, l) /\ Searched(r, s, l, TRUE)
    BY DEF Then
<1>1. s \in Fs /\ Owned(s) /\ Exact(Map(s), s.free)
  BY DEF Good, Error, Owned
<1>2. l \in Place /\ Map(s)[l] = 0 /\ -1 \in Place /\ l # -1 /\ Map(s)[-1] = s.din.indirect
  BY MapAt
<1>3. /\ s.din \in Inode /\ s.dirty \in BOOLEAN
      /\ s.din.indirect \in Block \cup {0}
      /\ s.din.indirect # 0 => s.din.indirect \notin s.free
      /\ s.data \in [Block -> [Cell -> Byte]]
  BY <1>1, <1>2 DEF Fs, Exact
<1>4. CASE s.free = {} /\ t = Fail(s, "E_NO_MEM")
  <2>1. t.ret = "E_NO_MEM"
    BY <1>1, <1>4, NoMem, Zenon
  <2> HIDE DEF t
  <2>2. r = Fail(s, "E_NO_MEM")
    BY <1>0, <1>4, <2>1
  <2>3. Found(Fail(s, "E_NO_MEM"), l)
    BY <1>1, NoMem, Zenon
  <2>4. Short(s, l)
    BY <1>4 DEF Short
  <2>5. Kin(s, s) /\ Stays(s, s)
    BY SelfStays, Zenon
  <2> HIDE DEF l
  <2>6. Searched(Fail(s, "E_NO_MEM"), s, l, TRUE)
    BY <1>1, <1>2, <2>4, <2>5, NoMemSearched, Zenon
  <2> QED BY <2>2, <2>3, <2>6, Zenon
<1>5. CASE \E b \in s.free : Takes(t, s, b)
  <2>1. PICK b \in s.free : Takes(t, s, b)
    BY <1>5
  <2> HIDE DEF t
  <2>2. /\ t \in Fs /\ t.free = s.free \ {b} /\ t.ino = b /\ b \in Block /\ b # 0
        /\ t.data = [s.data EXCEPT ![b] = zero_block]
        /\ t.din = s.din /\ t.dirty = s.dirty /\ t.ret = "ok"
    BY <1>1, <2>1, TakesFields
  <2>3. r = [t EXCEPT !.din = [s.din EXCEPT !.direct = [s.din.direct EXCEPT ![index] = b]],
                      !.dirty = TRUE]
    BY <1>0, <2>2
  <2>4. s.din.direct \in [0 .. NDIRECT - 1 -> Block \cup {0}]
    BY <1>3 DEF Inode
  <2>5. [s.din.direct EXCEPT ![index] = b] \in [0 .. NDIRECT - 1 -> Block \cup {0}]
    BY <2>2, <2>4
  <2>6. LET din == [s.din EXCEPT !.direct = [s.din.direct EXCEPT ![index] = b]]
        IN  /\ din \in Inode /\ din.indirect = s.din.indirect
            /\ din.direct = [s.din.direct EXCEPT ![index] = b]
    BY <1>3, <2>5 DEF Inode
  <2>7. /\ r \in Fs /\ r.free = s.free \ {b} /\ r.ino = b /\ r.dirty = TRUE
        /\ r.din.direct = [s.din.direct EXCEPT ![index] = b]
        /\ r.din.indirect = s.din.indirect /\ r.data = t.data
    BY <2>2, <2>3, <2>6 DEF Fs
  <2> DEFINE f == [Map(s) EXCEPT ![l] = b]
  <2>8. Exact(f, s.free \ {b})
    BY <1>1, <1>2, <2>2, ExactAdd
  <2>9. Map(r) = f /\ f[l] = b
    <3>1. f[l] = b /\ Map(s) \in [Place -> Block \cup {0}]
      BY <1>1, <1>2 DEF Exact
    <3>2. s.din.indirect # 0 => r.data[s.din.indirect] = s.data[s.din.indirect]
      BY <1>3, <2>2, <2>7
    <3>3. b \in Block \cup {0}
      BY <2>2
    <3>4. NamesDirect(r, s, index, b)
      BY <2>4, <2>7, <3>1, <3>2 DEF NamesDirect
    <3>5. Updated(Map(r), Map(s), index, b)
      BY <3>3, <3>4, SetDirect, Zenon
    <3> QED BY <3>1, <3>5 DEF Updated
  <2> HIDE DEF f
  <2>10. Owned(r) /\ r.ino = Map(r)[l]
    BY <2>7, <2>8, <2>9 DEF Owned, Kept
  <2>11. Kin(r, s)
    <3>1. t.alen = s.alen /\ t.buf = s.buf
      BY <1>1, <2>1 DEF Takes, Fs
    <3>2. r.alen = t.alen /\ r.buf = t.buf
      BY <2>2, <2>3 DEF Fs
    <3>3. r.din = [s.din EXCEPT !.direct = [s.din.direct EXCEPT ![index] = b]]
      BY <2>2, <2>3 DEF Fs
    <3>4. r.din.size = s.din.size /\ r.din.blocks = s.din.blocks
      BY <1>3, <3>3 DEF Inode
    <3> QED BY <2>7, <3>1, <3>2, <3>4 DEF Kin
  <2>12. r.data[b] = zero_block /\ \A d \in Block \ s.free : r.data[d] = s.data[d]
    BY <1>3, <2>1, <2>2, <2>7
  <2>13. Gains(r, s, l)
    <3>1. ~Twice(s, l)
      BY Constants DEF Twice
    <3>2. Map(r) = [Map(s) EXCEPT ![l] = b]
      BY <2>9, Zenon DEF f
    <3> HIDE DEF l
    <3> QED BY <2>1, <2>7, <2>12, <3>1, <3>2, Zenon DEF Gains
  <2> HIDE DEF l
  <2>14. r.ret = "ok"
    BY <2>2, <2>3 DEF Fs
  <2>15. Searched(r, s, l, TRUE)
    BY <1>2, <2>11, <2>13, <2>14, Zenon DEF Searched
  <2> QED BY <2>7, <2>10, <2>15 DEF Found, Good
<1> HIDE DEF t
<1>6. \/ s.free = {} /\ t = Fail(s, "E_NO_MEM")
      \/ \E b \in s.free : Takes(t, s, b)
  BY <1>1, Alloc DEF t
<1> QED BY <1>4, <1>5, <1>6

LEMMA Get ==
  ASSUME NEW s \in Good, s.ret = "ok", NEW index \in Nat, NEW create \in BOOLEAN
  PROVE  /\ IsBlockOf(sfs_bmap_get(s, index, create), index)
         /\ index < NDIRECT + NENTRY => Searched(sfs_bmap_get(s, index, create), s, index, create)
<1> DEFINE Checked(t) == IF t.ino # 0 /\ ~sfs_block_inuse(t, t.ino)
                         THEN Fail(t, "ino == 0 || sfs_block_inuse(ino)") ELSE t
<1>1. s \in Fs /\ Owned(s)
  BY DEF Good, Error
<1>2. ASSUME NEW t, Found(t, index), index \in 0 .. NDIRECT + NENTRY - 1,
             Searched(t, s, index, create)
      PROVE  /\ IsBlockOf(IF t.ret = "ok" THEN Checked(t) ELSE t, index)
             /\ Searched(IF t.ret = "ok" THEN Checked(t) ELSE t, s, index, create)
  <2>1. t \in Fs /\ t \in Good
    BY <1>2 DEF Found, Good
  <2>2. IsBlockOf(t, index)
    BY <1>2, <2>1 DEF IsBlockOf, Found
  <2>3. IsBlockOf(Fail(t, "ino == 0 || sfs_block_inuse(ino)"), index)
    <3>1. "ino == 0 || sfs_block_inuse(ino)" \in Asserted
      BY DEF Asserted
    <3> QED BY <2>1, <3>1, AssertFails, Zenon DEF IsBlockOf
  <2>4. t.ret = "ok" => t.ino = 0 \/ sfs_block_inuse(t, t.ino)
    <3> SUFFICES ASSUME t.ret = "ok" PROVE t.ino = 0 \/ sfs_block_inuse(t, t.ino)
      OBVIOUS
    <3>1. index \in Place /\ t.ino = Map(t)[index]
      BY <1>2, Constants DEF Found, Place
    <3>2. Exact(Map(t), t.free)
      BY <2>1 DEF Good, Error, Owned
    <3> QED BY <3>1, <3>2 DEF Exact, sfs_block_inuse
  <2>5. (IF t.ret = "ok" THEN Checked(t) ELSE t) = t
    BY <2>4, Zenon
  <2> HIDE DEF Checked
  <2> QED BY <1>2, <2>2, <2>5, Zenon
<1>3. CASE index >= NDIRECT /\ index - NDIRECT < NENTRY
  <2> DEFINE t == sfs_bmap_get_sub(s, index - NDIRECT, create)
  <2>1. index - NDIRECT \in 0 .. NENTRY - 1 /\ NDIRECT + (index - NDIRECT) = index
        /\ index \in 0 .. NDIRECT + NENTRY - 1
    BY <1>3, Constants
  <2>2. /\ Found(t, NDIRECT + (index - NDIRECT))
        /\ Searched(t, s, NDIRECT + (index - NDIRECT), create)
    BY <2>1, GetSub, Zenon
  <2>3. sfs_bmap_get(s, index, create) = IF t.ret = "ok" THEN Checked(t) ELSE t
    BY <1>3 DEF sfs_bmap_get, Then
  <2> HIDE DEF t, Checked
  <2>4. Found(t, index) /\ Searched(t, s, index, create)
    BY <2>1, <2>2, Zenon
  <2> QED BY <1>2, <2>1, <2>3, <2>4, Zenon
<1>4. CASE index >= NDIRECT /\ ~(index - NDIRECT < NENTRY)
  <2> DEFINE t == Fail(s, "index out of range")
  <2>1. t \in Good /\ t.ret # "ok"
    <3>1. "index out of range" \in Asserted
      BY DEF Asserted
    <3> QED BY <1>1, <3>1, AssertFails, Zenon
  <2>2. sfs_bmap_get(s, index, create) = IF t.ret = "ok" THEN Checked(t) ELSE t
    BY <1>4 DEF sfs_bmap_get, Then
  <2> HIDE DEF t, Checked
  <2>3. ~(index < NDIRECT + NENTRY)
    BY <1>4, Constants
  <2> QED BY <2>1, <2>2, <2>3 DEF IsBlockOf
<1>5. CASE index < NDIRECT /\ (s.din.direct[index] # 0 \/ ~create)
  <2> DEFINE t == Store(s, s.din.direct[index])
  <2>1. index \in 0 .. NDIRECT - 1 /\ ~(index >= NDIRECT)
        /\ index \in 0 .. NDIRECT + NENTRY - 1
    BY <1>5, Constants
  <2>2. index \in Place /\ s.din.direct[index] = Map(s)[index]
    BY <2>1, MapAt
  <2>3. Found(t, index)
    BY <1>1, <2>2, StoreFound
  <2>4. sfs_bmap_get(s, index, create) = IF t.ret = "ok" THEN Checked(t) ELSE t
    BY <1>5, <2>1, Zenon DEF sfs_bmap_get, Then
  <2>5. Searched(t, s, index, create)
    <3>1. Map(s)[index] \in Block \cup {0}
      BY <1>1, <2>2 DEF Owned, Exact
    <3>2. create => Map(s)[index] # 0
      BY <1>5, <2>2
    <3> QED BY <1>1, <2>2, <3>1, <3>2, StoreSearched, Zenon
  <2> HIDE DEF t, Checked
  <2> QED BY <1>2, <2>1, <2>3, <2>4, <2>5, Zenon
<1>6. CASE index < NDIRECT /\ s.din.direct[index] = 0 /\ create
  <2> DEFINE t == Then(sfs_block_alloc(s),
                       LAMBDA u : [u EXCEPT !.din.direct[index] = u.ino, !.dirty = TRUE])
  <2>1. index \in 0 .. NDIRECT - 1 /\ ~(index >= NDIRECT)
        /\ index \in 0 .. NDIRECT + NENTRY - 1
    BY <1>6, Constants
  <2>2. Found(t, index) /\ Searched(t, s, index, TRUE)
    BY <1>6, <2>1, GetDirect
  <2>3. sfs_bmap_get(s, index, create) = IF t.ret = "ok" THEN Checked(t) ELSE t
    BY <1>6, <2>1 DEF sfs_bmap_get, Then
  <2> HIDE DEF t, Checked
  <2>4. create = TRUE
    BY <1>6
  <2> QED BY <1>2, <2>1, <2>2, <2>3, <2>4, Zenon
<1>7. (index >= NDIRECT) \/ (index < NDIRECT)
  BY Constants
<1> HIDE DEF Checked
<1> QED BY <1>3, <1>4, <1>5, <1>6, <1>7

(***************************************************************************)
(* sfs_bmap_load: a block of the file, in use, and not the indirect block. *)
(***************************************************************************)
IsData(r) ==
    /\ r \in Good
    /\ r.ret = "ok" => r.ino \in Block /\ \E k \in Place : k # -1 /\ r.ino = Map(r)[k]

LEMMA Load ==
  ASSUME NEW s \in Good, s.ret = "ok", NEW index \in Nat
  PROVE  IsData(sfs_bmap_load(s, index))
<1> DEFINE create == index = s.din.blocks
           t == sfs_bmap_get(s, index, create)
<1>1. s \in Fs /\ Owned(s)
  BY DEF Good, Error
<1>2. CASE index > s.din.blocks
  <2>1. "index <= din->blocks" \in Asserted
    BY DEF Asserted
  <2>2. Fail(s, "index <= din->blocks") \in Good /\ Fail(s, "index <= din->blocks").ret # "ok"
    BY <1>1, <2>1, AssertFails, Zenon
  <2>3. sfs_bmap_load(s, index) = Fail(s, "index <= din->blocks")
    BY <1>2, Zenon DEF sfs_bmap_load
  <2> QED BY <2>2, <2>3 DEF IsData
<1>3. CASE ~(index > s.din.blocks)
  <2>1. IsBlockOf(t, index)
    <3>1. create \in BOOLEAN
      OBVIOUS
    <3> QED BY <3>1, Get, Zenon
  <2> DEFINE Loaded == IF ~sfs_block_inuse(t, t.ino) THEN Fail(t, "sfs_block_inuse(ino)")
                       ELSE IF create THEN [t EXCEPT !.din.blocks = @ + 1] ELSE t
  <2>2. sfs_bmap_load(s, index) = IF t.ret = "ok" THEN Loaded ELSE t
    BY <1>3 DEF sfs_bmap_load, Then
  <2> HIDE DEF t
  <2>3. t \in Good /\ t \in Fs
    BY <2>1 DEF IsBlockOf, Good
  <2>4. CASE t.ret # "ok"
    BY <2>2, <2>3, <2>4 DEF IsData
  <2>5. CASE t.ret = "ok" /\ ~sfs_block_inuse(t, t.ino)
    <3>1. "sfs_block_inuse(ino)" \in Asserted
      BY DEF Asserted
    <3>2. Fail(t, "sfs_block_inuse(ino)") \in Good /\ Fail(t, "sfs_block_inuse(ino)").ret # "ok"
      BY <2>3, <3>1, AssertFails, Zenon
    <3>3. sfs_bmap_load(s, index) = Fail(t, "sfs_block_inuse(ino)")
      BY <2>2, <2>5
    <3> QED BY <3>2, <3>3 DEF IsData
  <2>6. CASE t.ret = "ok" /\ sfs_block_inuse(t, t.ino)
    <3>1. t.ino \in Block /\ index \in Place /\ index # -1 /\ t.ino = Map(t)[index]
      BY <2>1, <2>6, Constants DEF sfs_block_inuse, IsBlockOf, Place
    <3>2. Owned(t)
      BY <2>3, <2>6 DEF Good, Error
    <3>3. CASE ~create
      BY <2>2, <2>3, <2>6, <3>1, <3>3 DEF IsData
    <3>4. CASE create
      <4> DEFINE r == [t EXCEPT !.din.blocks = @ + 1]
      <4>1. sfs_bmap_load(s, index) = r
        BY <2>2, <2>6, <3>4
      <4>2. [t.din EXCEPT !.blocks = @ + 1] \in Inode
            /\ [t.din EXCEPT !.blocks = @ + 1].direct = t.din.direct
            /\ [t.din EXCEPT !.blocks = @ + 1].indirect = t.din.indirect
        <5>1. t.din \in Inode
          BY <2>3 DEF Fs
        <5> HIDE DEF t
        <5> QED BY <5>1 DEF Inode
      <4>3. r = [t EXCEPT !.din = [t.din EXCEPT !.blocks = @ + 1]]
        OBVIOUS
      <4>4. r \in Fs /\ Same(r, t) /\ r.ino = t.ino /\ r.ret = "ok"
        BY <2>3, <2>6, <4>2, <4>3 DEF Fs, Same
      <4> HIDE DEF r
      <4>5. Owned(r) /\ Map(r) = Map(t)
        BY <3>2, <4>4, SameOwned
      <4> QED BY <3>1, <4>1, <4>4, <4>5 DEF IsData, Good
    <3> QED BY <3>3, <3>4
  <2> QED BY <2>4, <2>5, <2>6
<1> QED BY <1>2, <1>3

----------------------------------------------------------------------------
(* The bytes of the file, and the blocks there are for it.                 *)

\* The indices of a file.
Index == 0 .. NDIRECT + NENTRY - 1

\* The byte c of the block of index k; where there is no block it is 0.
At(s, k, c) == IF Map(s)[k] = 0 THEN 0 ELSE s.data[Map(s)[k]][c]

\* The places that a file with a block of index k has filled, if it has no holes.
Span(k) == (0 .. k) \cup (IF k < NDIRECT THEN {} ELSE {-1})

Lack(map, k) == {l \in Span(k) : map[l] = 0}

\* There are enough free blocks for a file with a block of index k.
Fits(map, free, k) == Cardinality(Lack(map, k)) <= Cardinality(free)

\* Every block that the inode counts is there.
Filled(s) == /\ s.din.blocks <= NDIRECT + NENTRY
             /\ \A k \in 0 .. s.din.blocks - 1 : Map(s)[k] # 0

LEMMA LackFinite ==
  ASSUME NEW map, NEW k \in Index
  PROVE  /\ IsFiniteSet(Lack(map, k)) /\ Cardinality(Lack(map, k)) \in Nat
         /\ Span(k) \subseteq Place
<1>1. k \in Int /\ NDIRECT \in Int /\ NENTRY \in Int /\ k < NDIRECT + NENTRY
  BY Constants DEF Index
<1>2. -1 \in Int /\ IsFiniteSet(-1 .. k)
  BY <1>1, FS_Interval
<1>3. Lack(map, k) \subseteq -1 .. k /\ Span(k) \subseteq Place
  BY <1>1 DEF Lack, Span, Index, Place
<1>4. IsFiniteSet(Lack(map, k))
  BY <1>2, <1>3, FS_Subset
<1> QED BY <1>3, <1>4, FS_CardinalityType

LEMMA FreeFinite ==
  ASSUME NEW free \in SUBSET Block
  PROVE  IsFiniteSet(free) /\ Cardinality(free) \in Nat
<1>1. IsFiniteSet(Block)
  BY SfsAssumption
<1>2. IsFiniteSet(free)
  BY <1>1, FS_Subset
<1> QED BY <1>2, FS_CardinalityType

(***************************************************************************)
(* A place that gets a free block leaves room for what fitted, when it is  *)
(* one of the places that this needs, or this needs none.                  *)
(***************************************************************************)
LEMMA FitsAdd ==
  ASSUME NEW map, map \in [Place -> Block \cup {0}], NEW free \in SUBSET Block,
         NEW k \in Index, Fits(map, free, k), NEW l \in Place, map[l] = 0,
         NEW b \in free, b # 0, l \in Span(k) \/ Lack(map, k) = {}
  PROVE  Fits([map EXCEPT ![l] = b], free \ {b}, k)
<1> DEFINE g == [map EXCEPT ![l] = b]
<1>1. /\ IsFiniteSet(Lack(map, k)) /\ Cardinality(Lack(map, k)) \in Nat
      /\ Cardinality(Lack(g, k)) \in Nat /\ Span(k) \subseteq Place
  BY LackFinite, Zenon
<1>2. IsFiniteSet(free) /\ Cardinality(free) \in Nat
  BY FreeFinite
<1>3. g \in [Place -> Block \cup {0}] /\ g[l] = b /\ \A j \in Place : j # l => g[j] = map[j]
  OBVIOUS
<1> HIDE DEF g
<1>4. Lack(g, k) = Lack(map, k) \ {l}
  BY <1>1, <1>3 DEF Lack
<1>5. Cardinality(free \ {b}) = Cardinality(free) - 1
  BY <1>2, FS_RemoveElement
<1>6. CASE l \in Span(k)
  <2>1. l \in Lack(map, k)
    BY <1>6 DEF Lack
  <2>2. Cardinality(Lack(g, k)) = Cardinality(Lack(map, k)) - 1
    <3> DEFINE L == Lack(map, k)
    <3> HIDE DEF L
    <3>1. Cardinality(L \ {l}) = IF l \in L THEN Cardinality(L) - 1 ELSE Cardinality(L)
      BY <1>1, FS_RemoveElement, Zenon DEF L
    <3> QED BY <1>4, <2>1, <3>1 DEF L
  <2> QED BY <1>1, <1>2, <1>5, <2>2 DEF Fits, g
<1>7. CASE Lack(map, k) = {}
  <2>1. Lack(g, k) = {}
    BY <1>4, <1>7
  <2>2. Cardinality(Lack(g, k)) = 0
    BY <2>1, FS_EmptySet
  <2>3. Cardinality(free \ {b}) \in Nat
    BY FreeFinite
  <2> QED BY <2>2, <2>3 DEF Fits, g
<1> QED BY <1>6, <1>7

(***************************************************************************)
(* Giving a block back does too.                                           *)
(***************************************************************************)
LEMMA FitsDel ==
  ASSUME NEW map, map \in [Place -> Block \cup {0}], NEW free \in SUBSET Block,
         NEW k \in Index, Fits(map, free, k), NEW l \in Place, NEW b \in Block \ free
  PROVE  Fits([map EXCEPT ![l] = 0], free \cup {b}, k)
<1> DEFINE g == [map EXCEPT ![l] = 0]
<1>1. /\ IsFiniteSet(Lack(map, k)) /\ Cardinality(Lack(map, k)) \in Nat
      /\ Cardinality(Lack(g, k)) \in Nat /\ Span(k) \subseteq Place
  BY LackFinite, Zenon
<1>2. IsFiniteSet(free) /\ Cardinality(free) \in Nat
  BY FreeFinite
<1>3. g \in [Place -> Block \cup {0}] /\ \A j \in Place : j # l => g[j] = map[j]
  OBVIOUS
<1> HIDE DEF g
<1>4. Lack(g, k) \subseteq Lack(map, k) \cup {l}
  BY <1>1, <1>3 DEF Lack
<1>5. /\ IsFiniteSet(Lack(map, k) \cup {l})
      /\ Cardinality(Lack(map, k) \cup {l}) <= Cardinality(Lack(map, k)) + 1
  <2> DEFINE L == Lack(map, k)
  <2> HIDE DEF L
  <2>1. /\ IsFiniteSet(L \cup {l})
        /\ Cardinality(L \cup {l}) = IF l \in L THEN Cardinality(L) ELSE Cardinality(L) + 1
    BY <1>1, FS_AddElement, Zenon DEF L
  <2> QED BY <1>1, <2>1 DEF L
<1>6. Cardinality(Lack(g, k)) <= Cardinality(Lack(map, k) \cup {l})
  BY <1>4, <1>5, FS_Subset
<1>7. Cardinality(Lack(map, k) \cup {l}) \in Nat
  BY <1>5, FS_CardinalityType
<1>8. Cardinality(free \cup {b}) = Cardinality(free) + 1
  BY <1>2, FS_AddElement
<1> QED BY <1>1, <1>2, <1>5, <1>6, <1>7, <1>8 DEF Fits, g

(***************************************************************************)
(* A search that runs out of blocks looked for a place that does not fit.  *)
(***************************************************************************)
LEMMA ShortNoFit ==
  ASSUME NEW s \in Fs, NEW k \in Index, Map(s)[k] = 0, Short(s, k)
  PROVE  ~Fits(Map(s), s.free, k)
<1> DEFINE L == Lack(Map(s), k)
<1>1. IsFiniteSet(L) /\ Cardinality(L) \in Nat
  BY LackFinite, Zenon
<1>2. k \in L
  BY DEF Lack, Span, Index
<1>3. Map(s)[-1] = s.din.indirect
  BY MapAt
<1>4. CASE s.free = {}
  <2>1. Cardinality(s.free) = 0
    BY <1>4, FS_EmptySet
  <2>2. Cardinality(L) # 0
    BY <1>1, <1>2, FS_EmptySet
  <2> HIDE DEF L
  <2> QED BY <1>1, <2>1, <2>2 DEF Fits, L
<1>5. CASE Twice(s, k) /\ \E b \in s.free : s.free = {b}
  <2>1. -1 \in L /\ k # -1
    BY <1>3, <1>5, Constants DEF Twice, Lack, Span, Index
  <2>2. Cardinality(s.free) = 1
    BY <1>5, FS_Singleton
  <2> HIDE DEF L
  <2>3. Cardinality(L) # 0
    BY <1>1, <1>2, FS_EmptySet
  <2>4. Cardinality(L) # 1
    <3> SUFFICES ASSUME Cardinality(L) = 1 PROVE FALSE
      OBVIOUS
    <3>1. PICK x : L = {x}
      BY <1>1, FS_Singleton
    <3> QED BY <1>2, <2>1, <3>1
  <2> QED BY <1>1, <2>2, <2>3, <2>4 DEF Fits, L
<1> QED BY <1>4, <1>5 DEF Short

(***************************************************************************)
(* The places below an index that has none yet have blocks.                *)
(***************************************************************************)
LEMMA BelowFilled ==
  ASSUME NEW s, s.din.blocks \in Nat, Filled(s), NEW k \in Index, k <= s.din.blocks,
         NEW j \in Index, j < k
  PROVE  /\ \A l \in 0 .. j : Map(s)[l] # 0
         /\ Lack(Map(s), j) = {}
         /\ j >= NDIRECT => s.din.indirect # 0
<1>1. \A l \in 0 .. j : Map(s)[l] # 0
  BY DEF Filled, Index
<1>2. ASSUME j >= NDIRECT PROVE s.din.indirect # 0
  <2>1. j - NDIRECT \in 0 .. NENTRY - 1 /\ NDIRECT + (j - NDIRECT) = j /\ j \in 0 .. j
    BY <1>2, Constants DEF Index
  <2>2. Map(s)[NDIRECT + (j - NDIRECT)] = IF s.din.indirect = 0 THEN 0
                                          ELSE s.data[s.din.indirect][j - NDIRECT]
    BY <2>1, MapAt
  <2> QED BY <1>1, <2>1, <2>2
<1>3. Map(s)[-1] = s.din.indirect
  BY MapAt
<1>4. Lack(Map(s), j) = {}
  <2> SUFFICES ASSUME NEW l \in Span(j) PROVE Map(s)[l] # 0
    BY DEF Lack
  <2>1. CASE l \in 0 .. j
    BY <1>1, <2>1
  <2>2. CASE l \notin 0 .. j
    <3>1. l = -1 /\ ~(j < NDIRECT)
      BY <2>2 DEF Span
    <3>2. j >= NDIRECT
      BY <3>1, Constants DEF Index
    <3> QED BY <1>2, <1>3, <3>1, <3>2
  <2> QED BY <2>1, <2>2
<1> QED BY <1>1, <1>2, <1>4

\* The blocks of a state, as the lemmas need them.
LEMMA OwnedFacts ==
  ASSUME NEW s \in Good, s.ret \in Error
  PROVE  /\ s \in Fs /\ s.free \in SUBSET Block /\ s.din \in Inode /\ s.din.blocks \in Nat
         /\ Map(s) \in [Place -> Block \cup {0}]
         /\ \A j \in Place : Map(s)[j] # 0 => Map(s)[j] \in Block \ s.free
         /\ \A j, l \in Place : Map(s)[j] = Map(s)[l] /\ Map(s)[j] # 0 => j = l
<1>1. s \in Fs /\ Exact(Map(s), s.free)
  BY DEF Good, Owned
<1>2. s.free \in SUBSET Block /\ s.din \in Inode
  BY <1>1 DEF Fs
<1>3. s.din.blocks \in Nat
  BY <1>2 DEF Inode
<1>4. /\ Map(s) \in [Place -> Block \cup {0}]
      /\ \A j \in Place : Map(s)[j] # 0 => Map(s)[j] \notin s.free
      /\ \A j, l \in Place : Map(s)[j] = Map(s)[l] /\ Map(s)[j] # 0 => j = l
  BY <1>1, Zenon DEF Exact
<1> DEFINE map == Map(s)
<1> HIDE DEF map
<1>5. \A j \in Place : map[j] # 0 => map[j] \in Block \ s.free
  BY <1>4 DEF map
<1> QED BY <1>1, <1>2, <1>3, <1>4, <1>5, Zenon DEF map

LEMMA StaysLooked ==
  ASSUME NEW s \in Good, s.ret = "ok", NEW r, Kin(r, s), Stays(r, s)
  PROVE  /\ r.din.size = s.din.size /\ r.alen = s.alen /\ r.buf = s.buf /\ (s.dirty => r.dirty)
         /\ \A j \in Place : Map(s)[j] # 0 => Map(r)[j] # 0
         /\ \A j \in Index, c \in Cell : At(r, j, c) = At(s, j, c)
         /\ \A j \in Index : Fits(Map(s), s.free, j) => Fits(Map(r), r.free, j)
<1>1. s.ret \in Error
  BY DEF Error
<1>2. \A j \in Place : Map(s)[j] # 0 => Map(s)[j] \in Block \ s.free
  BY <1>1, OwnedFacts
<1>3. Map(r) = Map(s) /\ r.free = s.free /\ \A d \in Block \ s.free : r.data[d] = s.data[d]
  BY DEF Stays
<1>4. \A j \in Index : j \in Place
  BY Constants DEF Index, Place
<1>5. ASSUME NEW j \in Index, NEW c \in Cell PROVE At(r, j, c) = At(s, j, c)
  <2>1. j \in Place
    BY <1>4
  <2> DEFINE map == Map(s)
  <2> HIDE DEF map
  <2>2. map[j] # 0 => r.data[map[j]] = s.data[map[j]]
    BY <1>2, <1>3, <2>1 DEF map
  <2> QED BY <1>3, <2>2 DEF At, map
<1> QED BY <1>3, <1>5 DEF Kin

LEMMA GainsLooked ==
  ASSUME NEW s \in Good, s.ret = "ok", Filled(s), NEW k \in Index, k <= s.din.blocks,
         Map(s)[k] = 0, NEW r, Gains(r, s, k)
  PROVE  /\ \A j \in Place : Map(s)[j] # 0 => Map(r)[j] # 0
         /\ \A j \in Index, c \in Cell : At(r, j, c) = At(s, j, c)
         /\ \A j \in Index : Fits(Map(s), s.free, j) => Fits(Map(r), r.free, j)
         /\ Map(r)[k] # 0
<1> DEFINE map == Map(s)
<1>1. s.ret \in Error
  BY DEF Error
<1>2. /\ s.free \in SUBSET Block /\ s.din.blocks \in Nat
      /\ map \in [Place -> Block \cup {0}]
      /\ \A j \in Place : map[j] # 0 => map[j] \in Block \ s.free
      /\ \A j, l \in Place : map[j] = map[l] /\ map[j] # 0 => j = l
  BY <1>1, OwnedFacts
<1>3. -1 \in Place /\ map[-1] = s.din.indirect
  BY MapAt
<1>4. \A j \in Index : j \in Place /\ j # -1 /\ j \in Int
  BY Constants DEF Index, Place
<1>5. \A j \in Index : j < k => /\ Lack(map, j) = {}
                                /\ j >= NDIRECT => s.din.indirect # 0
  BY <1>2, BelowFilled
<1>6. \A j \in Index : k <= j => k \in Span(j)
  BY DEF Index, Span
<1>7. \A b \in s.free : b # 0
  BY <1>2, Constants
<1>8. map[k] = 0
  OBVIOUS
<1> HIDE DEF map
<1>9. PICK c \in s.free :
       /\ r.data[c] = zero_block
       /\ \A d \in Block \ s.free : d # s.din.indirect => r.data[d] = s.data[d]
       /\ \/ /\ ~Twice(s, k)
             /\ Map(r) = [map EXCEPT ![k] = c] /\ r.free = s.free \ {c}
          \/ /\ Twice(s, k)
             /\ \E b \in s.free \ {c} :
                   /\ Map(r) = [[map EXCEPT ![-1] = b] EXCEPT ![k] = c]
                   /\ r.free = (s.free \ {b}) \ {c}
  BY Zenon DEF Gains, map
<1>10. ASSUME Map(r)[k] = c,
              \A j \in Place : j # k /\ j # -1 => Map(r)[j] = map[j],
              map[-1] # 0 => Map(r)[-1] # 0
       PROVE  /\ \A j \in Place : map[j] # 0 => Map(r)[j] # 0
              /\ \A j \in Index, d \in Cell : At(r, j, d) = At(s, j, d)
              /\ Map(r)[k] # 0
  <2>1. \A j \in Place : map[j] # 0 => Map(r)[j] # 0
    BY <1>8, <1>10
  <2>2. ASSUME NEW j \in Index, NEW d \in Cell PROVE At(r, j, d) = At(s, j, d)
    <3>1. CASE j = k
      <4>1. zero_block[d] = 0
        BY DEF zero_block
      <4> QED BY <1>8, <1>9, <1>10, <3>1, <4>1 DEF At, map
    <3>2. CASE j # k
      <4>1. Map(r)[j] = map[j]
        BY <1>4, <1>10, <3>2
      <4>2. map[j] # 0 => map[j] \in Block \ s.free /\ map[j] # s.din.indirect
        BY <1>2, <1>3, <1>4
      <4>3. map[j] # 0 => r.data[map[j]] = s.data[map[j]]
        BY <1>9, <4>2
      <4> QED BY <4>1, <4>3 DEF At, map
    <3> QED BY <3>1, <3>2
  <2> QED BY <1>7, <1>10, <2>1, <2>2
<1>11. CASE /\ ~Twice(s, k)
            /\ Map(r) = [map EXCEPT ![k] = c] /\ r.free = s.free \ {c}
  <2>1. /\ Map(r)[k] = c /\ \A j \in Place : j # k => Map(r)[j] = map[j]
    BY <1>2, <1>4, <1>11
  <2>2. ASSUME NEW j \in Index, Fits(map, s.free, j) PROVE Fits(Map(r), r.free, j)
    <3>1. k \in Span(j) \/ Lack(map, j) = {}
      <4>1. k <= j \/ j < k
        BY <1>4
      <4> QED BY <1>5, <1>6, <4>1
    <3>2. k \in Place /\ c # 0
      BY <1>4, <1>7
    <3>3. Fits([map EXCEPT ![k] = c], s.free \ {c}, j)
      BY <1>2, <1>8, <2>2, <3>1, <3>2, FitsAdd
    <3> QED BY <1>11, <3>3
  <2>3. map[-1] # 0 => Map(r)[-1] # 0
    BY <1>3, <1>4, <2>1
  <2> QED BY <1>10, <2>1, <2>2, <2>3 DEF map
<1>12. ASSUME Twice(s, k), NEW b \in s.free \ {c},
              Map(r) = [[map EXCEPT ![-1] = b] EXCEPT ![k] = c],
              r.free = (s.free \ {b}) \ {c}
       PROVE  /\ Map(r)[k] = c
              /\ \A j \in Place : j # k /\ j # -1 => Map(r)[j] = map[j]
              /\ map[-1] # 0 => Map(r)[-1] # 0
              /\ \A j \in Index : Fits(map, s.free, j) => Fits(Map(r), r.free, j)
  <2> DEFINE g == [map EXCEPT ![-1] = b]
  <2>1. map[-1] = 0 /\ k >= NDIRECT
    BY <1>3, <1>12 DEF Twice
  <2>2. /\ g \in [Place -> Block \cup {0}] /\ g[-1] = b
        /\ \A j \in Place : j # -1 => g[j] = map[j]
    BY <1>2, <1>3
  <2>3. Map(r) = [g EXCEPT ![k] = c]
    BY <1>12
  <2> HIDE DEF g
  <2>4. Map(r)[k] = c /\ \A j \in Place : j # k => Map(r)[j] = g[j]
    BY <1>4, <2>2, <2>3
  <2>5. ASSUME NEW j \in Index, Fits(map, s.free, j) PROVE Fits(Map(r), r.free, j)
    <3>1. CASE k <= j
      <4>1. -1 \in Span(j)
        BY <1>4, <2>1, <3>1, Constants DEF Span
      <4>2. Fits(g, s.free \ {b}, j)
        BY <1>2, <1>3, <1>7, <2>1, <2>5, <4>1, FitsAdd DEF g
      <4>3. Fits([g EXCEPT ![k] = c], (s.free \ {b}) \ {c}, j)
        <5>1. g[k] = 0 /\ k \in Place /\ c \in s.free \ {b} /\ s.free \ {b} \in SUBSET Block
          BY <1>2, <1>4, <1>8, <2>2
        <5> QED BY <1>6, <1>7, <2>2, <3>1, <4>2, <5>1, FitsAdd
      <4> QED BY <1>12, <2>3, <4>3
    <3>2. CASE j < k
      <4>1. Lack(map, j) = {} /\ ~(j >= NDIRECT)
        BY <1>3, <1>5, <2>1, <3>2
      <4>2. Fits(g, s.free \ {b}, j)
        BY <1>2, <1>3, <1>7, <2>1, <2>5, <4>1, FitsAdd DEF g
      <4>3. Lack(g, j) = {}
        <5>1. \A l \in Span(j) : l \in Place
          BY LackFinite
        <5>2. \A l \in Span(j) : map[l] # 0
          BY <4>1 DEF Lack
        <5>3. \A l \in Span(j) : g[l] # 0
          BY <1>7, <2>2, <5>1, <5>2
        <5> QED BY <5>3 DEF Lack
      <4>4. Fits([g EXCEPT ![k] = c], (s.free \ {b}) \ {c}, j)
        <5>1. g[k] = 0 /\ k \in Place /\ c \in s.free \ {b} /\ s.free \ {b} \in SUBSET Block
          BY <1>2, <1>4, <1>8, <2>2
        <5> QED BY <1>7, <2>2, <4>2, <4>3, <5>1, FitsAdd
      <4> QED BY <1>12, <2>3, <4>4
    <3>3. k <= j \/ j < k
      BY <1>4
    <3> QED BY <3>1, <3>2, <3>3
  <2> QED BY <2>1, <2>2, <2>4, <2>5
<1> QED BY <1>9, <1>10, <1>11, <1>12, Zenon DEF map

\* A state between two turns of a loop.
Whole(s) == s \in Good /\ s.ret \in Error /\ Filled(s)

\* What growing the file block by block keeps of s.
Keeps(r, s) ==
    /\ r.din.size = s.din.size /\ (s.dirty => r.dirty) /\ s.din.blocks <= r.din.blocks
    /\ \A j \in Index : Fits(Map(s), s.free, j) => Fits(Map(r), r.free, j)

\* r has the bytes of s.
Bytes(r, s) == \A j \in Index, c \in Cell : At(r, j, c) = At(s, j, c)

\* What sfs_bmap_load does for the block of index k.
Loads(r, s, k) ==
    \/ k > s.din.blocks /\ r.ret = "index <= din->blocks"
    \/ /\ k <= s.din.blocks /\ Whole(r) /\ Keeps(r, s) /\ Bytes(r, s)
       /\ r.alen = s.alen /\ r.buf = s.buf
       /\ \/ /\ r.ret = "ok" /\ r.ino = Map(r)[k] /\ Map(r)[k] # 0 /\ k < r.din.blocks
             /\ r.din.blocks = IF k = s.din.blocks THEN s.din.blocks + 1 ELSE s.din.blocks
          \/ /\ r.ret = "E_NO_MEM" /\ k = s.din.blocks /\ r.din.blocks = s.din.blocks
             /\ ~Fits(Map(s), s.free, k)

(***************************************************************************)
(* What the search for a block leaves alone.                               *)
(***************************************************************************)
LEMMA SearchedKeeps ==
  ASSUME NEW s, Whole(s), s.ret = "ok", NEW k \in Index, k <= s.din.blocks, NEW r,
         r \in Good, Searched(r, s, k, k = s.din.blocks)
  PROVE  /\ Whole(r) /\ Keeps(r, s) /\ Bytes(r, s)
         /\ r.alen = s.alen /\ r.buf = s.buf /\ r.din.blocks = s.din.blocks
         /\ \/ r.ret = "ok" /\ Map(r)[k] # 0
            \/ r.ret = "E_NO_MEM" /\ k = s.din.blocks /\ ~Fits(Map(s), s.free, k)
<1>1. s \in Good /\ Filled(s) /\ s.ret \in Error /\ s \in Fs
  BY DEF Whole, Good
<1>2. s.din.blocks \in Nat
  BY <1>1 DEF Fs, Inode
<1>3. Kin(r, s)
  BY Zenon DEF Searched
<1>4. r.ret \in Error
  BY Zenon DEF Searched, Error
<1>5. ASSUME \A j \in Place : Map(s)[j] # 0 => Map(r)[j] # 0
      PROVE  Filled(r)
  <2>1. \A j \in 0 .. s.din.blocks - 1 : j \in Place
    BY <1>1, <1>2, Constants DEF Filled, Place
  <2>2. r.din.blocks = s.din.blocks
    BY <1>3 DEF Kin
  <2> DEFINE map == Map(s)
             new == Map(r)
  <2>3. \A j \in 0 .. s.din.blocks - 1 : map[j] # 0
    BY <1>1 DEF Filled
  <2> HIDE DEF map, new
  <2>4. \A j \in 0 .. s.din.blocks - 1 : new[j] # 0
    BY <1>5, <2>1, <2>3 DEF map, new
  <2> QED BY <1>1, <2>2, <2>4 DEF Filled, new
<1>6. ASSUME \A j \in Place : Map(s)[j] # 0 => Map(r)[j] # 0,
             \A j \in Index, c \in Cell : At(r, j, c) = At(s, j, c),
             \A j \in Index : Fits(Map(s), s.free, j) => Fits(Map(r), r.free, j)
      PROVE  /\ Whole(r) /\ Keeps(r, s) /\ Bytes(r, s)
             /\ r.alen = s.alen /\ r.buf = s.buf /\ r.din.blocks = s.din.blocks
  <2>1. Filled(r)
    BY <1>5, <1>6
  <2>2. /\ r.din.size = s.din.size /\ r.din.blocks = s.din.blocks
        /\ r.alen = s.alen /\ r.buf = s.buf /\ (s.dirty => r.dirty)
    BY <1>3 DEF Kin
  <2>3. s.din.blocks <= r.din.blocks
    BY <1>2, <2>2
  <2>4. Keeps(r, s) /\ Bytes(r, s)
    BY <1>6, <2>2, <2>3, Zenon DEF Keeps, Bytes
  <2> QED BY <1>4, <2>1, <2>2, <2>4 DEF Whole
<1>7. CASE r.ret = "ok" /\ Stays(r, s) /\ (k = s.din.blocks => Map(s)[k] # 0)
  <2>1. Map(s)[k] # 0
    <3>1. CASE k = s.din.blocks
      BY <1>7, <3>1
    <3>2. CASE k # s.din.blocks
      <4>1. k \in 0 .. s.din.blocks - 1
        BY <1>2, <3>2 DEF Index
      <4> QED BY <1>1, <4>1 DEF Filled
    <3> QED BY <3>1, <3>2
  <2>2. Map(r)[k] # 0
    BY <1>7, <2>1 DEF Stays
  <2>3. /\ \A j \in Place : Map(s)[j] # 0 => Map(r)[j] # 0
        /\ \A j \in Index, c \in Cell : At(r, j, c) = At(s, j, c)
        /\ \A j \in Index : Fits(Map(s), s.free, j) => Fits(Map(r), r.free, j)
    BY <1>1, <1>3, <1>7, StaysLooked, Zenon
  <2> QED BY <1>6, <1>7, <2>2, <2>3, Zenon
<1>8. CASE r.ret = "ok" /\ Map(s)[k] = 0 /\ Gains(r, s, k)
  <2>1. /\ \A j \in Place : Map(s)[j] # 0 => Map(r)[j] # 0
        /\ \A j \in Index, c \in Cell : At(r, j, c) = At(s, j, c)
        /\ \A j \in Index : Fits(Map(s), s.free, j) => Fits(Map(r), r.free, j)
        /\ Map(r)[k] # 0
    BY <1>1, <1>8, GainsLooked, Zenon
  <2> QED BY <1>6, <1>8, <2>1, Zenon
<1>9. CASE r.ret = "E_NO_MEM" /\ k = s.din.blocks /\ Map(s)[k] = 0 /\ Stays(r, s) /\ Short(s, k)
  <2>1. ~Fits(Map(s), s.free, k)
    BY <1>1, <1>9, ShortNoFit, Zenon
  <2>2. /\ \A j \in Place : Map(s)[j] # 0 => Map(r)[j] # 0
        /\ \A j \in Index, c \in Cell : At(r, j, c) = At(s, j, c)
        /\ \A j \in Index : Fits(Map(s), s.free, j) => Fits(Map(r), r.free, j)
    <3>1. Stays(r, s)
      BY <1>9
    <3> QED BY <1>1, <1>3, <3>1, StaysLooked, Zenon
  <2> QED BY <1>6, <1>9, <2>1, <2>2, Zenon
<1> QED BY <1>7, <1>8, <1>9, Zenon DEF Searched

(***************************************************************************)
(* sfs_bmap_load fails for an index behind the end, or when the disk is    *)
(* full, and else it finds the block of the index.                         *)
(***************************************************************************)
LEMMA LoadEffect ==
  ASSUME NEW s, Whole(s), s.ret = "ok", NEW k \in Index
  PROVE  Loads(sfs_bmap_load(s, k), s, k)
<1> DEFINE create == k = s.din.blocks
           t == sfs_bmap_get(s, k, create)
           Loaded == IF ~sfs_block_inuse(t, t.ino) THEN Fail(t, "sfs_block_inuse(ino)")
                     ELSE IF create THEN [t EXCEPT !.din.blocks = @ + 1] ELSE t
<1>0. SUFFICES ASSUME NEW r, r = sfs_bmap_load(s, k) PROVE Loads(r, s, k)
  OBVIOUS
<1>1. s \in Good /\ s \in Fs /\ s.din.blocks \in Nat /\ Filled(s)
  BY DEF Whole, Good, Fs, Inode
<1>2. CASE k > s.din.blocks
  <2>1. "index <= din->blocks" \in Asserted
    BY DEF Asserted
  <2>2. Fail(s, "index <= din->blocks").ret = "index <= din->blocks"
    BY <1>1, <2>1, FailFields, Zenon
  <2>3. r = Fail(s, "index <= din->blocks")
    BY <1>0, <1>2, Zenon DEF sfs_bmap_load
  <2> QED BY <1>2, <2>2, <2>3 DEF Loads
<1>3. CASE ~(k > s.din.blocks)
  <2>0. k <= s.din.blocks /\ k \in Nat /\ k < NDIRECT + NENTRY /\ k \in Place
    BY <1>1, <1>3, Constants DEF Index, Place
  <2>1. IsBlockOf(t, k) /\ Searched(t, s, k, create)
    <3>1. create \in BOOLEAN
      OBVIOUS
    <3> QED BY <1>1, <2>0, <3>1, Get, Zenon
  <2>2. r = IF t.ret = "ok" THEN Loaded ELSE t
    BY <1>0, <1>3, Zenon DEF sfs_bmap_load, Then
  <2> HIDE DEF t
  <2>3. t \in Good
    BY <2>1 DEF IsBlockOf
  <2>4. /\ Whole(t) /\ Keeps(t, s) /\ Bytes(t, s)
        /\ t.alen = s.alen /\ t.buf = s.buf /\ t.din.blocks = s.din.blocks
        /\ \/ t.ret = "ok" /\ Map(t)[k] # 0
           \/ t.ret = "E_NO_MEM" /\ k = s.din.blocks /\ ~Fits(Map(s), s.free, k)
    BY <2>0, <2>1, <2>3, SearchedKeeps, Zenon
  <2>5. CASE t.ret # "ok"
    <3>1. r = t /\ t.ret = "E_NO_MEM" /\ k = s.din.blocks /\ ~Fits(Map(s), s.free, k)
      BY <2>2, <2>4, <2>5, Zenon
    <3>2. /\ k <= s.din.blocks /\ Whole(r) /\ Keeps(r, s) /\ Bytes(r, s)
          /\ r.alen = s.alen /\ r.buf = s.buf /\ r.din.blocks = s.din.blocks
      BY <2>0, <2>4, <3>1
    <3>3. r.ret = "E_NO_MEM"
      BY <3>1
    <3> QED BY <3>1, <3>2, <3>3, Zenon DEF Loads
  <2>6. CASE t.ret = "ok"
    <3>1. t.ino = Map(t)[k] /\ Map(t)[k] # 0
      BY <2>1, <2>4, <2>6 DEF IsBlockOf
    <3>2. sfs_block_inuse(t, t.ino)
      <4>1. Map(t)[k] \in Block \ t.free
        <5>1. t.ret \in Error
          BY <2>6 DEF Error
        <5> QED BY <2>0, <2>3, <3>1, <5>1, OwnedFacts, Zenon
      <4> QED BY <3>1, <4>1, Zenon DEF sfs_block_inuse
    <3>3. CASE ~create
      <4>1. r = t
        BY <2>2, <2>6, <3>2, <3>3, Zenon
      <4>2. k < t.din.blocks
        BY <1>1, <2>0, <2>4, <3>3
      <4>3. /\ k <= s.din.blocks /\ Whole(r) /\ Keeps(r, s) /\ Bytes(r, s)
            /\ r.alen = s.alen /\ r.buf = s.buf /\ k < r.din.blocks
        BY <2>0, <2>4, <4>1, <4>2
      <4>4. r.ret = "ok" /\ r.ino = Map(r)[k] /\ Map(r)[k] # 0
        BY <2>6, <3>1, <4>1, Zenon
      <4>5. r.din.blocks = IF k = s.din.blocks THEN s.din.blocks + 1 ELSE s.din.blocks
        BY <2>4, <3>3, <4>1
      <4> QED BY <4>3, <4>4, <4>5, Zenon DEF Loads
    <3>4. CASE create
      <4> DEFINE din == [t.din EXCEPT !.blocks = @ + 1]
      <4>1. r = [t EXCEPT !.din = din]
        BY <2>2, <2>6, <3>2, <3>4
      <4>2. /\ din \in Inode /\ din.direct = t.din.direct /\ din.indirect = t.din.indirect
            /\ din.size = t.din.size /\ din.blocks = s.din.blocks + 1
        <5>1. t.din \in Inode
          BY <2>3 DEF Good, Fs
        <5> QED BY <2>4, <5>1 DEF Inode
      <4> HIDE DEF din
      <4>3. /\ r \in Fs /\ r.din = din /\ r.free = t.free /\ r.data = t.data /\ r.dirty = t.dirty
            /\ r.ret = t.ret /\ r.ino = t.ino /\ r.alen = t.alen /\ r.buf = t.buf
        BY <2>3, <4>1, <4>2 DEF Good, Fs
      <4>4. Map(r) = Map(t)
        BY <4>2, <4>3, MapSame
      <4>5. t.ret \in Error /\ Owned(t)
        BY <2>4 DEF Whole, Good
      <4>6. r \in Good
        <5>1. r.din.direct = t.din.direct /\ r.din.indirect = t.din.indirect
          BY <4>2, <4>3
        <5>2. Owned(r)
          BY <4>3, <4>4, <4>5, <5>1, Zenon DEF Owned, Kept
        <5> QED BY <4>3, <5>2 DEF Good
      <4>7. Filled(r)
        <5>1. s.din.blocks + 1 <= NDIRECT + NENTRY
          BY <2>0, <3>4, Constants
        <5>2. \A j \in 0 .. (s.din.blocks + 1) - 1 : j = k \/ j \in 0 .. s.din.blocks - 1
          BY <1>1, <3>4
        <5>3. \A j \in 0 .. t.din.blocks - 1 : Map(t)[j] # 0
          BY <2>4 DEF Whole, Filled
        <5> DEFINE map == Map(t)
        <5> HIDE DEF map
        <5>4. \A j \in 0 .. (s.din.blocks + 1) - 1 : map[j] # 0
          BY <2>4, <3>1, <5>2, <5>3, Zenon DEF map
        <5> QED BY <4>2, <4>3, <4>4, <5>1, <5>4 DEF Filled, map
      <4>8. Whole(r)
        BY <4>3, <4>5, <4>6, <4>7 DEF Whole
      <4>9. Keeps(r, s)
        <5>1. s.din.blocks <= r.din.blocks
          BY <1>1, <4>2, <4>3
        <5> QED BY <2>4, <4>2, <4>3, <4>4, <5>1, Zenon DEF Keeps
      <4>10. Bytes(r, s)
        BY <2>4, <4>3, <4>4, Zenon DEF Bytes, At
      <4>11. k < r.din.blocks
        BY <1>1, <3>4, <4>2, <4>3
      <4>12. k <= s.din.blocks /\ r.alen = s.alen /\ r.buf = s.buf
        BY <2>0, <2>4, <4>3
      <4>13. r.ret = "ok" /\ r.ino = Map(r)[k] /\ Map(r)[k] # 0
        BY <2>6, <3>1, <4>3, <4>4
      <4>14. r.din.blocks = IF k = s.din.blocks THEN s.din.blocks + 1 ELSE s.din.blocks
        BY <3>4, <4>2, <4>3
      <4> QED BY <4>8, <4>9, <4>10, <4>11, <4>12, <4>13, <4>14, Zenon DEF Loads
    <3> QED BY <3>3, <3>4
  <2> QED BY <2>5, <2>6
<1> QED BY <1>2, <1>3

----------------------------------------------------------------------------
(* Giving blocks back.                                                     *)

\* The block of index k of s is free in r.
Drops(r, s, k) ==
    /\ r.din.size = s.din.size /\ r.alen = s.alen /\ r.buf = s.buf /\ (s.dirty => r.dirty)
    /\ Map(r) = [Map(s) EXCEPT ![k] = 0] /\ r.free = s.free \cup {Map(s)[k]}
    /\ \A j \in Index \ {k}, c \in Cell : At(r, j, c) = At(s, j, c)

\* r is what is left of s when the block of index k has been given back.
Frees(r, s, k) ==
    /\ r \in Good /\ r.din.blocks = s.din.blocks /\ r.ret = s.ret
    /\ k \in Index /\ Map(s)[k] # 0 => Drops(r, s, k)

(***************************************************************************)
(* The entry of an indirect block.                                         *)
(***************************************************************************)
LEMMA FreeSub ==
  ASSUME NEW s \in Good, s.ret = "ok", s.din.indirect # 0, NEW index \in 0 .. NENTRY - 1
  PROVE  Frees(sfs_bmap_free_sub(s, s.din.indirect, index), s, NDIRECT + index)
<1> DEFINE ent == s.din.indirect
           b == s.data[ent][index]
           l == NDIRECT + index
<1>1. s \in Fs /\ Owned(s) /\ Exact(Map(s), s.free)
  BY DEF Good, Error, Owned
<1>2. l \in Place /\ -1 \in Place /\ l # -1 /\ Map(s)[-1] = ent /\ Map(s)[l] = b
  <2>1. l # -1
    BY Constants
  <2> QED BY <2>1, MapAt
<1>3. Map(s) \in [Place -> Block \cup {0}] /\ ent \in Block /\ ent \notin s.free
      /\ b \in Block \cup {0} /\ (b # 0 => b \notin s.free) /\ sfs_block_inuse(s, ent)
  BY <1>1, <1>2 DEF Exact, sfs_block_inuse
<1>4. CASE b = 0
  <2>1. sfs_bmap_free_sub(s, ent, index) = s
    BY <1>3, <1>4, Zenon DEF sfs_bmap_free_sub
  <2> QED BY <1>2, <1>4, <2>1, Zenon DEF Frees
<1>5. CASE b # 0
  <2> DEFINE t == [s EXCEPT !.data[ent][index] = 0]
             r == [t EXCEPT !.free = @ \cup {b}]
  <2>1. s.data \in [Block -> [Cell -> Byte]] /\ s.data[ent] \in [Cell -> Byte] /\ s.free \subseteq Block
    BY <1>1, <1>3 DEF Fs
  <2>2. [s.data[ent] EXCEPT ![index] = 0] \in [Cell -> Byte]
    BY <2>1, Constants
  <2>3. t = [s EXCEPT !.data = [s.data EXCEPT ![ent] = [s.data[ent] EXCEPT ![index] = 0]]]
    OBVIOUS
  <2>4. /\ t \in Fs /\ t.free = s.free /\ t.din = s.din /\ t.dirty = s.dirty /\ t.ret = s.ret
        /\ t.alen = s.alen /\ t.buf = s.buf
        /\ t.data[ent] = [s.data[ent] EXCEPT ![index] = 0]
        /\ \A d \in Block \ {ent} : t.data[d] = s.data[d]
    BY <1>1, <1>3, <2>1, <2>2, <2>3 DEF Fs
  <2> HIDE DEF t
  <2>5. sfs_bmap_free_sub(s, ent, index) = r
    <3>1. sfs_bmap_free_sub(s, ent, index) = sfs_block_free(t, b)
      BY <1>3, <1>5, Zenon DEF sfs_bmap_free_sub, t
    <3>2. sfs_block_inuse(t, b)
      BY <1>3, <1>5, <2>4 DEF sfs_block_inuse
    <3> QED BY <3>1, <3>2, Zenon DEF sfs_block_free
  <2>6. /\ r \in Fs /\ r.free = s.free \cup {b} /\ r.din = s.din /\ r.dirty = s.dirty
        /\ r.ret = s.ret /\ r.alen = s.alen /\ r.buf = s.buf
        /\ r.data[ent] = [s.data[ent] EXCEPT ![index] = 0]
        /\ \A d \in Block \ {ent} : r.data[d] = s.data[d]
    BY <1>3, <1>5, <2>1, <2>4 DEF Fs
  <2> HIDE DEF r
  <2>7. Map(r) = [Map(s) EXCEPT ![NDIRECT + index] = 0]
    <3>1. 0 \in Block \cup {0}
      OBVIOUS
    <3>2. r.din.direct = s.din.direct /\ r.din.indirect = s.din.indirect
      BY <2>6
    <3>3. NamesEntry(r, s, index, 0)
      BY <1>3, <2>1, <2>6, <3>2 DEF NamesEntry
    <3>4. Updated(Map(r), Map(s), NDIRECT + index, 0)
      BY <3>1, <3>3, SetEntry, Zenon
    <3> QED BY <3>4 DEF Updated
  <2>8. Exact([Map(s) EXCEPT ![l] = 0], s.free \cup {b})
    <3>1. Map(s)[l] # 0
      BY <1>2, <1>5
    <3> HIDE DEF l
    <3>2. Exact([Map(s) EXCEPT ![l] = 0], s.free \cup {Map(s)[l]})
      BY <1>1, <1>2, <3>1, ExactDel
    <3> QED BY <1>2, <3>2
  <2>9. Owned(r)
    BY <1>1, <2>6, <2>7, <2>8 DEF Owned, Kept
  <2>10. r \in Good
    BY <2>6, <2>9 DEF Good
  <2>11. \A j \in Index \ {l}, c \in Cell : At(r, j, c) = At(s, j, c)
    <3> SUFFICES ASSUME NEW j \in Index \ {l}, NEW c \in Cell PROVE At(r, j, c) = At(s, j, c)
      OBVIOUS
    <3> HIDE DEF l
    <3>1. j \in Place /\ j # -1 /\ j # l
      BY Constants DEF Index, Place
    <3> DEFINE g == [Map(s) EXCEPT ![l] = 0]
    <3>2. g[j] = Map(s)[j]
      BY <1>3, <3>1
    <3>3. Map(r) = g
      BY <2>7 DEF l
    <3> HIDE DEF g
    <3>4. Map(r)[j] = Map(s)[j]
      BY <3>2, <3>3
    <3>5. Map(s)[j] # 0 => Map(s)[j] \in Block \ {ent}
      <4>1. s.ret \in Error
        BY DEF Error
      <4>2. Map(s)[j] # 0 => Map(s)[j] \in Block /\ Map(s)[j] # Map(s)[-1]
        BY <1>2, <3>1, <4>1, OwnedFacts, Zenon
      <4> QED BY <1>2, <4>2
    <3> QED BY <2>6, <3>4, <3>5, Zenon DEF At
  <2>12. Drops(r, s, l)
    <3>1. r.free = s.free \cup {Map(s)[l]}
      BY <1>2, <2>6
    <3>2. /\ r.din.size = s.din.size /\ r.alen = s.alen /\ r.buf = s.buf /\ (s.dirty => r.dirty)
      BY <2>6
    <3> QED BY <2>7, <2>11, <3>1, <3>2, Zenon DEF Drops
  <2>13. r.din.blocks = s.din.blocks /\ r.ret = s.ret
    BY <2>6
  <2> QED BY <2>5, <2>10, <2>12, <2>13, Zenon DEF Frees
<1> QED BY <1>4, <1>5

(***************************************************************************)
(* The block of an index.                                                  *)
(***************************************************************************)
LEMMA FreeBlock ==
  ASSUME NEW s \in Good, s.ret = "ok", NEW index \in Nat
  PROVE  Frees(sfs_bmap_free(s, index), s, index)
<1>1. s \in Fs /\ Owned(s) /\ Exact(Map(s), s.free)
  BY DEF Good, Error, Owned
<1>2. CASE index < NDIRECT
  <2> DEFINE b == s.din.direct[index]
             r == [sfs_block_free(s, b) EXCEPT !.din.direct[index] = 0, !.dirty = TRUE]
  <2>1. index \in 0 .. NDIRECT - 1
    BY <1>2, Constants
  <2>2. index \in Place /\ Map(s)[index] = b
    BY <2>1, MapAt
  <2>3. CASE b = 0
    <3>1. sfs_bmap_free(s, index) = s
      BY <1>2, <2>3, Zenon DEF sfs_bmap_free
    <3> QED BY <2>2, <2>3, <3>1, Zenon DEF Frees
  <2>4. CASE b # 0
    <3>1. Map(s) \in [Place -> Block \cup {0}] /\ b \in Block /\ b \notin s.free
      BY <1>1, <2>2, <2>4 DEF Exact
    <3>2. sfs_bmap_free(s, index) = r
      BY <1>2, <2>4, Zenon DEF sfs_bmap_free
    <3>3. sfs_block_free(s, b) = [s EXCEPT !.free = @ \cup {b}]
      BY <3>1 DEF sfs_block_free, sfs_block_inuse
    <3>4. s.din \in Inode /\ s.din.direct \in [0 .. NDIRECT - 1 -> Block \cup {0}]
      BY <1>1 DEF Fs, Inode
    <3> DEFINE din == [s.din EXCEPT !.direct = [s.din.direct EXCEPT ![index] = 0]]
    <3>5. /\ din \in Inode /\ din.direct = [s.din.direct EXCEPT ![index] = 0]
          /\ din.indirect = s.din.indirect /\ din.blocks = s.din.blocks
          /\ din.size = s.din.size
      BY <3>4 DEF Inode
    <3>6. r = [s EXCEPT !.free = @ \cup {b}, !.din = din, !.dirty = TRUE]
      BY <1>1, <3>3 DEF Fs
    <3> HIDE DEF din
    <3>7. /\ r \in Fs /\ r.free = s.free \cup {b} /\ r.din = din /\ r.dirty = TRUE
          /\ r.data = s.data /\ r.ret = s.ret /\ r.alen = s.alen /\ r.buf = s.buf
      <4>1. s.free \cup {b} \in SUBSET Block
        BY <1>1, <3>1 DEF Fs
      <4> QED BY <1>1, <3>5, <3>6, <4>1 DEF Fs
    <3> HIDE DEF r
    <3>8. Map(r) = [Map(s) EXCEPT ![index] = 0]
      <4>1. 0 \in Block \cup {0}
        OBVIOUS
      <4>2. /\ r.din.direct = [s.din.direct EXCEPT ![index] = 0]
            /\ r.din.indirect = s.din.indirect
            /\ s.din.indirect # 0 => r.data[s.din.indirect] = s.data[s.din.indirect]
        BY <3>5, <3>7
      <4>3. NamesDirect(r, s, index, 0)
        BY <3>1, <3>4, <4>2 DEF NamesDirect
      <4>4. Updated(Map(r), Map(s), index, 0)
        BY <2>1, <4>1, <4>3, SetDirect, Zenon
      <4> QED BY <4>4 DEF Updated
    <3>9. Exact([Map(s) EXCEPT ![index] = 0], s.free \cup {b})
      BY <1>1, <2>2, <2>4, ExactDel
    <3>10. Owned(r)
      BY <3>7, <3>8, <3>9 DEF Owned, Kept
    <3>11. r \in Good
      BY <3>7, <3>10 DEF Good
    <3>12. \A j \in Index \ {index}, c \in Cell : At(r, j, c) = At(s, j, c)
      <4> SUFFICES ASSUME NEW j \in Index \ {index}, NEW c \in Cell
                   PROVE  At(r, j, c) = At(s, j, c)
        OBVIOUS
      <4>1. j \in Place /\ j # index
        BY Constants DEF Index, Place
      <4>2. Map(r)[j] = Map(s)[j]
        <5> DEFINE g == [Map(s) EXCEPT ![index] = 0]
        <5>1. g[j] = Map(s)[j]
          BY <3>1, <4>1
        <5>2. Map(r) = g
          BY <3>8
        <5> HIDE DEF g
        <5> QED BY <5>1, <5>2
      <4> QED BY <3>7, <4>2, Zenon DEF At
    <3>13. Drops(r, s, index)
      <4>1. r.free = s.free \cup {Map(s)[index]}
        BY <2>2, <3>7
      <4>2. r.din.size = s.din.size /\ r.alen = s.alen /\ r.buf = s.buf /\ (s.dirty => r.dirty)
        BY <3>5, <3>7
      <4> QED BY <3>8, <3>12, <4>1, <4>2, Zenon DEF Drops
    <3>14. r.din.blocks = s.din.blocks /\ r.ret = s.ret
      BY <3>5, <3>7
    <3> QED BY <3>2, <3>11, <3>13, <3>14, Zenon DEF Frees
  <2> QED BY <2>3, <2>4
<1>3. CASE ~(index < NDIRECT) /\ index - NDIRECT < NENTRY /\ s.din.indirect # 0
  <2>1. index - NDIRECT \in 0 .. NENTRY - 1
    BY <1>3, Constants
  <2>2. sfs_bmap_free(s, index) = sfs_bmap_free_sub(s, s.din.indirect, index - NDIRECT)
    BY <1>3, Zenon DEF sfs_bmap_free
  <2> DEFINE i == index - NDIRECT
  <2>3. NDIRECT + i = index
    BY Constants
  <2> HIDE DEF i
  <2>4. Frees(sfs_bmap_free_sub(s, s.din.indirect, i), s, NDIRECT + i)
    BY <1>3, <2>1, FreeSub DEF i
  <2> QED BY <2>2, <2>3, <2>4 DEF i
<1>4. CASE ~(index < NDIRECT) /\ ~(index - NDIRECT < NENTRY /\ s.din.indirect # 0)
  <2>1. sfs_bmap_free(s, index) = s
    BY <1>4, Zenon DEF sfs_bmap_free
  <2>2. index \in Index => Map(s)[index] = 0
    <3> SUFFICES ASSUME index \in Index PROVE Map(s)[index] = 0
      OBVIOUS
    <3> DEFINE i == index - NDIRECT
    <3>1. i \in 0 .. NENTRY - 1 /\ NDIRECT + i = index /\ s.din.indirect = 0
      BY <1>4, Constants DEF Index
    <3> HIDE DEF i
    <3> QED BY <3>1, MapAt
  <2> QED BY <2>1, <2>2, Zenon DEF Frees
<1> QED BY <1>2, <1>3, <1>4

(***************************************************************************)
(* sfs_bmap_truncate.                                                      *)
(***************************************************************************)
LEMMA Truncate ==
  ASSUME NEW s \in Good, s.ret = "ok"
  PROVE  sfs_bmap_truncate(s) \in Good
<1>1. s \in Fs /\ s.din.blocks \in Nat
  BY DEF Good, Fs, Inode
<1>2. CASE s.din.blocks = 0
  <2>1. "din->blocks != 0" \in Asserted
    BY DEF Asserted
  <2>2. Fail(s, "din->blocks != 0") \in Good
    BY <1>1, <2>1, AssertFails, Zenon
  <2> QED BY <1>2, <2>2 DEF sfs_bmap_truncate
<1>3. CASE s.din.blocks # 0
  <2> DEFINE t == sfs_bmap_free(s, s.din.blocks - 1)
             r == [t EXCEPT !.din.blocks = @ - 1, !.dirty = TRUE]
  <2>1. Frees(t, s, s.din.blocks - 1)
    <3>1. s.din.blocks - 1 \in Nat
      BY <1>1, <1>3
    <3> QED BY <3>1, FreeBlock
  <2>2. sfs_bmap_truncate(s) = IF t.ret = "ok" THEN r ELSE t
    BY <1>3 DEF sfs_bmap_truncate, Then
  <2> HIDE DEF t
  <2>3. t \in Good /\ t \in Fs /\ t.din.blocks - 1 \in Nat
    BY <1>1, <1>3, <2>1 DEF Frees, Good
  <2>4. CASE t.ret = "ok"
    <3> DEFINE din == [t.din EXCEPT !.blocks = @ - 1]
    <3>1. din \in Inode /\ din.direct = t.din.direct /\ din.indirect = t.din.indirect
      BY <2>3 DEF Fs, Inode
    <3>2. r = [t EXCEPT !.din = din, !.dirty = TRUE]
      OBVIOUS
    <3> HIDE DEF din
    <3>3. r \in Fs /\ r.din = din /\ r.free = t.free /\ r.data = t.data /\ r.dirty = TRUE
      BY <2>3, <3>1, <3>2 DEF Fs
    <3> HIDE DEF r
    <3>4. Map(r) = Map(t)
      BY <3>1, <3>3, MapSame
    <3>5. Owned(t)
      BY <2>3, <2>4 DEF Good, Error
    <3>6. Owned(r)
      BY <3>3, <3>4, <3>5 DEF Owned, Kept
    <3> QED BY <2>2, <2>4, <3>3, <3>6 DEF Good
  <2>5. CASE t.ret # "ok"
    BY <2>2, <2>3, <2>5
  <2> QED BY <2>4, <2>5
<1> QED BY <1>2, <1>3

----------------------------------------------------------------------------
(* Reading and writing.                                                    *)

(***************************************************************************)
(* Division by the size of a block.                                        *)
(***************************************************************************)
LEMMA DivMod ==
  ASSUME NEW B \in Nat \ {0}, NEW a \in Nat
  PROVE  a \div B \in Nat /\ a % B \in 0 .. B - 1 /\ a = B * (a \div B) + (a % B)
OBVIOUS

LEMMA Multiples ==
  ASSUME NEW B \in Nat \ {0}, NEW p \in Nat, NEW q \in Nat, p < q
  PROVE  B * p + B <= B * q
OBVIOUS

LEMMA Next1 ==
  ASSUME NEW B \in Nat, NEW p \in Nat
  PROVE  B * (p + 1) = B * p + B
OBVIOUS

\* A part of one block.
IsPiece(x) == /\ x.blk \in Nat /\ x.off \in Nat /\ x.len \in Nat
              /\ \A i \in 1 .. x.len : x.off + i - 1 \in Cell

\* The pieces P are parts of successive blocks, each not empty and all but the
\* last up to the end of its block, and lie from offset a to offset b.
Covers(P, a, b) ==
    /\ Len(P) \in Nat /\ Len(P) > 0
    /\ \A i \in 1 .. Len(P) :
          /\ IsPiece(P[i]) /\ P[i].len > 0 /\ P[i].off + P[i].len <= BLKSIZE
          /\ P[i].blk = P[1].blk + i - 1
          /\ i > 1 => P[i].off = 0
          /\ i < Len(P) => P[i].off + P[i].len = BLKSIZE
    /\ a = BLKSIZE * P[1].blk + P[1].off
    /\ b = BLKSIZE * P[Len(P)].blk + P[Len(P)].off + P[Len(P)].len

(***************************************************************************)
(* Three sequences one behind the other.                                   *)
(***************************************************************************)
LEMMA ThreeParts ==
  ASSUME NEW S, NEW f \in Seq(S), NEW m \in Seq(S), NEW t \in Seq(S)
  PROVE  /\ f \o m \o t \in Seq(S)
         /\ Len(f \o m \o t) = Len(f) + Len(m) + Len(t)
         /\ \A i \in 1 .. Len(f \o m \o t) :
               (f \o m \o t)[i] = IF i <= Len(f) THEN f[i]
                                  ELSE IF i <= Len(f) + Len(m) THEN m[i - Len(f)]
                                  ELSE t[i - (Len(f) + Len(m))]
OBVIOUS

(***************************************************************************)
(* Pieces gives parts of successive blocks.                                *)
(***************************************************************************)
LEMMA PiecesCover ==
  ASSUME NEW offset \in Nat, NEW endpos \in Nat, offset < endpos
  PROVE  Covers(Pieces(offset, endpos), offset, endpos)
<1> DEFINE B == BLKSIZE
           blkno  == offset \div B
           blkoff == offset % B
           q      == endpos \div B
           r      == endpos % B
           nblks  == q - blkno
           head   == IF blkoff # 0 THEN 1 ELSE 0
           whole  == nblks - head
           first  == [blk |-> blkno, off |-> blkoff,
                      len |-> IF nblks # 0 THEN B - blkoff ELSE endpos - offset]
           middle == [i \in 1 .. whole |-> [blk |-> blkno + head + i - 1, off |-> 0, len |-> B]]
           last   == [blk |-> blkno + head + whole, off |-> 0, len |-> r]
           front  == IF head = 1 THEN <<first>> ELSE <<>>
           tail   == IF r # 0 THEN <<last>> ELSE <<>>
           S      == [blk : Int, off : Int, len : Int]
<1>0. SUFFICES ASSUME NEW P, P = Pieces(offset, endpos) PROVE Covers(P, offset, endpos)
  OBVIOUS
<1>1. B \in Nat \ {0} /\ \A c \in 0 .. B - 1 : c \in Cell
  BY Constants
<1>2. /\ blkno \in Nat /\ blkoff \in 0 .. B - 1 /\ offset = B * blkno + blkoff
      /\ q \in Nat /\ r \in 0 .. B - 1 /\ endpos = B * q + r
  BY <1>1, DivMod, Zenon
<1>3. P = IF head = 1 /\ nblks = 0 THEN <<first>> ELSE front \o middle \o tail
  BY <1>0, Zenon DEF Pieces
<1> HIDE DEF B, blkno, blkoff, q, r
<1>4. /\ blkno <= q
      /\ blkno = q => B * blkno = B * q
      /\ nblks \in Nat /\ (nblks = 0 => blkno = q)
  <2>1. q < blkno => B * q + B <= B * blkno
    BY <1>1, <1>2, Multiples
  <2> DEFINE x == B * q
             y == B * blkno
  <2>2. x \in Int /\ y \in Int
    BY <1>1, <1>2
  <2>3. blkno = q => y = x
    OBVIOUS
  <2> HIDE DEF x, y
  <2>4. blkno <= q
    BY <1>1, <1>2, <2>1, <2>2 DEF x, y
  <2> QED BY <1>2, <2>3, <2>4 DEF x, y
<1> HIDE DEF nblks
<1>5. ASSUME NEW x, x.blk \in Nat, x.off \in Nat, x.len \in Nat, x.off + x.len <= B
      PROVE  IsPiece(x)
  <2>1. \A i \in 1 .. x.len : x.off + i - 1 \in 0 .. B - 1
    BY <1>1, <1>5
  <2> QED BY <1>1, <1>5, <2>1 DEF IsPiece
<1>6. CASE head = 1 /\ nblks = 0
  <2>1. P = <<first>>
    BY <1>3, <1>6
  <2>2. /\ first.blk = blkno /\ first.off = blkoff /\ first.len = endpos - offset
        /\ first.off + first.len = r
    BY <1>1, <1>2, <1>4, <1>6
  <2> HIDE DEF first
  <2>3. Len(P) = 1 /\ P[1] = first
    BY <2>1
  <2>4. IsPiece(first) /\ first.len > 0 /\ first.off + first.len <= B
    BY <1>1, <1>2, <1>5, <2>2
  <2>5. \A i \in 1 .. Len(P) : i = 1
    BY <2>3
  <2>6. endpos = B * first.blk + first.off + first.len
    BY <1>2, <2>2, <2>4, <1>1
  <2>7. first.blk = first.blk + 1 - 1
    BY <1>2, <2>2
  <2> QED BY <1>2, <2>2, <2>3, <2>4, <2>5, <2>6, <2>7 DEF Covers, B
<1>7. CASE ~(head = 1 /\ nblks = 0)
  <2>1. whole \in Nat /\ head \in {0, 1} /\ head \in Nat /\ nblks = head + whole
        /\ (head = 1 <=> blkoff # 0) /\ (head = 1 => nblks # 0)
    BY <1>4, <1>7
  <2>2. first \in S /\ last \in S /\ middle \in Seq(S)
    <3>1. middle \in [1 .. whole -> S]
      BY <1>1, <1>2, <2>1
    <3>2. middle \in Seq(S)
      <4> DEFINE w == whole
      <4>1. w \in Nat /\ middle \in [1 .. w -> S]
        BY <2>1, <3>1
      <4> HIDE DEF middle, w, S
      <4> QED BY <4>1
    <3> QED BY <1>1, <1>2, <1>4, <2>1, <3>2
  <2>3. /\ head = 1 => first.blk = blkno /\ first.off = blkoff /\ first.len = B - blkoff
        /\ last.blk = blkno + head + whole /\ last.off = 0 /\ last.len = r
        /\ \A i \in 1 .. whole : /\ middle[i].blk = blkno + head + i - 1
                                 /\ middle[i].off = 0 /\ middle[i].len = B
    BY <2>1
  <2>4. Len(middle) = whole
    BY <2>1
  <2> DEFINE h == head
             w == whole
  <2> HIDE DEF first, middle, last, head, whole, S
  <2>5. /\ front \in Seq(S) /\ Len(front) = h /\ (h = 1 => front[1] = first)
    BY <2>1, <2>2 DEF h
  <2> DEFINE e == IF r # 0 THEN 1 ELSE 0
  <2>6. /\ tail \in Seq(S) /\ Len(tail) = e /\ (e = 1 => tail[1] = last)
    BY <2>2
  <2>7. e \in {0, 1} /\ (e = 1 <=> r # 0) /\ h \in {0, 1} /\ w \in Nat
    BY <2>1 DEF h, w
  <2> HIDE DEF front, tail, e, h, w
  <2>8. P = front \o middle \o tail
    BY <1>3, <1>7 DEF front, tail
  <2>9. /\ Len(P) = h + w + e
        /\ \A i \in 1 .. Len(P) : P[i] = IF i <= h THEN front[i]
                                         ELSE IF i <= h + w THEN middle[i - h]
                                         ELSE tail[i - (h + w)]
    <3>0. front \in Seq(S) /\ middle \in Seq(S) /\ tail \in Seq(S)
      BY <2>2, <2>5, <2>6
    <3>1. /\ Len(P) = Len(front) + Len(middle) + Len(tail)
          /\ \A i \in 1 .. Len(P) : P[i] = IF i <= Len(front) THEN front[i]
                                           ELSE IF i <= Len(front) + Len(middle)
                                           THEN middle[i - Len(front)]
                                           ELSE tail[i - (Len(front) + Len(middle))]
      BY ONLY <2>8, <3>0, ThreeParts
    <3>2. Len(middle) = w
      BY <2>4 DEF w
    <3> QED BY <2>5, <2>6, <3>1, <3>2
  <2>10. ASSUME NEW i \in 1 .. Len(P)
         PROVE  /\ P[i].blk = blkno + i - 1
                /\ P[i].off = IF i = 1 THEN blkoff ELSE 0
                /\ P[i].len = IF i <= h + w THEN B - P[i].off ELSE r
                /\ i > h + w => i = Len(P) /\ r # 0
    <3>1. CASE i <= h
      <4>1. i = 1 /\ h = 1 /\ P[i] = first
        BY <2>5, <2>7, <2>9, <3>1
      <4> QED BY <1>2, <2>3, <2>7, <4>1 DEF h
    <3>2. CASE ~(i <= h) /\ i <= h + w
      <4>1. P[i] = middle[i - h] /\ i - h \in 1 .. w
        BY <2>7, <2>9, <3>2
      <4>2. /\ middle[i - h].blk = blkno + h + (i - h) - 1
            /\ middle[i - h].off = 0 /\ middle[i - h].len = B
        BY <2>3, <4>1 DEF h, w
      <4>3. i = 1 => blkoff = 0
        BY <2>1, <2>7, <3>2 DEF h
      <4> QED BY <1>1, <1>2, <2>7, <3>2, <4>1, <4>2, <4>3
    <3>3. CASE i > h + w
      <4>1. i = h + w + 1 /\ e = 1 /\ i = Len(P)
        BY <2>7, <2>9, <3>3
      <4>2. i - (h + w) = 1 /\ ~(i <= h) /\ ~(i <= h + w)
        BY <2>7, <4>1
      <4>3. P[i] = last
        BY <2>6, <2>9, <4>1, <4>2
      <4>4. i = 1 => blkoff = 0
        BY <2>1, <2>7, <4>1 DEF h
      <4>5. last.blk = blkno + h + w
        BY <2>3 DEF h, w
      <4> QED BY <1>2, <2>3, <2>7, <4>1, <4>3, <4>4, <4>5
    <3> QED BY <2>7, <3>1, <3>2, <3>3
  <2>11. Len(P) > 0
    <3>0. Len(P) = h + w + e
      BY <2>9
    <3> SUFFICES ASSUME h = 0, w = 0, e = 0 PROVE FALSE
      BY <2>7, <3>0
    <3>1. blkoff = 0 /\ nblks = 0 /\ r = 0
      BY <1>2, <2>1, <2>7 DEF h, w
    <3> QED BY <1>1, <1>2, <1>4, <3>1
  <2>12. ASSUME NEW i \in 1 .. Len(P)
         PROVE  /\ IsPiece(P[i]) /\ P[i].len > 0 /\ P[i].off + P[i].len <= B
                /\ P[i].blk = P[1].blk + i - 1
                /\ i > 1 => P[i].off = 0
                /\ i < Len(P) => P[i].off + P[i].len = B
    <3>1. 1 \in 1 .. Len(P)
      BY <2>7, <2>9, <2>11
    <3>2. P[1].blk = blkno
      BY <1>2, <2>10, <3>1, SMTT(30)
    <3>0. i \in Nat /\ i >= 1 /\ Len(P) \in Nat
      BY <2>7, <2>9
    <3>3. P[i].off \in 0 .. B - 1 /\ P[i].blk \in Nat
      <4>1. P[i].blk = blkno + i - 1 /\ (P[i].off = blkoff \/ P[i].off = 0)
        BY <2>10
      <4> QED BY <1>1, <1>2, <3>0, <4>1
    <3>4. /\ P[i].len \in Nat /\ P[i].len > 0 /\ P[i].off + P[i].len <= B
      <4>1. i > h + w => P[i].off = 0
        <5> SUFFICES ASSUME i > h + w, i = 1 PROVE blkoff = 0
          BY <2>10
        <5>1. h = 0
          BY <2>7
        <5> QED BY <2>1, <5>1 DEF h
      <4>2. P[i].len = IF i <= h + w THEN B - P[i].off ELSE r
        BY <2>10
      <4>3. i > h + w => r # 0
        BY <2>10
      <4> DEFINE off == P[i].off
                 len == P[i].len
                 b == h + w
      <4>4. /\ off \in 0 .. B - 1 /\ len = (IF i <= b THEN B - off ELSE r) /\ b \in Nat
            /\ i > b => off = 0 /\ r # 0
        BY <2>7, <3>3, <4>1, <4>2, <4>3
      <4> HIDE DEF off, len, b
      <4>5. len \in Nat /\ len > 0 /\ off + len <= B
        <5>1. CASE i <= b
          BY <1>1, <4>4, <5>1
        <5>2. CASE ~(i <= b)
          BY <1>1, <1>2, <3>0, <4>4, <5>2
        <5> QED BY <5>1, <5>2
      <4> QED BY <4>5 DEF off, len
    <3>5. IsPiece(P[i])
      BY <1>1, <1>5, <3>3, <3>4
    <3>6. i < Len(P) => P[i].off + P[i].len = B
      BY <1>1, <2>7, <2>9, <2>10, <3>3, SMTT(30)
    <3> QED BY <1>2, <2>10, <3>2, <3>4, <3>5, <3>6
  <2>13. offset = B * P[1].blk + P[1].off
    <3>1. 1 \in 1 .. Len(P)
      BY <2>7, <2>9, <2>11
    <3>2. P[1].blk = blkno /\ P[1].off = blkoff
      BY <1>2, <2>10, <3>1, SMTT(30)
    <3> QED BY <1>2, <3>2
  <2>14. endpos = B * P[Len(P)].blk + P[Len(P)].off + P[Len(P)].len
    <3> DEFINE i == Len(P)
               k == P[i].blk
    <3>1. i \in 1 .. Len(P) /\ i = h + w + e
      BY <2>7, <2>9, <2>11
    <3>2. k = blkno + i - 1 /\ q = blkno + h + w
      <4>1. q = blkno + nblks
        BY <1>2, <1>4 DEF nblks
      <4> QED BY <1>2, <2>1, <2>7, <2>10, <3>1, <4>1 DEF h, w
    <3> HIDE DEF i
    <3>3. CASE e = 1
      <4>1. k = q /\ P[i].len = r /\ i > h + w
        BY <1>2, <2>7, <2>10, <3>1, <3>2, <3>3 DEF i
      <4>2. P[i].off = 0
        <5> SUFFICES ASSUME i = 1 PROVE blkoff = 0
          BY <2>10, <3>1 DEF i
        <5>1. h = 0
          BY <2>7, <4>1
        <5> QED BY <2>1, <5>1 DEF h
      <4>3. B * k = B * q
        BY <4>1
      <4> HIDE DEF k
      <4>4. B * q \in Int
        BY <1>1, <1>2
      <4> QED BY <1>2, <4>1, <4>2, <4>3, <4>4 DEF k, i
    <3>4. CASE e = 0
      <4>1. q = k + 1 /\ r = 0 /\ i <= h + w /\ k \in Nat
        BY <1>2, <2>7, <2>11, <3>1, <3>2, <3>4 DEF i
      <4>2. P[i].off + P[i].len = B /\ P[i].off \in Int /\ P[i].len \in Int
        <5>1. P[i].off = blkoff \/ P[i].off = 0
          BY <2>10, <3>1 DEF i
        <5>2. P[i].len = B - P[i].off
          BY <2>10, <3>1, <4>1 DEF i
        <5> QED BY <1>1, <1>2, <5>1, <5>2
      <4> HIDE DEF k
      <4>3. B * (k + 1) = B * k + B
        BY <1>1, <4>1, Next1
      <4>4. endpos = B * k + B /\ B * k \in Int
        BY <1>1, <1>2, <4>1, <4>3
      <4> QED BY <1>1, <4>2, <4>4 DEF k, i
    <3> QED BY <2>7, <3>3, <3>4
  <2>15. Len(P) \in Nat
    BY <2>7, <2>9
  <2> QED BY <2>11, <2>12, <2>13, <2>14, <2>15 DEF Covers, B
<1> QED BY <1>6, <1>7

(***************************************************************************)
(* Copying a piece: the block map stays, because the block is not the      *)
(* indirect one.                                                           *)
(***************************************************************************)
LEMMA BufOp ==
  ASSUME NEW u, IsData(u), u.ret = "ok", NEW x, IsPiece(x), NEW buf, NEW write,
         write => \A i \in Int : buf[i] \in Byte
  PROVE  sfs_buf_op(u, x, buf, write) \in Good
<1> DEFINE r == sfs_buf_op(u, x, buf, write)
           d == u.data[u.ino]
<1>1. /\ u \in Fs /\ Owned(u) /\ u.ino \in Block
      /\ u.data \in [Block -> [Cell -> Byte]] /\ u.buf \in Seq(Byte) /\ u.alen \in Nat
      /\ d \in [Cell -> Byte]
  BY DEF IsData, Good, Error, Fs
<1>2. u.ino # u.din.indirect
  <2>1. PICK k \in Place : k # -1 /\ u.ino = Map(u)[k]
    BY DEF IsData
  <2>2. -1 \in Place /\ Map(u)[-1] = u.din.indirect
    BY MapAt
  <2> QED BY <1>1, <2>1, <2>2, Constants DEF Owned, Exact
<1>3. x.off \in Nat /\ x.len \in Nat /\ \A i \in 1 .. x.len : x.off + i - 1 \in Cell
  BY DEF IsPiece
<1>4. r \in Fs /\ Same(r, u)
  <2>1. CASE write
    <3> DEFINE e == [c \in Cell |-> IF c \in x.off .. x.off + x.len - 1
                                    THEN buf[u.alen + c - x.off + 1] ELSE d[c]]
    <3>1. r = [u EXCEPT !.alen = @ + x.len, !.data = [u.data EXCEPT ![u.ino] = e]]
      BY <2>1 DEF sfs_buf_op
    <3>2. e \in [Cell -> Byte]
      <4> SUFFICES ASSUME NEW c \in Cell PROVE e[c] \in Byte
        OBVIOUS
      <4>1. u.alen + c - x.off + 1 \in Int
        BY <1>1, <1>3 DEF Cell
      <4> QED BY <1>1, <2>1, <4>1
    <3> HIDE DEF e, r
    <3>3. [u.data EXCEPT ![u.ino] = e] \in [Block -> [Cell -> Byte]]
          /\ \A b \in Block : b # u.ino => [u.data EXCEPT ![u.ino] = e][b] = u.data[b]
      BY <1>1, <3>2
    <3>4. /\ r \in Fs /\ r.din = u.din /\ r.free = u.free /\ r.dirty = u.dirty
          /\ r.data = [u.data EXCEPT ![u.ino] = e]
      <4>1. u.alen + x.len \in Nat
        BY <1>1, <1>3
      <4> QED BY <1>1, <3>1, <3>3, <4>1 DEF Fs
    <3>5. u.din.indirect # 0 => u.din.indirect \in Block
      BY <1>1 DEF Fs, Inode
    <3> QED BY <1>2, <3>3, <3>4, <3>5 DEF Same
  <2>2. CASE ~write
    <3> DEFINE e == [i \in 1 .. x.len |-> d[x.off + i - 1]]
    <3>1. r = [u EXCEPT !.alen = @ + x.len, !.buf = @ \o e]
      BY <2>2 DEF sfs_buf_op
    <3>2. e \in [1 .. x.len -> Byte]
      BY <1>1, <1>3
    <3> HIDE DEF e, r
    <3>3. e \in Seq(Byte)
      BY <1>3, <3>2
    <3>4. u.buf \o e \in Seq(Byte)
      BY <1>1, <3>3
    <3>5. /\ r \in Fs /\ r.din = u.din /\ r.free = u.free /\ r.dirty = u.dirty
          /\ r.data = u.data
      <4>1. u.alen + x.len \in Nat
        BY <1>1, <1>3
      <4> QED BY <1>1, <3>1, <3>4, <4>1 DEF Fs
    <3> QED BY <3>5 DEF Same
  <2> QED BY <2>1, <2>2
<1> HIDE DEF r
<1>5. Owned(r)
  BY <1>1, <1>4, SameOwned
<1> QED BY <1>4, <1>5 DEF Good, r

\* r has the bytes of u, but for those of the piece x, which come from buf.
Wrote(r, u, x, buf) ==
    \A j \in Index, c \in Cell :
       At(r, j, c) = IF j = x.blk /\ c \in x.off .. x.off + x.len - 1
                     THEN buf[u.alen + c - x.off + 1] ELSE At(u, j, c)

\* The bytes of the piece x.
Piece(u, x) == [i \in 1 .. x.len |-> At(u, x.blk, x.off + i - 1)]

\* What sfs_buf_op does to u with the block of the piece x.
Copies(r, u, x, buf, write) ==
    /\ Map(r) = Map(u) /\ r.free = u.free /\ r.din = u.din /\ r.dirty = u.dirty
    /\ r.ret = u.ret /\ r.alen = u.alen + x.len
    /\ write => Wrote(r, u, x, buf)
    /\ ~write => Bytes(r, u) /\ r.buf = u.buf \o Piece(u, x)

(***************************************************************************)
(* Copying changes no byte outside the piece: no other index has its block.*)
(***************************************************************************)
LEMMA BufEffect ==
  ASSUME NEW u, Whole(u), NEW x, IsPiece(x), x.blk \in Index, u.ino = Map(u)[x.blk],
         u.ino # 0, NEW buf, NEW write \in BOOLEAN
  PROVE  Copies(sfs_buf_op(u, x, buf, write), u, x, buf, write)
<1> DEFINE k == x.blk
           d == u.data[u.ino]
           e == [c \in Cell |-> IF c \in x.off .. x.off + x.len - 1
                                THEN buf[u.alen + c - x.off + 1] ELSE d[c]]
           p == [i \in 1 .. x.len |-> d[x.off + i - 1]]
<1>0. SUFFICES ASSUME NEW r, r = sfs_buf_op(u, x, buf, write) PROVE Copies(r, u, x, buf, write)
  OBVIOUS
<1>1. /\ u \in Fs /\ u.data \in [Block -> [Cell -> Byte]] /\ u.ret \in Error /\ u \in Good
      /\ u.alen \in Nat /\ u.buf \in Seq(Byte)
  BY DEF Whole, Good, Fs
<1>2. /\ \A j \in Index : j \in Place /\ j # -1
      /\ -1 \in Place /\ Map(u)[-1] = u.din.indirect
  BY MapAt, Constants DEF Index, Place
<1>3. /\ \A j \in Place : Map(u)[j] # 0 => Map(u)[j] \in Block \ u.free
      /\ \A j, l \in Place : Map(u)[j] = Map(u)[l] /\ Map(u)[j] # 0 => j = l
  BY <1>1, OwnedFacts, Zenon
<1>4. u.ino \in Block /\ u.ino # u.din.indirect
  BY <1>2, <1>3
<1>5. CASE write
  <2>1. r = [u EXCEPT !.alen = @ + x.len, !.data = [u.data EXCEPT ![u.ino] = e]]
    BY <1>0, <1>5 DEF sfs_buf_op
  <2> HIDE DEF e
  <2>2. /\ r.free = u.free /\ r.din = u.din /\ r.dirty = u.dirty /\ r.ret = u.ret
        /\ r.alen = u.alen + x.len /\ r.data = [u.data EXCEPT ![u.ino] = e]
    BY <1>1, <2>1 DEF Fs
  <2>3. /\ r.data[u.ino] = e
        /\ \A b \in Block : b # u.ino => r.data[b] = u.data[b]
    BY <1>1, <1>4, <2>2
  <2>4. Map(r) = Map(u)
    <3>1. u.din.indirect # 0 => u.din.indirect \in Block
      BY <1>2, <1>3
    <3>2. u.din.indirect # 0 => r.data[u.din.indirect] = u.data[u.din.indirect]
      BY <1>4, <2>3, <3>1
    <3> QED BY <2>2, <3>2, MapSame
  <2>5. ASSUME NEW j \in Index, NEW c \in Cell
        PROVE  At(r, j, c) = IF j = x.blk /\ c \in x.off .. x.off + x.len - 1
                             THEN buf[u.alen + c - x.off + 1] ELSE At(u, j, c)
    <3>1. CASE j = k
      <4>1. At(r, j, c) = e[c] /\ At(u, j, c) = d[c]
        <5> HIDE DEF d
        <5> QED BY <2>3, <2>4, <3>1 DEF At, d
      <4> QED BY <3>1, <4>1 DEF e
    <3>2. CASE j # k
      <4>1. Map(u)[j] # 0 => Map(u)[j] \in Block /\ Map(u)[j] # u.ino
        BY <1>2, <1>3, <3>2
      <4>2. Map(u)[j] # 0 => r.data[Map(u)[j]] = u.data[Map(u)[j]]
        BY <2>3, <4>1, Zenon
      <4>3. At(r, j, c) = At(u, j, c)
        BY <2>4, <4>2, Zenon DEF At
      <4> QED BY <3>2, <4>3
    <3> QED BY <3>1, <3>2
  <2>6. Wrote(r, u, x, buf)
    BY <2>5, Zenon DEF Wrote
  <2> QED BY <1>5, <2>2, <2>4, <2>6 DEF Copies
<1>6. CASE ~write
  <2>1. r = [u EXCEPT !.alen = @ + x.len, !.buf = @ \o p]
    BY <1>0, <1>6 DEF sfs_buf_op
  <2>2. p = Piece(u, x)
    <3>1. \A c : At(u, k, c) = d[c]
      BY DEF At
    <3> QED BY <3>1 DEF Piece
  <2> HIDE DEF p
  <2>3. /\ r.free = u.free /\ r.din = u.din /\ r.dirty = u.dirty /\ r.ret = u.ret
        /\ r.alen = u.alen + x.len /\ r.data = u.data /\ r.buf = u.buf \o p
    BY <1>1, <2>1 DEF Fs
  <2>4. Map(r) = Map(u)
    BY <2>3, MapSame
  <2>5. Bytes(r, u)
    BY <2>3, <2>4, Zenon DEF Bytes, At
  <2> QED BY <1>6, <2>2, <2>3, <2>4, <2>5 DEF Copies
<1> QED BY <1>5, <1>6

----------------------------------------------------------------------------
(* The loops of sfs_io_nolock and sfs_truncfile.                           *)


(***************************************************************************)
(* A loop whose turns keep the blocks keeps them.                          *)
(***************************************************************************)
LEMMA LoopGood ==
  ASSUME NEW M \in Nat, NEW f, f[0] \in Good,
         \A k \in 0 .. M - 1 : f[k] \in Good => f[k + 1] \in Good
  PROVE  f[M] \in Good
<1> DEFINE T == {k \in 0 .. M : f[k] \in Good}
<1>1. 0 \in T
  OBVIOUS
<1>2. \A k \in 0 .. M - 1 : k \in T => k + 1 \in T
  OBVIOUS
<1> HIDE DEF T
<1>3. M \in 0 .. M /\ \A k \in 0 .. M : k \in T
  BY <1>1, <1>2, LoopInduction
<1> QED BY <1>3 DEF T

\* One piece of an access, and all the pieces P of one.
PieceDone(t, x, buf, write) ==
    Then(sfs_bmap_load(t, x.blk), LAMBDA u : sfs_buf_op(u, x, buf, write))

PiecesDone(s, P, buf, write) ==
    Each(LAMBDA t, x : PieceDone(t, x, buf, write), s, P)

(***************************************************************************)
(* One piece of an access.                                                 *)
(***************************************************************************)
LEMMA PieceGood ==
  ASSUME NEW t \in Good, t.ret = "ok", NEW x, IsPiece(x), NEW buf, NEW write \in BOOLEAN,
         write => \A i \in Int : buf[i] \in Byte
  PROVE  PieceDone(t, x, buf, write) \in Good
<1> DEFINE u == sfs_bmap_load(t, x.blk)
<1>1. IsData(u)
  <2>1. x.blk \in Nat
    BY DEF IsPiece
  <2> QED BY <2>1, Load
<1>2. PieceDone(t, x, buf, write) = IF u.ret = "ok" THEN sfs_buf_op(u, x, buf, write) ELSE u
  BY Zenon DEF PieceDone, Then
<1> HIDE DEF u
<1>3. u.ret = "ok" => sfs_buf_op(u, x, buf, write) \in Good
  BY <1>1, BufOp
<1>4. u \in Good
  BY <1>1 DEF IsData
<1> QED BY <1>2, <1>3, <1>4, Zenon DEF u

\* What one piece x of an access does to t.
Turned(r, t, x, buf, write) ==
    \/ x.blk > t.din.blocks /\ r.ret = "index <= din->blocks"
    \/ /\ x.blk <= t.din.blocks /\ Whole(r) /\ Keeps(r, t)
       /\ \/ /\ r.ret = "ok" /\ x.blk < r.din.blocks /\ r.alen = t.alen + x.len
             /\ r.din.blocks = IF x.blk = t.din.blocks THEN t.din.blocks + 1 ELSE t.din.blocks
             /\ write => Wrote(r, t, x, buf)
             /\ ~write => Bytes(r, t) /\ r.buf = t.buf \o Piece(t, x)
          \/ /\ r.ret = "E_NO_MEM" /\ x.blk = t.din.blocks /\ ~Fits(Map(t), t.free, x.blk)
             /\ Bytes(r, t) /\ r.alen = t.alen /\ r.buf = t.buf /\ r.din.blocks = t.din.blocks

(***************************************************************************)
(* One piece of an access: it fails behind the end or on a full disk, and  *)
(* else copies its bytes.                                                  *)
(***************************************************************************)
LEMMA PieceEffect ==
  ASSUME NEW t, Whole(t), t.ret = "ok", NEW x, IsPiece(x), x.blk \in Index,
         NEW buf, NEW write \in BOOLEAN, write => \A i \in Int : buf[i] \in Byte
  PROVE  Turned(PieceDone(t, x, buf, write), t, x, buf, write)
<1> DEFINE u == sfs_bmap_load(t, x.blk)
<1>0. SUFFICES ASSUME NEW r, r = PieceDone(t, x, buf, write) PROVE Turned(r, t, x, buf, write)
  OBVIOUS
<1>1. Loads(u, t, x.blk)
  BY LoadEffect, Zenon
<1>2. r = IF u.ret = "ok" THEN sfs_buf_op(u, x, buf, write) ELSE u
  BY <1>0, Zenon DEF PieceDone, Then
<1>3. r \in Good
  <2>1. t \in Good
    BY DEF Whole
  <2> QED BY <1>0, <2>1, PieceGood, Zenon
<1> HIDE DEF u
<1>4. CASE x.blk > t.din.blocks /\ u.ret = "index <= din->blocks"
  BY <1>2, <1>4 DEF Turned
<1>5. CASE /\ x.blk <= t.din.blocks /\ Whole(u) /\ Keeps(u, t) /\ Bytes(u, t)
           /\ u.alen = t.alen /\ u.buf = t.buf
           /\ u.ret = "E_NO_MEM" /\ x.blk = t.din.blocks /\ u.din.blocks = t.din.blocks
           /\ ~Fits(Map(t), t.free, x.blk)
  <2>1. r = u
    BY <1>2, <1>5
  <2> QED BY <1>5, <2>1, Zenon DEF Turned
<1>6. CASE /\ x.blk <= t.din.blocks /\ Whole(u) /\ Keeps(u, t) /\ Bytes(u, t)
           /\ u.alen = t.alen /\ u.buf = t.buf
           /\ u.ret = "ok" /\ u.ino = Map(u)[x.blk] /\ Map(u)[x.blk] # 0 /\ x.blk < u.din.blocks
           /\ u.din.blocks = IF x.blk = t.din.blocks THEN t.din.blocks + 1 ELSE t.din.blocks
  <2>1. r = sfs_buf_op(u, x, buf, write)
    BY <1>2, <1>6
  <2>2. Copies(r, u, x, buf, write)
    <3>1. u.ino = Map(u)[x.blk] /\ u.ino # 0 /\ Whole(u)
      BY <1>6
    <3> QED BY <2>1, <3>1, BufEffect, Zenon
  <2>3. /\ Map(r) = Map(u) /\ r.free = u.free /\ r.din = u.din /\ r.dirty = u.dirty
        /\ r.ret = "ok" /\ r.alen = t.alen + x.len
    BY <1>6, <2>2 DEF Copies
  <2>4. Whole(r)
    <3>1. r.ret \in Error
      BY <2>3 DEF Error
    <3>2. Filled(r)
      <4>1. Filled(u)
        BY <1>6 DEF Whole
      <4> QED BY <2>3, <4>1, Zenon DEF Filled
    <3> QED BY <1>3, <3>1, <3>2 DEF Whole
  <2>5. Keeps(r, t)
    BY <1>6, <2>3, Zenon DEF Keeps
  <2>6. write => Wrote(r, t, x, buf)
    <3> SUFFICES ASSUME write PROVE Wrote(r, t, x, buf)
      OBVIOUS
    <3>1. \A j \in Index, c \in Cell : At(u, j, c) = At(t, j, c)
      BY <1>6 DEF Bytes
    <3>2. \A j \in Index, c \in Cell :
             At(r, j, c) = IF j = x.blk /\ c \in x.off .. x.off + x.len - 1
                           THEN buf[u.alen + c - x.off + 1] ELSE At(u, j, c)
      BY <2>2, Zenon DEF Copies, Wrote
    <3>3. u.alen = t.alen
      BY <1>6
    <3> QED BY <3>1, <3>2, <3>3 DEF Wrote
  <2>7. ~write => Bytes(r, t) /\ r.buf = t.buf \o Piece(t, x)
    <3> SUFFICES ASSUME ~write PROVE Bytes(r, t) /\ r.buf = t.buf \o Piece(t, x)
      OBVIOUS
    <3>1. \A j \in Index, c \in Cell : At(u, j, c) = At(t, j, c)
      BY <1>6 DEF Bytes
    <3>2. Bytes(r, u) /\ r.buf = u.buf \o Piece(u, x)
      BY <2>2, Zenon DEF Copies
    <3>3. Piece(u, x) = Piece(t, x)
      <4>1. \A i \in 1 .. x.len : x.off + i - 1 \in Cell
        BY DEF IsPiece
      <4>2. \A i \in 1 .. x.len : At(u, x.blk, x.off + i - 1) = At(t, x.blk, x.off + i - 1)
        BY <3>1, <4>1
      <4> QED BY <4>2 DEF Piece
    <3>4. Bytes(r, t)
      BY <3>1, <3>2 DEF Bytes
    <3> QED BY <1>6, <3>2, <3>3, <3>4
  <2>8. x.blk < r.din.blocks
        /\ r.din.blocks = IF x.blk = t.din.blocks THEN t.din.blocks + 1 ELSE t.din.blocks
    BY <1>6, <2>3
  <2>9. x.blk <= t.din.blocks
    BY <1>6
  <2> QED BY <2>3, <2>4, <2>5, <2>6, <2>7, <2>8, <2>9, Zenon DEF Turned
<1> QED BY <1>1, <1>4, <1>5, <1>6, Zenon DEF Loads

\* f has the states after each of the pieces P.
PieceByPiece(f, s, P, buf, write) ==
    /\ f[0] = s /\ f[Len(P)] = PiecesDone(s, P, buf, write)
    /\ \A k \in 0 .. Len(P) : f[k] \in Good
    /\ \A k \in 0 .. Len(P) - 1 :
          f[k + 1] = IF f[k].ret = "ok" THEN PieceDone(f[k], P[k + 1], buf, write) ELSE f[k]

(***************************************************************************)
(* The pieces one after the other.                                         *)
(***************************************************************************)
LEMMA PiecesRun ==
  ASSUME NEW s \in Good, NEW P, Len(P) \in Nat,
         \A i \in 1 .. Len(P) : IsPiece(P[i]),
         NEW buf, NEW write \in BOOLEAN, write => \A i \in Int : buf[i] \in Byte
  PROVE  \E f : PieceByPiece(f, s, P, buf, write)
<1> DEFINE M == Len(P)
           turn(t, x) == IF t.ret = "ok" THEN PieceDone(t, x, buf, write) ELSE t
           G == [i \in 0 .. M - 1 |-> [t \in Good |-> turn(t, P[i + 1])]]
           Is(f) == f = [i \in 0 .. M |-> IF i = 0 THEN s ELSE turn(f[i - 1], P[i])]
           after == CHOOSE f : Is(f)
<1>1. PiecesDone(s, P, buf, write) = after[M]
  BY Zenon DEF PiecesDone, Each, Then
<1>2. ASSUME NEW t \in Good, NEW i \in 1 .. M PROVE turn(t, P[i]) \in Good
  <2>1. IsPiece(P[i])
    OBVIOUS
  <2>2. t.ret = "ok" => PieceDone(t, P[i], buf, write) \in Good
    BY <2>1, PieceGood, Zenon
  <2> QED BY <2>2
<1> HIDE DEF turn
<1>3. G \in Rounds(M, Good)
  <2>1. \A i \in 0 .. M - 1 : i + 1 \in 1 .. M
    OBVIOUS
  <2> QED BY <1>2, <2>1 DEF Rounds
<1>4. PICK f \in [0 .. M -> Good] : Runs(M, s, G, f)
  <2> HIDE DEF G, M
  <2> QED BY <1>3, LoopExists DEF M
<1>5. Is(f)
  <2>1. ASSUME NEW k \in 0 .. M, k # 0 PROVE f[k] = turn(f[k - 1], P[k])
    <3>1. k - 1 \in 0 .. M - 1 /\ k - 1 \in 0 .. M /\ (k - 1) + 1 = k
      BY <2>1
    <3>2. f[k - 1] \in Good /\ f[k] = G[k - 1][f[k - 1]]
      BY <1>4, <3>1 DEF Runs
    <3> QED BY <3>1, <3>2
  <2> HIDE DEF G, M
  <2> QED BY <1>4, <2>1 DEF Runs
<1>6. Is(after)
  BY <1>5
<1> HIDE DEF after
<1>7. after[0] = s
  BY <1>6
<1>8. \A k \in 0 .. M - 1 : after[k + 1] = turn(after[k], P[k + 1]) /\ k + 1 \in 1 .. M
  <2> SUFFICES ASSUME NEW k \in 0 .. M - 1
               PROVE  after[k + 1] = turn(after[k], P[k + 1]) /\ k + 1 \in 1 .. M
    OBVIOUS
  <2>1. k + 1 \in 0 .. M /\ k + 1 # 0 /\ (k + 1) - 1 = k /\ k + 1 \in 1 .. M
    OBVIOUS
  <2> QED BY <1>6, <2>1
<1>9. \A k \in 0 .. M : after[k] \in Good
  <2> DEFINE T == {k \in 0 .. M : after[k] \in Good}
  <2>1. 0 \in T
    BY <1>7
  <2>2. \A k \in 0 .. M - 1 : k \in T => k + 1 \in T
    BY <1>2, <1>8
  <2> HIDE DEF T
  <2>3. \A k \in 0 .. M : k \in T
    BY <2>1, <2>2, LoopInduction
  <2> QED BY <2>3 DEF T
<1>10. after[Len(P)] = PiecesDone(s, P, buf, write)
  BY <1>1
<1>11. PieceByPiece(after, s, P, buf, write)
  BY <1>7, <1>8, <1>9, <1>10 DEF PieceByPiece, turn
<1> HIDE DEF M
<1> QED BY <1>11, Zenon

LEMMA PiecesGood ==
  ASSUME NEW s \in Good, NEW P, Len(P) \in Nat,
         \A i \in 1 .. Len(P) : IsPiece(P[i]),
         NEW buf, NEW write \in BOOLEAN, write => \A i \in Int : buf[i] \in Byte
  PROVE  PiecesDone(s, P, buf, write) \in Good
<1>1. PICK f : PieceByPiece(f, s, P, buf, write)
  BY PiecesRun, Zenon
<1>2. Len(P) \in 0 .. Len(P)
  OBVIOUS
<1> QED BY <1>1, <1>2 DEF PieceByPiece

(***************************************************************************)
(* sfs_io_nolock.                                                          *)
(***************************************************************************)
LEMMA IoGood ==
  ASSUME NEW s \in Good, NEW offset \in Nat, NEW n \in Nat, NEW buf, NEW write \in BOOLEAN,
         write => \A i \in Int : buf[i] \in Byte
  PROVE  sfs_io(s, offset, n, buf, write) \in Good
<1> DEFINE want   == offset + n
           endpos == IF ~write /\ want > s.din.size THEN s.din.size ELSE want
           t == PiecesDone(s, Pieces(offset, endpos), buf, write)
           Grown == IF offset + t.alen > t.din.size
                    THEN [t EXCEPT !.din.size = offset + t.alen, !.dirty = TRUE] ELSE t
<1>1. CASE n = 0 \/ (~write /\ offset >= s.din.size)
  BY <1>1, Zenon DEF sfs_io
<1>2. CASE ~(n = 0 \/ (~write /\ offset >= s.din.size))
  <2>1. sfs_io(s, offset, n, buf, write) = Grown
    BY <1>2, Zenon DEF sfs_io, PiecesDone, PieceDone
  <2>2. endpos \in Nat /\ offset < endpos
    BY <1>2 DEF Good, Fs, Inode
  <2>3. t \in Good
    <3> HIDE DEF endpos
    <3>1. /\ Len(Pieces(offset, endpos)) \in Nat
          /\ \A i \in 1 .. Len(Pieces(offset, endpos)) : IsPiece(Pieces(offset, endpos)[i])
      BY <2>2, PiecesCover DEF Covers
    <3> QED BY <3>1, PiecesGood, Zenon
  <2> HIDE DEF t
  <2>4. CASE ~(offset + t.alen > t.din.size)
    BY <2>1, <2>3, <2>4
  <2>5. CASE offset + t.alen > t.din.size
    <3> DEFINE din == [t.din EXCEPT !.size = offset + t.alen]
               r == [t EXCEPT !.din = din, !.dirty = TRUE]
    <3>1. sfs_io(s, offset, n, buf, write) = r
      BY <2>1, <2>5
    <3>2. t \in Fs /\ t.alen \in Nat /\ t.din \in Inode
      BY <2>3 DEF Good, Fs
    <3>3. offset + t.alen \in Nat
      BY <3>2
    <3>4. din \in Inode /\ din.direct = t.din.direct /\ din.indirect = t.din.indirect
      BY <3>2, <3>3 DEF Inode
    <3> HIDE DEF din
    <3>5. r \in Fs /\ r.din = din /\ r.free = t.free /\ r.data = t.data /\ r.dirty = TRUE
          /\ r.ret = t.ret
      BY <3>2, <3>4 DEF Fs
    <3> HIDE DEF r
    <3>6. Map(r) = Map(t)
      BY <3>4, <3>5, MapSame
    <3>7. t.ret \in Error => Owned(t)
      BY <2>3 DEF Good
    <3>8. r.ret \in Error => Owned(r)
      BY <3>5, <3>6, <3>7 DEF Owned, Kept
    <3> QED BY <3>1, <3>5, <3>8 DEF Good
  <2> QED BY <2>4, <2>5
<1> QED BY <1>1, <1>2

----------------------------------------------------------------------------
(* What an access does to the bytes.                                       *)

(***************************************************************************)
(* An offset lies in a piece if its block and its place in the block do.   *)
(***************************************************************************)
LEMMA InPiece ==
  ASSUME NEW B \in Nat \ {0}, NEW j \in Nat, NEW c \in 0 .. B - 1,
         NEW k \in Nat, NEW off \in Nat, NEW len \in Nat, off + len <= B
  PROVE  /\ B * j \in Nat /\ B * k \in Nat
         /\ (B * k + off <= B * j + c /\ B * j + c < B * k + off + len)
               <=> (j = k /\ c \in off .. off + len - 1)
<1> DEFINE x == B * j
           y == B * k
<1>1. x \in Nat /\ y \in Nat /\ (j = k => x = y)
  OBVIOUS
<1>2. /\ j < k => x + B <= y
      /\ k < j => y + B <= x
  BY Multiples
<1> HIDE DEF x, y
<1>3. CASE j = k
  BY <1>1, <1>3 DEF x, y
<1>4. CASE j < k
  BY <1>1, <1>2, <1>4 DEF x, y
<1>5. CASE k < j
  BY <1>1, <1>2, <1>5 DEF x, y
<1> QED BY <1>3, <1>4, <1>5

\* Where the first k pieces of an access at offset a end.
Edge(P, a, k) == IF k = 0 THEN a ELSE BLKSIZE * P[k].blk + P[k].off + P[k].len

(***************************************************************************)
(* Each piece starts where the one before it ends.                         *)
(***************************************************************************)
LEMMA EdgeFacts ==
  ASSUME NEW P, NEW a \in Nat, NEW b \in Nat, Covers(P, a, b)
  PROVE  /\ Edge(P, a, 0) = a /\ Edge(P, a, Len(P)) = b
         /\ \A k \in 0 .. Len(P) - 1 :
               /\ Edge(P, a, k) = BLKSIZE * P[k + 1].blk + P[k + 1].off
               /\ Edge(P, a, k + 1) = Edge(P, a, k) + P[k + 1].len
               /\ Edge(P, a, k) <= b
               /\ P[k + 1].blk <= P[Len(P)].blk
<1> DEFINE M == Len(P)
<1>1. BLKSIZE \in Nat \ {0}
  BY Constants
<1>2. /\ M \in Nat /\ M > 0
      /\ a = BLKSIZE * P[1].blk + P[1].off
      /\ b = BLKSIZE * P[M].blk + P[M].off + P[M].len
  BY Zenon DEF Covers
<1>3. \A i \in 1 .. M : /\ P[i].blk \in Nat /\ P[i].off \in Nat /\ P[i].len \in Nat
                        /\ P[i].len > 0 /\ P[i].off + P[i].len <= BLKSIZE
                        /\ P[i].blk = P[1].blk + i - 1
                        /\ i > 1 => P[i].off = 0
                        /\ i < M => P[i].off + P[i].len = BLKSIZE
  BY DEF Covers, IsPiece
<1> HIDE DEF M
<1>4. Edge(P, a, 0) = a /\ Edge(P, a, M) = b
  BY <1>2 DEF Edge
<1>5. ASSUME NEW k \in 0 .. M - 1
      PROVE  /\ Edge(P, a, k) = BLKSIZE * P[k + 1].blk + P[k + 1].off
             /\ Edge(P, a, k + 1) = Edge(P, a, k) + P[k + 1].len
             /\ Edge(P, a, k) <= b
             /\ P[k + 1].blk <= P[M].blk
  <2> DEFINE x == P[k + 1]
             y == P[M]
  <2>1. k + 1 \in 1 .. M /\ M \in 1 .. M /\ 1 \in 1 .. M
    BY <1>2
  <2>2. /\ x.blk \in Nat /\ x.off \in Nat /\ x.len \in Nat /\ x.off + x.len <= BLKSIZE
        /\ y.blk \in Nat /\ y.off \in Nat /\ y.len \in Nat
        /\ x.blk = P[1].blk + (k + 1) - 1 /\ y.blk = P[1].blk + M - 1 /\ P[1].blk \in Nat
    BY <1>3, <2>1
  <2>3. Edge(P, a, k) = BLKSIZE * x.blk + x.off
    <3>1. CASE k = 0
      BY <1>2, <3>1 DEF Edge
    <3>2. CASE k # 0
      <4> DEFINE z == P[k]
                 n == z.blk
      <4>1. k \in 1 .. M /\ k < M /\ k + 1 > 1
        BY <1>2, <3>2
      <4>2. /\ n \in Nat /\ n = P[1].blk + k - 1 /\ z.off \in Nat /\ z.len \in Nat
            /\ z.off + z.len = BLKSIZE /\ x.off = 0
        BY <1>3, <2>1, <4>1
      <4>3. x.blk = n + 1
        BY <2>2, <4>2
      <4> HIDE DEF x, n
      <4>4. BLKSIZE * x.blk = BLKSIZE * n + BLKSIZE /\ BLKSIZE * n \in Int
        BY <1>1, <4>2, <4>3, Next1, SMTT(30)
      <4>5. Edge(P, a, k) = BLKSIZE * n + z.off + z.len
        BY <3>2 DEF Edge, n
      <4> QED BY <1>1, <4>2, <4>4, <4>5
    <3> QED BY <3>1, <3>2
  <2>4. Edge(P, a, k + 1) = BLKSIZE * x.blk + x.off + x.len
    <3>1. k + 1 # 0
      OBVIOUS
    <3> QED BY <3>1 DEF Edge
  <2>5. x.blk <= y.blk /\ (x.blk = y.blk => k + 1 = M)
    BY <1>2, <2>2
  <2> HIDE DEF x, y
  <2>6. Edge(P, a, k) <= b
    <3>1. b = BLKSIZE * y.blk + y.off + y.len
      BY <1>2 DEF y
    <3> DEFINE u == BLKSIZE * x.blk
               v == BLKSIZE * y.blk
    <3>2. /\ u \in Nat /\ v \in Nat /\ (x.blk = y.blk => u = v)
          /\ x.blk < y.blk => u + BLKSIZE <= v
      BY <1>1, <2>2, Multiples
    <3>3. x.blk = y.blk => x = y
      BY <2>5 DEF x, y
    <3>4. Edge(P, a, k) = u + x.off /\ b = v + y.off + y.len
      BY <2>3, <3>1
    <3> HIDE DEF u, v
    <3>5. CASE x.blk = y.blk
      BY <2>2, <3>2, <3>3, <3>4, <3>5
    <3>6. CASE x.blk < y.blk
      BY <1>1, <2>2, <3>2, <3>4, <3>6
    <3>7. x.blk = y.blk \/ x.blk < y.blk
      <4>1. x.blk \in Nat /\ y.blk \in Nat /\ x.blk <= y.blk
        BY <2>2, <2>5
      <4> QED BY <4>1
    <3> QED BY <3>5, <3>6, <3>7
  <2>7. Edge(P, a, k + 1) = Edge(P, a, k) + x.len
    BY <2>3, <2>4
  <2> QED BY <2>3, <2>5, <2>6, <2>7 DEF x, y
<1> QED BY <1>4, <1>5 DEF M

\* The bytes from offset a on are those of buf, as many as r has written.
Written(r, s, a, buf) ==
    \A j \in Index, c \in 0 .. BLKSIZE - 1 :
       At(r, j, c) = IF a <= BLKSIZE * j + c /\ BLKSIZE * j + c < a + r.alen
                     THEN buf[BLKSIZE * j + c - a + 1] ELSE At(s, j, c)

\* r has read the bytes of s from offset a on.
ReadOut(r, s, a) ==
    /\ Bytes(r, s) /\ Len(r.buf) = r.alen
    /\ \A j \in Index, c \in 0 .. BLKSIZE - 1 :
          a <= BLKSIZE * j + c /\ BLKSIZE * j + c < a + r.alen
             => r.buf[BLKSIZE * j + c - a + 1] = At(s, j, c)

\* What an access to s at offset a has done so far.
Moved(t, s, a, buf, write) ==
    /\ Whole(t) /\ Keeps(t, s)
    /\ write => Written(t, s, a, buf)
    /\ ~write => ReadOut(t, s, a)
    /\ t.alen > 0 => a + t.alen <= BLKSIZE * t.din.blocks

\* After k pieces there has been no error, or the one of an earlier piece; the
\* first piece cannot be the one that fails for want of space and fits.
Going(t, s, P, a, k, buf, write) ==
    \/ P[1].blk > s.din.blocks /\ t.ret = "index <= din->blocks"
    \/ /\ Moved(t, s, a, buf, write)
       /\ \/ /\ t.ret = "ok" /\ a + t.alen = Edge(P, a, k)
             /\ IF k = 0 THEN t = s ELSE t.alen > 0 /\ P[k].blk < t.din.blocks
          \/ /\ t.ret = "E_NO_MEM" /\ s.din.blocks <= P[Len(P)].blk
             /\ a + t.alen <= Edge(P, a, Len(P))
             /\ t.alen = 0 => P[1].blk = s.din.blocks /\ ~Fits(Map(s), s.free, P[1].blk)

LEMMA KeepsTwice ==
  ASSUME NEW s, NEW t, NEW r, s.din.blocks \in Nat, t.din.blocks \in Nat, r.din.blocks \in Nat,
         Keeps(r, t), Keeps(t, s)
  PROVE  Keeps(r, s)
<1>1. s.din.blocks <= r.din.blocks
  BY DEF Keeps
<1>2. r.din.size = s.din.size /\ (s.dirty => r.dirty)
  BY DEF Keeps
<1>3. \A j \in Index : Fits(Map(s), s.free, j) => Fits(Map(r), r.free, j)
  BY DEF Keeps
<1> QED BY <1>1, <1>2, <1>3, Zenon DEF Keeps

LEMMA WholeFacts ==
  ASSUME NEW s, Whole(s)
  PROVE  /\ s \in Good /\ s \in Fs /\ s.din.blocks \in Nat /\ s.din.size \in Nat /\ s.alen \in Nat
         /\ s.buf \in Seq(Byte) /\ s.ret \in Error
         /\ s.din.blocks <= NDIRECT + NENTRY
BY DEF Whole, Good, Fs, Inode, Filled

(***************************************************************************)
(* One turn of the loop of sfs_io_nolock.                                  *)
(***************************************************************************)
LEMMA WriteTurn ==
  ASSUME NEW a \in Nat, NEW s, NEW t, t.alen \in Nat, NEW x, IsPiece(x), x.blk \in Index,
         x.off + x.len <= BLKSIZE, a + t.alen = BLKSIZE * x.blk + x.off,
         NEW buf, NEW r, r.alen = t.alen + x.len, Wrote(r, t, x, buf), Written(t, s, a, buf)
  PROVE  Written(r, s, a, buf)
<1>1. BLKSIZE \in Nat \ {0} /\ \A c \in 0 .. BLKSIZE - 1 : c \in Cell
  BY Constants
<1>2. x.blk \in Nat /\ x.off \in Nat /\ x.len \in Nat
  BY DEF IsPiece
<1> SUFFICES ASSUME NEW j \in Index, NEW c \in 0 .. BLKSIZE - 1
             PROVE  At(r, j, c) = IF a <= BLKSIZE * j + c /\ BLKSIZE * j + c < a + r.alen
                                  THEN buf[BLKSIZE * j + c - a + 1] ELSE At(s, j, c)
  BY DEF Written
<1>3. j \in Nat
  BY DEF Index
<1> DEFINE u == BLKSIZE * j
           v == BLKSIZE * x.blk
<1>4. /\ u \in Nat /\ v \in Nat
      /\ (v + x.off <= u + c /\ u + c < v + x.off + x.len)
            <=> (j = x.blk /\ c \in x.off .. x.off + x.len - 1)
  BY <1>1, <1>2, <1>3, InPiece
<1>5. At(r, j, c) = IF j = x.blk /\ c \in x.off .. x.off + x.len - 1
                    THEN buf[t.alen + c - x.off + 1] ELSE At(t, j, c)
  BY <1>1 DEF Wrote
<1>6. At(t, j, c) = IF a <= u + c /\ u + c < a + t.alen THEN buf[u + c - a + 1] ELSE At(s, j, c)
  BY DEF Written
<1>7. j = x.blk => u = v
  OBVIOUS
<1>8. a + t.alen = v + x.off
  OBVIOUS
<1> HIDE DEF u, v
<1>9. CASE j = x.blk /\ c \in x.off .. x.off + x.len - 1
  <2>1. t.alen + c - x.off + 1 = u + c - a + 1
    BY <1>2, <1>4, <1>7, <1>8, <1>9
  <2>2. a <= u + c /\ u + c < a + r.alen
    BY <1>2, <1>4, <1>8, <1>9
  <2> QED BY <1>5, <1>9, <2>1, <2>2 DEF u
<1>10. CASE ~(j = x.blk /\ c \in x.off .. x.off + x.len - 1)
  <2>1. (a <= u + c /\ u + c < a + r.alen) <=> (a <= u + c /\ u + c < a + t.alen)
    BY <1>2, <1>4, <1>8, <1>10
  <2>2. At(r, j, c) = At(t, j, c)
    BY <1>5, <1>10
  <2> QED BY <1>6, <2>1, <2>2, Zenon DEF u
<1> QED BY <1>9, <1>10

\* r has what t has read, and the bytes of the piece x of t.
Appended(r, t, x) ==
    /\ Len(r.buf) = Len(t.buf) + x.len
    /\ \A i \in 1 .. Len(t.buf) : r.buf[i] = t.buf[i]
    /\ \A i \in 1 .. x.len : r.buf[Len(t.buf) + i] = At(t, x.blk, x.off + i - 1)

LEMMA AppendPiece ==
  ASSUME NEW t, NEW r, NEW x, t.buf \in Seq(Byte), x.len \in Nat, r.buf = t.buf \o Piece(t, x)
  PROVE  Appended(r, t, x)
<1> DEFINE e == Piece(t, x)
           n == x.len
           P == {e[i] : i \in 1 .. n}
           S == Byte \cup P
           b == t.buf
<1>1. e = [i \in 1 .. n |-> e[i]]
  BY DEF Piece
<1>2. \A i \in 1 .. n : e[i] = At(t, x.blk, x.off + i - 1)
  BY DEF Piece
<1> HIDE DEF e
<1>3. \A i \in 1 .. n : e[i] \in S
  OBVIOUS
<1>4. b \in Seq(S)
  OBVIOUS
<1>5. n \in Nat /\ r.buf = b \o e
  BY DEF e
<1> HIDE DEF S, b, n
<1>6. e \in [1 .. n -> S]
  BY ONLY <1>1, <1>3
<1>7. e \in Seq(S) /\ Len(e) = n
  <2>1. n \in Nat
    BY <1>5
  <2> QED BY ONLY <1>6, <2>1
<1>8. /\ Len(b \o e) = Len(b) + Len(e)
      /\ \A i \in 1 .. Len(b) : (b \o e)[i] = b[i]
      /\ \A i \in 1 .. Len(e) : (b \o e)[Len(b) + i] = e[i]
  BY ONLY <1>4, <1>7
<1>9. /\ Len(r.buf) = Len(b) + n
      /\ \A i \in 1 .. Len(b) : r.buf[i] = b[i]
      /\ \A i \in 1 .. n : r.buf[Len(b) + i] = e[i]
  BY ONLY <1>5, <1>7, <1>8, Zenon
<1>10. \A i \in 1 .. n : r.buf[Len(b) + i] = At(t, x.blk, x.off + i - 1)
  BY ONLY <1>2, <1>9
<1> QED BY <1>9, <1>10, Zenon DEF Appended, b, n

LEMMA ReadTurn ==
  ASSUME NEW a \in Nat, NEW s, NEW t, t.alen \in Nat,
         NEW x, IsPiece(x), x.blk \in Index,
         x.off + x.len <= BLKSIZE, a + t.alen = BLKSIZE * x.blk + x.off,
         NEW r, r.alen = t.alen + x.len, Bytes(r, t), Appended(r, t, x), ReadOut(t, s, a)
  PROVE  ReadOut(r, s, a)
<1>1. BLKSIZE \in Nat \ {0} /\ \A c \in 0 .. BLKSIZE - 1 : c \in Cell
  BY Constants
<1>2. x.blk \in Nat /\ x.off \in Nat /\ x.len \in Nat
  BY DEF IsPiece
<1>3. Bytes(r, s) /\ \A j \in Index, c \in Cell : At(t, j, c) = At(s, j, c)
  BY DEF Bytes, ReadOut
<1>4. Len(t.buf) = t.alen
  BY DEF ReadOut
<1>5. /\ Len(r.buf) = t.alen + x.len
      /\ \A i \in 1 .. t.alen : r.buf[i] = t.buf[i]
      /\ \A i \in 1 .. x.len : r.buf[t.alen + i] = At(t, x.blk, x.off + i - 1)
  BY <1>4, Zenon DEF Appended
<1>6. ASSUME NEW j \in Index, NEW c \in 0 .. BLKSIZE - 1,
             a <= BLKSIZE * j + c, BLKSIZE * j + c < a + r.alen
      PROVE  r.buf[BLKSIZE * j + c - a + 1] = At(s, j, c)
  <2>1. j \in Nat /\ c \in Cell /\ c \in Nat
    BY <1>1 DEF Index
  <2> DEFINE u == BLKSIZE * j
             v == BLKSIZE * x.blk
             i == u + c - a + 1
             m == c - x.off + 1
  <2>2. /\ u \in Nat /\ v \in Nat
        /\ (v + x.off <= u + c /\ u + c < v + x.off + x.len)
              <=> (j = x.blk /\ c \in x.off .. x.off + x.len - 1)
    BY <1>1, <1>2, <2>1, InPiece
  <2>3. j = x.blk => u = v
    OBVIOUS
  <2>4. a + t.alen = v + x.off /\ a <= u + c /\ u + c < a + r.alen
    BY <1>6
  <2>5. At(t, j, c) = At(s, j, c)
    BY <1>3, <2>1
  <2>6. u + c < a + t.alen => t.buf[i] = At(s, j, c)
    BY <1>6 DEF ReadOut
  <2> HIDE DEF u, v
  <2>7. CASE u + c < a + t.alen
    <3>1. i \in 1 .. t.alen
      BY <2>1, <2>2, <2>4, <2>7
    <3> QED BY <1>5, <2>6, <2>7, <3>1 DEF u
  <2>8. CASE ~(u + c < a + t.alen)
    <3>1. j = x.blk /\ c \in x.off .. x.off + x.len - 1
      BY <1>2, <2>1, <2>2, <2>4, <2>8
    <3>0. u = v /\ u \in Nat /\ c - x.off \in 0 .. x.len - 1
      BY <1>2, <2>1, <2>2, <2>3, <3>1
    <3>2. i = t.alen + m /\ m \in 1 .. x.len /\ x.off + m - 1 = c
      <4>1. a \in Nat /\ t.alen \in Nat /\ a + t.alen = v + x.off
        BY <2>4
      <4> QED BY ONLY <1>2, <2>1, <3>0, <4>1
    <3> HIDE DEF i, m
    <3>3. r.buf[i] = At(t, x.blk, x.off + m - 1)
      BY <1>5, <3>2
    <3> QED BY <2>5, <3>1, <3>2, <3>3 DEF u, i
  <2> QED BY <2>7, <2>8
<1> QED BY <1>3, <1>5, <1>6 DEF ReadOut

(***************************************************************************)
(* A piece that fails has copied nothing.                                  *)
(***************************************************************************)
LEMMA NoTurn ==
  ASSUME NEW a, NEW s, NEW t, NEW buf, NEW r, Bytes(r, t), r.alen = t.alen, r.buf = t.buf
  PROVE  /\ Written(t, s, a, buf) => Written(r, s, a, buf)
         /\ ReadOut(t, s, a) => ReadOut(r, s, a)
<1>1. \A c \in 0 .. BLKSIZE - 1 : c \in Cell
  BY Constants
<1>2. \A j \in Index, c \in Cell : At(r, j, c) = At(t, j, c)
  BY DEF Bytes
<1>3. \A j \in Index, c \in 0 .. BLKSIZE - 1 : At(r, j, c) = At(t, j, c)
  BY <1>1, <1>2
<1>4. Written(t, s, a, buf) => Written(r, s, a, buf)
  BY <1>3, Zenon DEF Written
<1>5. Bytes(t, s) => Bytes(r, s)
  BY <1>2, Zenon DEF Bytes
<1>6. ReadOut(t, s, a) => ReadOut(r, s, a)
  BY <1>5, Zenon DEF ReadOut
<1> QED BY <1>4, <1>6

LEMMA IoTurn ==
  ASSUME NEW s, Whole(s), NEW a \in Nat, NEW b \in Nat, NEW P, Covers(P, a, b),
         P[Len(P)].blk \in Index, NEW k \in 0 .. Len(P) - 1,
         NEW buf, NEW write \in BOOLEAN, write => \A i \in Int : buf[i] \in Byte,
         NEW t, Going(t, s, P, a, k, buf, write), t.ret = "ok"
  PROVE  Going(PieceDone(t, P[k + 1], buf, write), s, P, a, k + 1, buf, write)
<1> DEFINE x == P[k + 1]
           M == Len(P)
<1>0. SUFFICES ASSUME NEW r, r = PieceDone(t, x, buf, write)
               PROVE  Going(r, s, P, a, k + 1, buf, write)
  OBVIOUS
<1>1. /\ Moved(t, s, a, buf, write) /\ a + t.alen = Edge(P, a, k)
      /\ IF k = 0 THEN t = s ELSE t.alen > 0 /\ P[k].blk < t.din.blocks
  BY DEF Going
<1>2. /\ Whole(t) /\ Keeps(t, s)
      /\ t.din.blocks \in Nat /\ s.din.blocks \in Nat /\ t.alen \in Nat /\ t.buf \in Seq(Byte)
      /\ s.din.blocks <= t.din.blocks
  BY <1>1, WholeFacts DEF Moved, Keeps
<1>3. /\ Edge(P, a, 0) = a /\ Edge(P, a, M) = b
      /\ Edge(P, a, k) = BLKSIZE * x.blk + x.off
      /\ Edge(P, a, k + 1) = Edge(P, a, k) + x.len
      /\ Edge(P, a, k) <= b /\ x.blk <= P[M].blk
  BY EdgeFacts
<1>4. /\ M \in Nat /\ k + 1 \in 1 .. M /\ IsPiece(x) /\ x.len > 0 /\ x.off + x.len <= BLKSIZE
      /\ x.blk = P[1].blk + (k + 1) - 1
  <2>1. M \in Nat /\ k + 1 \in 1 .. M
    BY DEF Covers
  <2> HIDE DEF M
  <2> QED BY <2>1 DEF Covers, M
<1>5. x.blk \in Nat /\ x.off \in Nat /\ x.len \in Nat
  BY <1>4 DEF IsPiece
<1>6. x.blk \in Index
  <2> DEFINE l == P[M].blk
             n == x.blk
  <2>1. l \in Index /\ n <= l /\ n \in Nat
    BY <1>3, <1>5
  <2> HIDE DEF l, n
  <2>2. n \in Index
    BY <2>1, Constants DEF Index
  <2> QED BY <2>2 DEF n
<1>7. Turned(r, t, x, buf, write)
  <2> HIDE DEF x
  <2> QED BY <1>0, <1>2, <1>4, <1>6, PieceEffect, Zenon
<1>8. k # 0 => P[k].blk = P[1].blk + k - 1
  <2> SUFFICES ASSUME k # 0 PROVE P[k].blk = P[1].blk + k - 1
    OBVIOUS
  <2>1. k \in 1 .. M
    BY <1>4
  <2> HIDE DEF M
  <2> QED BY <2>1 DEF Covers, M
<1>9. P[1].blk \in Nat
  <2>1. 1 \in 1 .. M
    BY <1>4
  <2> HIDE DEF M
  <2> QED BY <2>1 DEF Covers, IsPiece, M
<1>10. CASE x.blk > t.din.blocks /\ r.ret = "index <= din->blocks"
  <2>1. k = 0
    <3> SUFFICES ASSUME k # 0 PROVE FALSE
      OBVIOUS
    <3> DEFINE n == P[1].blk
               m == P[k].blk
               y == x.blk
               d == t.din.blocks
    <3>1. m < d /\ m = n + k - 1
      BY <1>1, <1>8
    <3>2. y = n + (k + 1) - 1 /\ y > d
      BY <1>4, <1>10
    <3>3. n \in Nat /\ d \in Nat /\ k \in Int
      BY <1>2, <1>9
    <3> HIDE DEF n, m, y, d
    <3> QED BY ONLY <3>1, <3>2, <3>3
  <2>2. P[1].blk > s.din.blocks
    <3>1. k + 1 = 1 /\ t = s
      BY <1>1, <2>1
    <3>2. x = P[1]
      BY <3>1
    <3> HIDE DEF x
    <3> QED BY <1>10, <3>1, <3>2, Zenon
  <2> QED BY <1>10, <2>2, Zenon DEF Going
<1>11. CASE /\ x.blk <= t.din.blocks /\ Whole(r) /\ Keeps(r, t)
            /\ r.ret = "ok" /\ x.blk < r.din.blocks /\ r.alen = t.alen + x.len
            /\ write => Wrote(r, t, x, buf)
            /\ ~write => Bytes(r, t) /\ r.buf = t.buf \o Piece(t, x)
  <2> HIDE DEF x
  <2>1. r.din.blocks \in Nat /\ r.alen \in Nat /\ r.alen > 0 /\ a + r.alen = Edge(P, a, k + 1)
    <3>1. a + t.alen = Edge(P, a, k) /\ Edge(P, a, k + 1) = Edge(P, a, k) + x.len
      BY <1>1, <1>3
    <3>2. r.din.blocks \in Nat
      BY <1>11, WholeFacts
    <3>3. r.alen = t.alen + x.len /\ t.alen \in Nat /\ x.len \in Nat /\ x.len > 0
      BY <1>2, <1>4, <1>5, <1>11
    <3>4. a \in Nat
      OBVIOUS
    <3>5. r.alen \in Nat /\ r.alen > 0 /\ a + r.alen = (a + t.alen) + x.len
      BY ONLY <3>3, <3>4
    <3> QED BY <3>1, <3>2, <3>5
  <2>2. Keeps(r, s)
    BY <1>2, <1>11, <2>1, KeepsTwice
  <2>3. a + t.alen = BLKSIZE * x.blk + x.off
    BY <1>1, <1>3
  <2>4. write => Written(r, s, a, buf)
    BY <1>1, <1>2, <1>4, <1>6, <1>11, <2>3, WriteTurn, Zenon DEF Moved
  <2>5. ~write => ReadOut(r, s, a)
    <3> SUFFICES ASSUME ~write PROVE ReadOut(r, s, a)
      OBVIOUS
    <3>1. Appended(r, t, x)
      BY <1>2, <1>5, <1>11, AppendPiece
    <3> QED BY <1>1, <1>2, <1>4, <1>6, <1>11, <2>3, <3>1, ReadTurn, Zenon DEF Moved
  <2>6. a + r.alen <= BLKSIZE * r.din.blocks
    <3> DEFINE u == BLKSIZE * x.blk
               v == BLKSIZE * r.din.blocks
    <3>1. BLKSIZE \in Nat \ {0}
      BY Constants
    <3>2. u + BLKSIZE <= v /\ u \in Nat /\ v \in Nat
      <4>1. x.blk < r.din.blocks /\ x.blk \in Nat /\ r.din.blocks \in Nat
        BY <1>5, <1>11, <2>1
      <4> DEFINE n == x.blk
                 m == r.din.blocks
      <4>2. n < m /\ n \in Nat /\ m \in Nat
        BY <4>1
      <4> HIDE DEF n, m
      <4>3. BLKSIZE * n + BLKSIZE <= BLKSIZE * m /\ BLKSIZE * n \in Nat /\ BLKSIZE * m \in Nat
        BY ONLY <3>1, <4>2, Multiples
      <4> QED BY <4>3 DEF n, m
    <3>3. a + t.alen = u + x.off
      BY <2>3
    <3> HIDE DEF u, v
    <3>4. a + r.alen <= v
      BY <1>2, <1>4, <1>5, <1>11, <3>1, <3>2, <3>3, SMTT(30)
    <3> QED BY <3>4 DEF v
  <2>7. Moved(r, s, a, buf, write)
    BY <1>11, <2>2, <2>4, <2>5, <2>6, Zenon DEF Moved
  <2>8. k + 1 # 0 /\ P[k + 1].blk < r.din.blocks
    BY <1>11 DEF x
  <2> QED BY <1>11, <2>1, <2>7, <2>8, Zenon DEF Going
<1>12. CASE /\ x.blk <= t.din.blocks /\ Whole(r) /\ Keeps(r, t)
            /\ r.ret = "E_NO_MEM" /\ x.blk = t.din.blocks /\ ~Fits(Map(t), t.free, x.blk)
            /\ Bytes(r, t) /\ r.alen = t.alen /\ r.buf = t.buf /\ r.din.blocks = t.din.blocks
  <2>1. Keeps(r, s)
    BY <1>2, <1>12, KeepsTwice
  <2>2. Moved(r, s, a, buf, write)
    <3>1. write => Written(r, s, a, buf)
      BY <1>1, <1>12, NoTurn, Zenon DEF Moved
    <3>2. ~write => ReadOut(r, s, a)
      BY <1>1, <1>12, NoTurn, Zenon DEF Moved
    <3>3. r.alen > 0 => a + r.alen <= BLKSIZE * r.din.blocks
      BY <1>1, <1>12 DEF Moved
    <3> QED BY <1>12, <2>1, <3>1, <3>2, <3>3, Zenon DEF Moved
  <2>3. s.din.blocks <= P[Len(P)].blk
    <3> DEFINE l == P[M].blk
               n == x.blk
    <3>1. n <= l /\ n = t.din.blocks /\ l \in Int
      BY <1>3, <1>12 DEF Index
    <3> HIDE DEF l, n
    <3>2. s.din.blocks <= l
      BY <1>2, <3>1
    <3> QED BY <3>2 DEF l
  <2>4. a + r.alen <= Edge(P, a, Len(P))
    BY <1>1, <1>3, <1>12
  <2>5. r.alen = 0 => P[1].blk = s.din.blocks /\ ~Fits(Map(s), s.free, P[1].blk)
    <3> SUFFICES ASSUME r.alen = 0 PROVE P[1].blk = s.din.blocks /\ ~Fits(Map(s), s.free, P[1].blk)
      OBVIOUS
    <3>1. k = 0 /\ t = s
      BY <1>1, <1>12
    <3>2. x = P[1]
      BY <3>1
    <3> QED BY <1>12, <3>1, <3>2
  <2> QED BY <1>12, <2>2, <2>3, <2>4, <2>5, Zenon DEF Going
<1> QED BY <1>7, <1>10, <1>11, <1>12, Zenon DEF Turned

(***************************************************************************)
(* The loop of sfs_io_nolock.                                              *)
(***************************************************************************)
LEMMA PiecesEffect ==
  ASSUME NEW s, Whole(s), s.ret = "ok", s.alen = 0, s.buf = <<>>,
         NEW a \in Nat, NEW b \in Nat, NEW P, Covers(P, a, b), P[Len(P)].blk \in Index,
         NEW buf, NEW write \in BOOLEAN, write => \A i \in Int : buf[i] \in Byte
  PROVE  Going(PiecesDone(s, P, buf, write), s, P, a, Len(P), buf, write)
<1> DEFINE M == Len(P)
<1>1. M \in Nat /\ s \in Good /\ s.din.blocks \in Nat
  BY WholeFacts DEF Covers
<1>2. PICK f : PieceByPiece(f, s, P, buf, write)
  <2>1. \A i \in 1 .. Len(P) : IsPiece(P[i])
    BY DEF Covers
  <2> QED BY <1>1, <2>1, PiecesRun, Zenon
<1>3. /\ f[0] = s /\ f[M] = PiecesDone(s, P, buf, write)
      /\ \A k \in 0 .. M - 1 :
            f[k + 1] = IF f[k].ret = "ok" THEN PieceDone(f[k], P[k + 1], buf, write) ELSE f[k]
  BY <1>2, Zenon DEF PieceByPiece
<1> DEFINE T == {k \in 0 .. M : Going(f[k], s, P, a, k, buf, write)}
<1>4. 0 \in T
  <2>1. Written(s, s, a, buf)
    <3> SUFFICES ASSUME NEW j \in Index, NEW c \in 0 .. BLKSIZE - 1
                 PROVE  ~(a <= BLKSIZE * j + c /\ BLKSIZE * j + c < a + s.alen)
      BY Zenon DEF Written
    <3>1. BLKSIZE * j + c \in Int
      BY Constants DEF Index
    <3> QED BY <3>1
  <2>2. ReadOut(s, s, a)
    <3> SUFFICES ASSUME NEW j \in Index, NEW c \in 0 .. BLKSIZE - 1
                 PROVE  ~(a <= BLKSIZE * j + c /\ BLKSIZE * j + c < a + s.alen)
      BY DEF ReadOut, Bytes
    <3>1. BLKSIZE * j + c \in Int
      BY Constants DEF Index
    <3> QED BY <3>1
  <2>3. Keeps(s, s)
    BY <1>1 DEF Keeps
  <2>4. ~(s.alen > 0) /\ a + s.alen = Edge(P, a, 0)
    BY DEF Edge
  <2>5. Moved(s, s, a, buf, write)
    BY <2>1, <2>2, <2>3, <2>4, Zenon DEF Moved
  <2>6. Going(s, s, P, a, 0, buf, write)
    BY <2>4, <2>5, Zenon DEF Going
  <2> QED BY <1>1, <1>3, <2>6
<1>5. ASSUME NEW k \in 0 .. M - 1, k \in T PROVE k + 1 \in T
  <2>1. k + 1 \in 0 .. M /\ k \in 0 .. M
    BY <1>1
  <2>2. Going(f[k], s, P, a, k, buf, write)
    BY <1>5
  <2>3. CASE f[k].ret = "ok"
    <3>1. f[k + 1] = PieceDone(f[k], P[k + 1], buf, write)
      BY <1>3, <2>3
    <3>2. Going(PieceDone(f[k], P[k + 1], buf, write), s, P, a, k + 1, buf, write)
      <4> HIDE DEF T
      <4> QED BY <2>2, <2>3, IoTurn, Zenon
    <3> QED BY <2>1, <3>1, <3>2
  <2>4. CASE f[k].ret # "ok"
    <3>1. f[k + 1] = f[k]
      BY <1>3, <2>4
    <3>2. Going(f[k], s, P, a, k + 1, buf, write)
      BY <2>2, <2>4, Zenon DEF Going
    <3> QED BY <2>1, <3>1, <3>2
  <2> QED BY <2>3, <2>4
<1> HIDE DEF T
<1>6. \A k \in 0 .. M : k \in T
  <2> HIDE DEF M
  <2> QED BY <1>1, <1>4, <1>5, LoopInduction
<1>7. M \in T
  BY <1>1, <1>6
<1> QED BY <1>3, <1>7 DEF T

----------------------------------------------------------------------------
(* What reading and writing do to a file.                                  *)

\* There are blocks for all bytes of the file.
Sized(s) == s.din.size <= BLKSIZE * s.din.blocks

\* Behind the end of the file there are only zeroes.
Zeroed(s) == \A j \in Index, c \in 0 .. BLKSIZE - 1 :
                BLKSIZE * j + c >= s.din.size => At(s, j, c) = 0

\* A file between two calls.
Valid(s) == Whole(s) /\ Sized(s) /\ Zeroed(s)

\* Offset a was reached when there were blocks for all bytes before it.
Reached(s, a) == a <= MaxPos /\ (a > 0 => Fits(Map(s), s.free, (a - 1) \div BLKSIZE))

\* What every call keeps of the file s.
Continues(r, s) ==
    /\ s.din.blocks <= r.din.blocks \/ r.dirty
    /\ s.dirty => r.dirty
    /\ r.din.size # s.din.size => r.dirty
    /\ \A j \in Index : Fits(Map(s), s.free, j) => Fits(Map(r), r.free, j)

LEMMA DivIs ==
  ASSUME NEW B \in Nat \ {0}, NEW q \in Nat, NEW m \in 0 .. B - 1
  PROVE  (B * q + m) \div B = q
<1> DEFINE a == B * q + m
           p == a \div B
<1>1. a \in Nat
  OBVIOUS
<1>2. p \in Nat /\ a % B \in 0 .. B - 1 /\ a = B * p + (a % B)
  BY <1>1, DivMod
<1> DEFINE x == B * p
           y == B * q
           n == a % B
<1>3. /\ x \in Nat /\ y \in Nat
      /\ p < q => x + B <= y
      /\ q < p => y + B <= x
  BY <1>2, Multiples
<1>4. y + m = x + n /\ n \in 0 .. B - 1
  BY <1>2
<1> HIDE DEF p, x, y, n
<1>5. ~(p < q) /\ ~(q < p)
  BY ONLY <1>3, <1>4, B \in Nat, m \in 0 .. B - 1
<1>6. p = q
  BY <1>2, <1>5
<1> QED BY <1>6 DEF p

(***************************************************************************)
(* The blocks of an access.                                                *)
(***************************************************************************)
LEMMA CoverBlocks ==
  ASSUME NEW P, NEW a \in Nat, NEW b \in Nat, Covers(P, a, b)
  PROVE  /\ P[1].blk \in Nat /\ P[Len(P)].blk \in Nat /\ P[1].blk <= P[Len(P)].blk
         /\ P[1].blk = a \div BLKSIZE
         /\ a = BLKSIZE * P[1].blk + P[1].off /\ P[1].off \in 0 .. BLKSIZE - 1
         /\ \A m \in Nat : b <= BLKSIZE * m => P[Len(P)].blk < m
<1> DEFINE M == Len(P)
           x == P[1]
           y == P[M]
<1>1. BLKSIZE \in Nat \ {0}
  BY Constants
<1>2. /\ M \in Nat /\ M > 0 /\ a = BLKSIZE * x.blk + x.off
      /\ b = BLKSIZE * y.blk + y.off + y.len
  BY Zenon DEF Covers
<1>3. \A i \in 1 .. M : /\ P[i].blk \in Nat /\ P[i].off \in Nat /\ P[i].len \in Nat
                        /\ P[i].len > 0 /\ P[i].off + P[i].len <= BLKSIZE
                        /\ P[i].blk = P[1].blk + i - 1
  BY DEF Covers, IsPiece
<1> HIDE DEF M
<1>4. 1 \in 1 .. M /\ M \in 1 .. M
  BY <1>2
<1>5. /\ x.blk \in Nat /\ x.off \in Nat /\ x.len \in Nat /\ x.len > 0 /\ x.off + x.len <= BLKSIZE
      /\ y.blk \in Nat /\ y.off \in Nat /\ y.len \in Nat /\ y.len > 0
      /\ y.blk = x.blk + M - 1
  BY <1>3, <1>4
<1> HIDE DEF x, y
<1>6. x.blk <= y.blk /\ x.off \in 0 .. BLKSIZE - 1
  BY <1>1, <1>2, <1>5
<1>7. x.blk = a \div BLKSIZE
  BY <1>1, <1>2, <1>5, <1>6, DivIs
<1>8. ASSUME NEW m \in Nat, b <= BLKSIZE * m PROVE y.blk < m
  <2> DEFINE n == y.blk
             u == BLKSIZE * n
             v == BLKSIZE * m
  <2>1. n \in Nat /\ u \in Nat /\ v \in Nat
    BY <1>1, <1>5
  <2>2. (m < n => v + BLKSIZE <= u) /\ (m = n => u = v)
    <3> HIDE DEF n
    <3>1. m < n => v + BLKSIZE <= u
      BY ONLY <1>1, <2>1, m \in Nat, Multiples
    <3>2. m = n => u = v
      OBVIOUS
    <3> QED BY <3>1, <3>2
  <2>3. b = u + y.off + y.len /\ b <= v
    BY <1>2, <1>8
  <2> HIDE DEF n, u, v
  <2>4. y.off \in Nat /\ y.len \in Nat /\ y.len > 0
    BY <1>5
  <2>5. n < m
    BY ONLY <1>1, <2>1, <2>2, <2>3, <2>4, m \in Nat
  <2> QED BY <2>5 DEF n
<1> QED BY <1>2, <1>5, <1>6, <1>7, <1>8, Zenon DEF x, y, M

(***************************************************************************)
(* There were blocks for an offset that a file reaches.                    *)
(***************************************************************************)
LEMMA WithinReached ==
  ASSUME NEW s, Whole(s), NEW a \in Nat, a <= BLKSIZE * s.din.blocks
  PROVE  Reached(s, a)
<1>1. BLKSIZE \in Nat \ {0} /\ NDIRECT \in Nat /\ NENTRY \in Nat
  BY Constants
<1>2. s.din.blocks \in Nat /\ s \in Fs /\ s.din.blocks <= NDIRECT + NENTRY /\ Filled(s)
  BY WholeFacts DEF Whole
<1>3. a <= MaxPos
  <2> DEFINE n == s.din.blocks
             N == NDIRECT + NENTRY
             u == BLKSIZE * n
             v == BLKSIZE * N
  <2>1. /\ n \in Nat /\ N \in Nat /\ n <= N /\ u \in Nat /\ v \in Nat
    BY <1>1, <1>2
  <2>2. n < N => u + BLKSIZE <= v
    <3> HIDE DEF n, N
    <3> QED BY <1>1, <2>1, Multiples
  <2>3. a <= u /\ MaxPos = v
    BY <1>1 DEF MaxPos
  <2>4. n = N => u = v
    OBVIOUS
  <2> HIDE DEF n, N, u, v
  <2> QED BY <1>1, <2>1, <2>2, <2>3, <2>4
<1>4. ASSUME a > 0 PROVE Fits(Map(s), s.free, (a - 1) \div BLKSIZE)
  <2> DEFINE q == (a - 1) \div BLKSIZE
             m == (a - 1) % BLKSIZE
  <2>1. a - 1 \in Nat
    BY <1>4
  <2>2. q \in Nat /\ m \in 0 .. BLKSIZE - 1 /\ a - 1 = BLKSIZE * q + m
    BY <1>1, <2>1, DivMod
  <2> HIDE DEF q, m
  <2>3. q < s.din.blocks
    <3> DEFINE n == s.din.blocks
               u == BLKSIZE * q
               v == BLKSIZE * n
    <3>1. u \in Nat /\ v \in Nat /\ n \in Nat /\ (q = n => u = v)
      BY <1>1, <1>2, <2>2
    <3>2. n < q => v + BLKSIZE <= u
      <4> HIDE DEF n
      <4> QED BY <1>1, <2>2, <3>1, Multiples
    <3>3. a - 1 = u + m /\ a <= v
      BY <2>2
    <3> HIDE DEF n, u, v
    <3>4. q < n
      BY <1>1, <2>2, <3>1, <3>2, <3>3
    <3> QED BY <3>4 DEF n
  <2>4. q \in Index
    BY <1>1, <1>2, <2>2, <2>3 DEF Index
  <2>5. Lack(Map(s), q) = {}
    <3>1. \A l \in 0 .. q : Map(s)[l] # 0
      BY <1>2, <2>2, <2>3 DEF Filled
    <3>2. q >= NDIRECT => s.din.indirect # 0
      <4> SUFFICES ASSUME q >= NDIRECT PROVE s.din.indirect # 0
        OBVIOUS
      <4>1. q - NDIRECT \in 0 .. NENTRY - 1 /\ NDIRECT + (q - NDIRECT) = q /\ q \in 0 .. q
        BY <1>1, <2>2, <2>4 DEF Index
      <4>2. Map(s)[NDIRECT + (q - NDIRECT)] = IF s.din.indirect = 0 THEN 0
                                              ELSE s.data[s.din.indirect][q - NDIRECT]
        BY <4>1, MapAt
      <4> QED BY <3>1, <4>1, <4>2
    <3>3. Map(s)[-1] = s.din.indirect
      BY MapAt
    <3> SUFFICES ASSUME NEW l \in Span(q) PROVE Map(s)[l] # 0
      BY DEF Lack
    <3>4. l \in 0 .. q \/ (l = -1 /\ ~(q < NDIRECT))
      BY DEF Span
    <3>5. ~(q < NDIRECT) => q >= NDIRECT
      BY <1>1, <2>2
    <3> QED BY <3>1, <3>2, <3>3, <3>4, <3>5
  <2>6. Cardinality(Lack(Map(s), q)) = 0
    BY <2>5, FS_EmptySet
  <2>7. Cardinality(s.free) \in Nat
    <3>1. s.free \in SUBSET Block
      BY <1>2 DEF Fs
    <3> QED BY <3>1, FreeFinite
  <2>8. Fits(Map(s), s.free, q)
    BY <2>6, <2>7 DEF Fits
  <2> QED BY <2>8 DEF q
<1> QED BY <1>3, <1>4 DEF Reached

LEMMA ReachedKept ==
  ASSUME NEW s, NEW r, Continues(r, s), NEW a \in Nat, Reached(s, a)
  PROVE  Reached(r, a)
<1>1. a > 0 => (a - 1) \div BLKSIZE \in Index
  <2> SUFFICES ASSUME a > 0 PROVE (a - 1) \div BLKSIZE \in Index
    OBVIOUS
  <2>1. BLKSIZE \in Nat \ {0} /\ NDIRECT + NENTRY \in Nat
    BY Constants
  <2> DEFINE q == (a - 1) \div BLKSIZE
             m == (a - 1) % BLKSIZE
             N == NDIRECT + NENTRY
  <2>2. a - 1 \in Nat /\ a <= N * BLKSIZE
    BY DEF Reached, MaxPos
  <2>3. q \in Nat /\ m \in 0 .. BLKSIZE - 1 /\ a - 1 = BLKSIZE * q + m
    BY <2>1, <2>2, DivMod
  <2> HIDE DEF q, m, N
  <2>4. N \in Nat
    BY <2>1 DEF N
  <2> DEFINE u == BLKSIZE * q
             v == BLKSIZE * N
  <2>5. u \in Nat /\ v \in Nat /\ (q = N => u = v) /\ (N < q => v + BLKSIZE <= u)
    BY <2>1, <2>3, <2>4, Multiples
  <2>6. a - 1 = u + m /\ a <= v
    BY <2>1, <2>2, <2>3, <2>4
  <2> HIDE DEF u, v
  <2>7. q < N
    BY <2>1, <2>3, <2>4, <2>5, <2>6
  <2>8. q \in 0 .. N - 1
    BY <2>3, <2>4, <2>7
  <2>9. N - 1 = NDIRECT + NENTRY - 1
    BY Constants DEF N
  <2> QED BY <2>8, <2>9, Zenon DEF q, Index
<1>2. a > 0 => Fits(Map(r), r.free, (a - 1) \div BLKSIZE)
  BY <1>1, Zenon DEF Continues, Reached
<1> QED BY <1>2 DEF Reached

LEMMA More ==
  ASSUME NEW B \in Nat, NEW p \in Nat, NEW q \in Nat, p <= q
  PROVE  B * p \in Nat /\ B * q \in Nat /\ B * p <= B * q
<1> DEFINE d == q - p
<1>1. d \in Nat /\ q = p + d
  OBVIOUS
<1> HIDE DEF d
<1>2. B * q = B * p + B * d
  BY <1>1
<1>3. B * p \in Nat /\ B * d \in Nat
  BY <1>1
<1> QED BY <1>2, <1>3

(***************************************************************************)
(* Blocks that are added leave the file as it is.                          *)
(***************************************************************************)
LEMMA ValidKept ==
  ASSUME NEW s, Valid(s), NEW r, Whole(r), Keeps(r, s), Bytes(r, s)
  PROVE  Valid(r) /\ Continues(r, s)
<1>1. /\ s.din.blocks \in Nat /\ r.din.blocks \in Nat /\ s.din.size \in Nat
      /\ BLKSIZE \in Nat
  BY WholeFacts, Constants DEF Valid
<1>2. r.din.size = s.din.size /\ s.din.blocks <= r.din.blocks
  BY DEF Keeps
<1>3. Sized(r)
  <2>1. /\ BLKSIZE * s.din.blocks <= BLKSIZE * r.din.blocks
        /\ BLKSIZE * s.din.blocks \in Nat /\ BLKSIZE * r.din.blocks \in Nat
    BY <1>1, <1>2, More
  <2>2. s.din.size <= BLKSIZE * s.din.blocks
    BY DEF Valid, Sized
  <2> DEFINE u == BLKSIZE * s.din.blocks
             v == BLKSIZE * r.din.blocks
  <2> HIDE DEF u, v
  <2>3. s.din.size <= v
    BY ONLY <1>1, <2>1, <2>2 DEF u, v
  <2> QED BY <1>2, <2>3 DEF Sized, v
<1>4. Zeroed(r)
  <2>1. \A c \in 0 .. BLKSIZE - 1 : c \in Cell
    BY Constants
  <2> QED BY <1>2, <2>1, Zenon DEF Valid, Zeroed, Bytes
<1>5. Continues(r, s)
  BY <1>2, Zenon DEF Keeps, Continues
<1> QED BY <1>3, <1>4, <1>5 DEF Valid

\* r has read the bytes of s at offset a, at most n of them.
Reads(r, s, a, n) ==
    /\ r.ret = "ok" /\ Valid(r) /\ Continues(r, s) /\ Bytes(r, s) /\ r.din.size = s.din.size
    /\ IF n = 0 \/ a >= s.din.size THEN r.alen = 0 /\ r.buf = <<>>
       ELSE /\ a + r.alen = IF a + n > s.din.size THEN s.din.size ELSE a + n
            /\ ReadOut(r, s, a)

(***************************************************************************)
(* Reading a file.                                                         *)
(***************************************************************************)
LEMMA ReadEffect ==
  ASSUME NEW s, Valid(s), s.ret = "ok", s.alen = 0, s.buf = <<>>, NEW a \in Nat, NEW n \in Nat
  PROVE  Reads(sfs_io(s, a, n, <<>>, FALSE), s, a, n)
<1> DEFINE b == IF a + n > s.din.size THEN s.din.size ELSE a + n
           P == Pieces(a, b)
           t == PiecesDone(s, P, <<>>, FALSE)
<1>0. /\ Whole(s) /\ s.din.blocks \in Nat /\ s.din.size \in Nat
      /\ s.din.blocks <= NDIRECT + NENTRY
  BY WholeFacts DEF Valid
<1>1. SUFFICES ASSUME NEW r, r = sfs_io(s, a, n, <<>>, FALSE) PROVE Reads(r, s, a, n)
  OBVIOUS
<1>2. CASE n = 0 \/ a >= s.din.size
  <2>1. r = s
    BY <1>1, <1>2, Zenon DEF sfs_io
  <2>2. Bytes(s, s) /\ Keeps(s, s)
    BY <1>0 DEF Bytes, Keeps
  <2>3. Continues(s, s)
    BY <1>0, <2>2, ValidKept
  <2> QED BY <1>2, <2>1, <2>2, <2>3 DEF Reads
<1>3. CASE ~(n = 0 \/ a >= s.din.size)
  <2>1. r = IF a + t.alen > t.din.size THEN [t EXCEPT !.din.size = a + t.alen, !.dirty = TRUE]
            ELSE t
    BY <1>1, <1>3, Zenon DEF sfs_io, PiecesDone, PieceDone
  <2>2. b \in Nat /\ a < b /\ b <= s.din.size
    BY <1>0, <1>3
  <2>3. b = IF a + n > s.din.size THEN s.din.size ELSE a + n
    OBVIOUS
  <2> HIDE DEF b
  <2>4. Covers(P, a, b)
    BY <2>2, PiecesCover
  <2> HIDE DEF P
  <2>5. P[1].blk \in Nat /\ P[Len(P)].blk \in Nat /\ P[1].blk <= P[Len(P)].blk
        /\ P[Len(P)].blk < s.din.blocks
    <3>1. b <= BLKSIZE * s.din.blocks
      <4>1. s.din.size <= BLKSIZE * s.din.blocks /\ BLKSIZE * s.din.blocks \in Nat
        <5>1. BLKSIZE \in Nat
          BY Constants
        <5>2. BLKSIZE * s.din.blocks \in Nat
          BY <1>0, <5>1, More
        <5> QED BY <5>2 DEF Valid, Sized
      <4> DEFINE u == BLKSIZE * s.din.blocks
      <4> HIDE DEF u
      <4>2. b <= u
        BY ONLY <1>0, <2>2, <4>1 DEF u
      <4> QED BY <4>2 DEF u
    <3> QED BY <1>0, <2>2, <2>4, <3>1, CoverBlocks, Zenon
  <2>6. P[Len(P)].blk \in Index
    BY <1>0, <2>5, Constants DEF Index
  <2>7. Going(t, s, P, a, Len(P), <<>>, FALSE)
    <3>1. FALSE \in BOOLEAN /\ (FALSE => \A i \in Int : <<>>[i] \in Byte)
      OBVIOUS
    <3> QED BY <1>0, <2>2, <2>4, <2>6, <3>1, PiecesEffect, Zenon
  <2>8. Edge(P, a, Len(P)) = b
    <3>1. Len(P) \in Nat /\ Len(P) > 0 /\ b = BLKSIZE * P[Len(P)].blk + P[Len(P)].off + P[Len(P)].len
      BY <2>4, Zenon DEF Covers
    <3>2. Len(P) # 0
      BY <3>1
    <3> QED BY <3>1, <3>2, Zenon DEF Edge
  <2>9. ~(P[1].blk > s.din.blocks) /\ ~(s.din.blocks <= P[Len(P)].blk)
    BY <1>0, <2>5
  <2> HIDE DEF t
  <2>10. Moved(t, s, a, <<>>, FALSE) /\ t.ret = "ok" /\ a + t.alen = b
    BY <2>7, <2>8, <2>9, Zenon DEF Going
  <2>11. Whole(t) /\ Keeps(t, s) /\ ReadOut(t, s, a)
    BY <2>10, Zenon DEF Moved
  <2>12. t.din.size = s.din.size /\ Bytes(t, s)
    BY <2>11, Zenon DEF Keeps, ReadOut
  <2>13. Valid(t) /\ Continues(t, s)
    BY <2>11, <2>12, ValidKept
  <2>14. r = t
    <3>1. ~(a + t.alen > t.din.size)
      BY <1>0, <2>2, <2>10, <2>12
    <3> QED BY <2>1, <3>1, Zenon
  <2> QED BY <1>3, <2>3, <2>10, <2>11, <2>12, <2>13, <2>14, Zenon DEF Reads
<1> QED BY <1>2, <1>3

\* r is s with the inode marked dirty and another size in it.
Resizes(r, s, n) == r = [s EXCEPT !.din = [s.din EXCEPT !.size = n], !.dirty = TRUE]

Resized(r, s, n) ==
    /\ Whole(r) /\ r.din.size = n /\ r.din.blocks = s.din.blocks /\ r.dirty
    /\ r.ret = s.ret /\ r.alen = s.alen /\ r.buf = s.buf
    /\ Map(r) = Map(s) /\ r.free = s.free /\ Bytes(r, s)

LEMMA Resize ==
  ASSUME NEW s, Whole(s), NEW n \in Nat, NEW r, Resizes(r, s, n)
  PROVE  Resized(r, s, n)
<1> DEFINE din == [s.din EXCEPT !.size = n]
<1>1. s \in Fs /\ s \in Good /\ s.ret \in Error /\ Owned(s) /\ s.din \in Inode
  BY DEF Whole, Good, Fs
<1>2. /\ din \in Inode /\ din.direct = s.din.direct /\ din.indirect = s.din.indirect
      /\ din.blocks = s.din.blocks /\ din.size = n
  BY <1>1 DEF Inode
<1>3. r = [s EXCEPT !.din = din, !.dirty = TRUE]
  BY DEF Resizes
<1> HIDE DEF din
<1>4. /\ r \in Fs /\ r.din = din /\ r.free = s.free /\ r.data = s.data /\ r.dirty = TRUE
      /\ r.ret = s.ret /\ r.alen = s.alen /\ r.buf = s.buf
  BY <1>1, <1>2, <1>3 DEF Fs
<1>5. Map(r) = Map(s)
  BY <1>2, <1>4, MapSame
<1>6. Owned(r)
  BY <1>1, <1>4, <1>5 DEF Owned, Kept
<1>7. r \in Good
  BY <1>4, <1>6 DEF Good
<1>8. Filled(r)
  BY <1>2, <1>4, <1>5, Zenon DEF Whole, Filled
<1>9. Whole(r)
  BY <1>1, <1>4, <1>7, <1>8 DEF Whole
<1>10. Bytes(r, s)
  BY <1>4, <1>5, Zenon DEF At, Bytes
<1> QED BY <1>2, <1>4, <1>5, <1>9, <1>10, Zenon DEF Resized

\* r has written bytes of buf into s at offset a, at most n of them; a file
\* that ends before a is longer then, also when there was no room for a byte.
Wrotes(r, s, a, n, buf) ==
    /\ r.ret \in Error /\ Valid(r) /\ Continues(r, s) /\ r.alen <= n
    /\ Written(r, s, a, buf) /\ Reached(r, a + r.alen)
    /\ r.din.size = IF a + r.alen > s.din.size THEN a + r.alen ELSE s.din.size

(***************************************************************************)
(* Writing to a file.                                                      *)
(***************************************************************************)
LEMMA WriteEffect ==
  ASSUME NEW s, Valid(s), s.ret = "ok", s.alen = 0, s.buf = <<>>,
         NEW a \in Nat, Reached(s, a), NEW n \in Nat, a + n <= MaxPos,
         NEW buf, \A i \in Int : buf[i] \in Byte
  PROVE  LET r == sfs_io(s, a, n, buf, TRUE)
         IN  \/ n = 0 /\ r = s
             \/ a \div BLKSIZE > s.din.blocks /\ r.ret = "index <= din->blocks"
             \/ n > 0 /\ Wrotes(r, s, a, n, buf)
<1> DEFINE b == a + n
           P == Pieces(a, b)
           t == PiecesDone(s, P, buf, TRUE)
<1>0. /\ Whole(s) /\ s.din.blocks \in Nat /\ s.din.size \in Nat
      /\ s.din.blocks <= NDIRECT + NENTRY
      /\ BLKSIZE \in Nat \ {0} /\ NDIRECT \in Nat /\ NENTRY \in Nat
  BY WholeFacts, Constants DEF Valid
<1>1. SUFFICES ASSUME NEW r, r = sfs_io(s, a, n, buf, TRUE)
               PROVE  \/ n = 0 /\ r = s
                      \/ a \div BLKSIZE > s.din.blocks /\ r.ret = "index <= din->blocks"
                      \/ n > 0 /\ Wrotes(r, s, a, n, buf)
  OBVIOUS
<1>2. CASE n = 0
  BY <1>1, <1>2, Zenon DEF sfs_io
<1>3. CASE n # 0
  <2>1. r = IF a + t.alen > t.din.size THEN [t EXCEPT !.din.size = a + t.alen, !.dirty = TRUE]
            ELSE t
    BY <1>1, <1>3, Zenon DEF sfs_io, PiecesDone, PieceDone
  <2>2. b \in Nat /\ a < b /\ b = a + n /\ b <= MaxPos
    BY <1>3
  <2> HIDE DEF b
  <2>4. Covers(P, a, b)
    BY <2>2, PiecesCover
  <2> HIDE DEF P
  <2>5. /\ P[1].blk \in Nat /\ P[Len(P)].blk \in Nat /\ P[1].blk <= P[Len(P)].blk
        /\ P[1].blk = a \div BLKSIZE
        /\ a = BLKSIZE * P[1].blk + P[1].off /\ P[1].off \in 0 .. BLKSIZE - 1
    BY <2>2, <2>4, CoverBlocks
  <2>6. P[Len(P)].blk < NDIRECT + NENTRY
    <3> DEFINE N == NDIRECT + NENTRY
    <3>1. N \in Nat /\ MaxPos = N * BLKSIZE
      BY <1>0 DEF MaxPos
    <3> HIDE DEF N
    <3>2. b <= BLKSIZE * N
      BY <1>0, <2>2, <3>1
    <3>3. P[Len(P)].blk < N
      BY <2>2, <2>4, <3>1, <3>2, CoverBlocks, Zenon
    <3> QED BY <3>3 DEF N
  <2>7. P[Len(P)].blk \in Index
    <3> DEFINE y == P[Len(P)].blk
    <3>1. y \in Nat /\ y < NDIRECT + NENTRY
      BY <2>5, <2>6
    <3> HIDE DEF y
    <3>2. y \in 0 .. NDIRECT + NENTRY - 1
      BY ONLY <1>0, <3>1
    <3> QED BY <3>2 DEF y, Index
  <2>8. Going(t, s, P, a, Len(P), buf, TRUE)
    <3>1. TRUE \in BOOLEAN /\ (TRUE => \A i \in Int : buf[i] \in Byte)
      OBVIOUS
    <3> QED BY <1>0, <2>2, <2>4, <2>7, <3>1, PiecesEffect, Zenon
  <2>9. Edge(P, a, Len(P)) = b /\ Len(P) # 0
    <3>1. Len(P) \in Nat /\ Len(P) > 0 /\ b = BLKSIZE * P[Len(P)].blk + P[Len(P)].off + P[Len(P)].len
      BY <2>4, Zenon DEF Covers
    <3>2. Len(P) # 0
      BY <3>1
    <3> QED BY <3>1, <3>2, Zenon DEF Edge
  <2> HIDE DEF t
  <2>10. CASE P[1].blk > s.din.blocks /\ t.ret = "index <= din->blocks"
    <3>1. r.ret = t.ret
      <4>1. CASE a + t.alen > t.din.size
        <5>1. r = [t EXCEPT !.din.size = a + t.alen, !.dirty = TRUE]
          BY <2>1, <4>1, Zenon
        <5> QED BY <5>1
      <4>2. CASE ~(a + t.alen > t.din.size)
        BY <2>1, <4>2, Zenon
      <4> QED BY <4>1, <4>2, Zenon
    <3> QED BY <2>5, <2>10, <3>1, Zenon
  <2>11. CASE ~(P[1].blk > s.din.blocks /\ t.ret = "index <= din->blocks")
    <3>1. /\ Moved(t, s, a, buf, TRUE)
          /\ \/ t.ret = "ok" /\ a + t.alen = b /\ t.alen > 0
             \/ /\ t.ret = "E_NO_MEM" /\ a + t.alen <= b
                /\ t.alen = 0 => P[1].blk = s.din.blocks /\ ~Fits(Map(s), s.free, P[1].blk)
      BY <2>8, <2>9, <2>11, Zenon DEF Going
    <3>2. Whole(t) /\ Keeps(t, s) /\ Written(t, s, a, buf)
          /\ (t.alen > 0 => a + t.alen <= BLKSIZE * t.din.blocks)
      BY <3>1, Zenon DEF Moved
    <3>3. t.din.blocks \in Nat /\ t.din.size \in Nat /\ t.alen \in Nat
          /\ t.din.size = s.din.size /\ s.din.blocks <= t.din.blocks
          /\ t.ret \in Error
      BY <3>2, WholeFacts DEF Keeps
    <3>4. t.alen <= n
      BY <2>2, <3>1, <3>3
    <3> DEFINE e == a + t.alen
               z == IF e > s.din.size THEN e ELSE s.din.size
    <3>5. e \in Nat /\ z \in Nat /\ (z # s.din.size => z = e /\ e > s.din.size)
          /\ z >= e /\ z >= s.din.size
      BY <1>0, <3>3
    <3>6. CASE e > s.din.size
      <4>1. Resizes(r, t, e)
        <5>1. a + t.alen > t.din.size
          BY <3>3, <3>6
        <5> QED BY <2>1, <5>1 DEF Resizes
      <4> HIDE DEF e
      <4>2. /\ Whole(r) /\ r.din.size = e /\ r.din.blocks = t.din.blocks /\ r.dirty
            /\ r.ret = t.ret /\ r.alen = t.alen /\ Map(r) = Map(t) /\ r.free = t.free
            /\ Bytes(r, t)
        <5>1. Whole(t) /\ e \in Nat /\ Resizes(r, t, e)
          BY <3>2, <3>5, <4>1
        <5>2. Resized(r, t, e)
          BY ONLY <5>1, Resize, Zenon
        <5> QED BY <5>2, Zenon DEF Resized
      <4>3. e <= BLKSIZE * t.din.blocks
        <5>1. CASE t.alen > 0
          BY <3>2, <5>1 DEF e
        <5>2. CASE t.alen = 0
          <6>1. e = a /\ a > 0
            BY <1>0, <3>6, <5>2 DEF e
          <6>2. P[1].blk = s.din.blocks /\ ~Fits(Map(s), s.free, P[1].blk)
            BY <3>1, <5>2
          <6> DEFINE q == P[1].blk
                     m == P[1].off
                     u == BLKSIZE * q
                     v == BLKSIZE * t.din.blocks
          <6>3. q \in Nat /\ m \in 0 .. BLKSIZE - 1 /\ u \in Nat /\ v \in Nat /\ a = u + m
                /\ q = s.din.blocks
            <7>1. q \in Nat /\ m \in 0 .. BLKSIZE - 1 /\ a = u + m /\ q = s.din.blocks
              BY <2>5, <6>2
            <7>2. v \in Nat
              BY <1>0, <3>3, More
            <7> HIDE DEF q
            <7>3. u \in Nat
              BY <1>0, <7>1, More
            <7> QED BY <7>1, <7>2, <7>3
          <6>4. u <= v
            <7> HIDE DEF q
            <7>1. q <= t.din.blocks
              BY <3>3, <6>3
            <7> QED BY <1>0, <3>3, <6>3, <7>1, More
          <6>5. m = 0
            <7> SUFFICES ASSUME m # 0 PROVE FALSE
              OBVIOUS
            <7> HIDE DEF q, m
            <7>1. m - 1 \in 0 .. BLKSIZE - 1 /\ a - 1 = BLKSIZE * q + (m - 1)
              <8> HIDE DEF u
              <8>1. a - 1 = u + (m - 1) /\ m - 1 \in 0 .. BLKSIZE - 1
                BY <1>0, <6>3
              <8> QED BY <8>1 DEF u
            <7>2. (a - 1) \div BLKSIZE = q
              <8> DEFINE d == m - 1
              <8>1. d \in 0 .. BLKSIZE - 1 /\ a - 1 = BLKSIZE * q + d
                BY <7>1
              <8> HIDE DEF d
              <8>2. (BLKSIZE * q + d) \div BLKSIZE = q
                BY <1>0, <6>3, <8>1, DivIs
              <8> QED BY <8>1, <8>2
            <7>3. Fits(Map(s), s.free, q)
              BY <6>1, <7>2 DEF Reached
            <7> QED BY <6>2, <7>3 DEF q
          <6> HIDE DEF q, m, u, v
          <6>6. e <= v
            BY <6>1, <6>3, <6>4, <6>5
          <6> QED BY <6>6 DEF v
        <5> QED BY <3>3, <5>1, <5>2
      <4>4. Sized(r)
        BY <4>2, <4>3 DEF Sized
      <4>5. Reached(r, e)
        BY <3>5, <4>2, <4>3, WithinReached
      <4>6. Continues(r, s)
        BY <3>2, <3>3, <4>2, Zenon DEF Continues, Keeps
      <4>7. Written(r, s, a, buf)
        <5>1. \A c \in 0 .. BLKSIZE - 1 : c \in Cell
          BY Constants
        <5> QED BY <3>2, <4>2, <5>1, Zenon DEF Written, Bytes
      <4>8. Zeroed(r)
        <5> SUFFICES ASSUME NEW j \in Index, NEW c \in 0 .. BLKSIZE - 1,
                            BLKSIZE * j + c >= r.din.size
                     PROVE  At(r, j, c) = 0
          BY Zenon DEF Zeroed
        <5> DEFINE p == BLKSIZE * j + c
        <5>1. p \in Nat
          BY <1>0 DEF Index
        <5>2. p >= e
          BY <4>2
        <5> HIDE DEF p
        <5>3. ~(p < a + r.alen) /\ p >= s.din.size
          BY <1>0, <3>5, <3>6, <4>2, <5>1, <5>2 DEF e
        <5>4. At(r, j, c) = At(s, j, c)
          BY <4>7, <5>3, Zenon DEF Written, p
        <5>5. At(s, j, c) = 0
          BY <5>3, Zenon DEF Valid, Zeroed, p
        <5> QED BY <5>4, <5>5
      <4>9. Valid(r)
        BY <4>2, <4>4, <4>8 DEF Valid
      <4>10. r.ret \in Error /\ r.alen <= n /\ e = a + r.alen
        BY <3>3, <3>4, <4>2 DEF e
      <4>11. r.din.size = IF a + r.alen > s.din.size THEN a + r.alen ELSE s.din.size
        BY <3>6, <4>2, <4>10
      <4>12. n > 0
        BY <1>3
      <4>13. Reached(r, a + r.alen)
        BY <4>5, <4>10
      <4>14. Wrotes(r, s, a, n, buf)
        BY <4>6, <4>7, <4>9, <4>10, <4>11, <4>13, Zenon DEF Wrotes
      <4> QED BY <4>12, <4>14
    <3>7. CASE ~(e > s.din.size)
      <4>1. r = t
        <5>1. ~(a + t.alen > t.din.size)
          BY <3>3, <3>7
        <5> QED BY <2>1, <5>1, Zenon
      <4>2. e <= BLKSIZE * t.din.blocks /\ s.din.size <= BLKSIZE * t.din.blocks
        <5> DEFINE u == BLKSIZE * s.din.blocks
                   v == BLKSIZE * t.din.blocks
        <5>1. u \in Nat /\ v \in Nat /\ u <= v
          BY <1>0, <3>3, More
        <5>2. s.din.size <= u
          BY DEF Valid, Sized
        <5> HIDE DEF u, v, e
        <5>3. e <= v /\ s.din.size <= v
          BY <1>0, <3>5, <3>7, <5>1, <5>2
        <5> QED BY <5>3 DEF v
      <4> HIDE DEF e
      <4>3. Sized(t)
        BY <3>3, <4>2 DEF Sized
      <4>4. Reached(t, e)
        BY <3>2, <3>5, <4>2, WithinReached
      <4>5. Continues(t, s)
        BY <3>2, <3>3, Zenon DEF Continues, Keeps
      <4>6. Zeroed(t)
        <5> SUFFICES ASSUME NEW j \in Index, NEW c \in 0 .. BLKSIZE - 1,
                            BLKSIZE * j + c >= t.din.size
                     PROVE  At(t, j, c) = 0
          BY Zenon DEF Zeroed
        <5> DEFINE p == BLKSIZE * j + c
        <5>1. p \in Nat
          BY <1>0 DEF Index
        <5>2. p >= s.din.size
          BY <3>3
        <5> HIDE DEF p
        <5>3. ~(p < a + t.alen)
          BY <1>0, <3>5, <3>7, <5>1, <5>2 DEF e
        <5>4. At(t, j, c) = At(s, j, c)
          BY <3>2, <5>3, Zenon DEF Written, p
        <5>5. At(s, j, c) = 0
          BY <5>2, Zenon DEF Valid, Zeroed, p
        <5> QED BY <5>4, <5>5
      <4>7. Valid(t)
        BY <3>2, <4>3, <4>6 DEF Valid
      <4>8. t.din.size = IF a + t.alen > s.din.size THEN a + t.alen ELSE s.din.size
        BY <3>3, <3>7 DEF e
      <4>9. n > 0
        BY <1>3
      <4>10. Reached(t, a + t.alen)
        BY <4>4 DEF e
      <4>11. Wrotes(t, s, a, n, buf)
        BY <3>2, <3>3, <3>4, <4>5, <4>7, <4>8, <4>10, Zenon DEF Wrotes
      <4> QED BY <4>1, <4>9, <4>11
    <3> QED BY <3>6, <3>7
  <2> QED BY <2>10, <2>11
<1> QED BY <1>2, <1>3

(***************************************************************************)
(* The loop of sfs_truncfile that adds blocks, and the one that takes      *)
(* blocks away.                                                            *)
(***************************************************************************)
AddBlocks(s, n, m) ==
    Each(LAMBDA u, i : sfs_bmap_load(u, n + i - 1), s, [i \in 1 .. m |-> i])

DropBlocks(s, m) ==
    Each(LAMBDA u, i : sfs_bmap_truncate(u), s, [i \in 1 .. m |-> i])

\* f has the states after each of the blocks.
AddOneByOne(f, s, n, m) ==
    /\ f[0] = s /\ f[m] = AddBlocks(s, n, m)
    /\ \A k \in 0 .. m : f[k] \in Good
    /\ \A k \in 0 .. m - 1 :
          f[k + 1] = IF f[k].ret = "ok" THEN sfs_bmap_load(f[k], n + k) ELSE f[k]

DropOneByOne(f, s, m) ==
    /\ f[0] = s /\ f[m] = DropBlocks(s, m)
    /\ \A k \in 0 .. m : f[k] \in Good
    /\ \A k \in 0 .. m - 1 :
          f[k + 1] = IF f[k].ret = "ok" THEN sfs_bmap_truncate(f[k]) ELSE f[k]

LEMMA AddBlocksRun ==
  ASSUME NEW s \in Good, NEW n \in Nat, NEW m \in Nat
  PROVE  \E f : AddOneByOne(f, s, n, m)
<1> DEFINE P == [i \in 1 .. m |-> i]
           M == Len(P)
           turn(t, x) == IF t.ret = "ok" THEN sfs_bmap_load(t, n + x - 1) ELSE t
           G == [i \in 0 .. M - 1 |-> [t \in Good |-> turn(t, P[i + 1])]]
           Is(f) == f = [i \in 0 .. M |-> IF i = 0 THEN s ELSE turn(f[i - 1], P[i])]
           after == CHOOSE f : Is(f)
<1>1. AddBlocks(s, n, m) = after[M]
  BY Zenon DEF AddBlocks, Each, Then
<1>2. M \in Nat /\ M = m
  OBVIOUS
<1>3. ASSUME NEW t \in Good, NEW i \in 1 .. M PROVE turn(t, P[i]) \in Good
  <2>1. n + P[i] - 1 \in Nat
    BY <1>2
  <2>2. t.ret = "ok" => IsData(sfs_bmap_load(t, n + P[i] - 1))
    BY <2>1, Load, Zenon
  <2> QED BY <2>2, Zenon DEF IsData
<1> HIDE DEF turn, P, M
<1>4. G \in Rounds(M, Good)
  <2>1. \A i \in 0 .. M - 1 : i + 1 \in 1 .. M
    BY <1>2
  <2> QED BY <1>3, <2>1 DEF Rounds
<1>5. PICK f \in [0 .. M -> Good] : Runs(M, s, G, f)
  <2> HIDE DEF G
  <2> QED BY <1>2, <1>4, LoopExists
<1>6. Is(f)
  <2>1. ASSUME NEW k \in 0 .. M, k # 0 PROVE f[k] = turn(f[k - 1], P[k])
    <3>1. k - 1 \in 0 .. M - 1 /\ k - 1 \in 0 .. M /\ (k - 1) + 1 = k
      BY <1>2, <2>1
    <3>2. f[k - 1] \in Good /\ f[k] = G[k - 1][f[k - 1]]
      BY <1>5, <3>1 DEF Runs
    <3> QED BY <3>1, <3>2
  <2> HIDE DEF G
  <2> QED BY <1>5, <2>1 DEF Runs
<1>7. Is(after)
  BY <1>6
<1> HIDE DEF after
<1>8. after[0] = s
  BY <1>2, <1>7
<1>9. \A k \in 0 .. M - 1 : after[k + 1] = turn(after[k], P[k + 1]) /\ k + 1 \in 1 .. M
  <2> SUFFICES ASSUME NEW k \in 0 .. M - 1
               PROVE  after[k + 1] = turn(after[k], P[k + 1]) /\ k + 1 \in 1 .. M
    OBVIOUS
  <2>1. k + 1 \in 0 .. M /\ k + 1 # 0 /\ (k + 1) - 1 = k /\ k + 1 \in 1 .. M
    BY <1>2
  <2> QED BY <1>7, <2>1
<1>10. \A k \in 0 .. M : after[k] \in Good
  <2> DEFINE T == {k \in 0 .. M : after[k] \in Good}
  <2>1. 0 \in T
    BY <1>2, <1>8
  <2>2. \A k \in 0 .. M - 1 : k \in T => k + 1 \in T
    BY <1>2, <1>3, <1>9
  <2> HIDE DEF T
  <2>3. \A k \in 0 .. M : k \in T
    BY <1>2, <2>1, <2>2, LoopInduction
  <2> QED BY <2>3 DEF T
<1>11. ASSUME NEW k \in 0 .. m - 1
       PROVE  after[k + 1] = IF after[k].ret = "ok" THEN sfs_bmap_load(after[k], n + k)
                             ELSE after[k]
  <2>1. k \in 0 .. M - 1 /\ P[k + 1] = k + 1 /\ n + (k + 1) - 1 = n + k
    BY <1>2 DEF P
  <2> QED BY <1>9, <2>1 DEF turn
<1>12. AddOneByOne(after, s, n, m)
  BY <1>1, <1>2, <1>8, <1>10, <1>11 DEF AddOneByOne
<1> QED BY <1>12, Zenon

LEMMA AddBlocksGood ==
  ASSUME NEW s \in Good, NEW n \in Nat, NEW m \in Nat
  PROVE  AddBlocks(s, n, m) \in Good
<1>1. PICK f : AddOneByOne(f, s, n, m)
  BY AddBlocksRun, Zenon
<1>2. m \in 0 .. m
  OBVIOUS
<1> QED BY <1>1, <1>2 DEF AddOneByOne

LEMMA DropBlocksRun ==
  ASSUME NEW s \in Good, NEW m \in Nat
  PROVE  \E f : DropOneByOne(f, s, m)
<1> DEFINE P == [i \in 1 .. m |-> i]
           M == Len(P)
           turn(t) == IF t.ret = "ok" THEN sfs_bmap_truncate(t) ELSE t
           G == [i \in 0 .. M - 1 |-> [t \in Good |-> turn(t)]]
           Is(f) == f = [i \in 0 .. M |-> IF i = 0 THEN s ELSE turn(f[i - 1])]
           after == CHOOSE f : Is(f)
<1>1. DropBlocks(s, m) = after[M]
  BY Zenon DEF DropBlocks, Each, Then
<1>2. M \in Nat /\ M = m
  OBVIOUS
<1>3. ASSUME NEW t \in Good PROVE turn(t) \in Good
  <2>1. t.ret = "ok" => sfs_bmap_truncate(t) \in Good
    BY Truncate, Zenon
  <2> QED BY <2>1, Zenon
<1> HIDE DEF turn, P, M
<1>4. G \in Rounds(M, Good)
  BY <1>3 DEF Rounds
<1>5. PICK f \in [0 .. M -> Good] : Runs(M, s, G, f)
  <2> HIDE DEF G
  <2> QED BY <1>2, <1>4, LoopExists
<1>6. Is(f)
  <2>1. ASSUME NEW k \in 0 .. M, k # 0 PROVE f[k] = turn(f[k - 1])
    <3>1. k - 1 \in 0 .. M - 1 /\ k - 1 \in 0 .. M /\ (k - 1) + 1 = k
      BY <1>2, <2>1
    <3>2. f[k - 1] \in Good /\ f[k] = G[k - 1][f[k - 1]]
      BY <1>5, <3>1 DEF Runs
    <3> QED BY <3>1, <3>2
  <2> HIDE DEF G
  <2> QED BY <1>5, <2>1 DEF Runs
<1>7. Is(after)
  BY <1>6
<1> HIDE DEF after
<1>8. after[0] = s
  BY <1>2, <1>7
<1>9. \A k \in 0 .. M - 1 : after[k + 1] = turn(after[k])
  <2> SUFFICES ASSUME NEW k \in 0 .. M - 1 PROVE after[k + 1] = turn(after[k])
    OBVIOUS
  <2>1. k + 1 \in 0 .. M /\ k + 1 # 0 /\ (k + 1) - 1 = k
    BY <1>2
  <2> QED BY <1>7, <2>1
<1>10. \A k \in 0 .. M : after[k] \in Good
  <2> DEFINE T == {k \in 0 .. M : after[k] \in Good}
  <2>1. 0 \in T
    BY <1>2, <1>8
  <2>2. \A k \in 0 .. M - 1 : k \in T => k + 1 \in T
    BY <1>2, <1>3, <1>9
  <2> HIDE DEF T
  <2>3. \A k \in 0 .. M : k \in T
    BY <1>2, <2>1, <2>2, LoopInduction
  <2> QED BY <2>3 DEF T
<1>11. DropOneByOne(after, s, m)
  BY <1>1, <1>2, <1>8, <1>9, <1>10 DEF DropOneByOne, turn
<1> QED BY <1>11, Zenon

LEMMA DropBlocksGood ==
  ASSUME NEW s \in Good, NEW m \in Nat
  PROVE  DropBlocks(s, m) \in Good
<1>1. PICK f : DropOneByOne(f, s, m)
  BY DropBlocksRun, Zenon
<1>2. m \in 0 .. m
  OBVIOUS
<1> QED BY <1>1, <1>2 DEF DropOneByOne

(***************************************************************************)
(* sfs_truncfile.                                                          *)
(***************************************************************************)
LEMMA TruncFileGood ==
  ASSUME NEW s \in Good, NEW len \in Nat
  PROVE  sfs_truncfile(s, len) \in Good
<1> DEFINE tblks == (len + BLKSIZE - 1) \div BLKSIZE
           nblks == s.din.blocks
           t == IF nblks < tblks THEN AddBlocks(s, nblks, tblks - nblks)
                ELSE DropBlocks(s, nblks - tblks)
           done == IF t.din.blocks # tblks THEN Fail(t, "din->blocks == tblks")
                   ELSE [t EXCEPT !.din.size = len, !.dirty = TRUE]
<1>1. s \in Fs /\ nblks \in Nat
  BY DEF Good, Fs, Inode
<1>2. tblks \in Nat
  <2>1. len + BLKSIZE - 1 \in Nat /\ BLKSIZE \in Nat \ {0}
    BY Constants
  <2> QED BY <2>1, DivMod, Zenon
<1>3. CASE s.din.size = len
  <2>1. "tblks == din->blocks" \in Asserted
    BY DEF Asserted
  <2>2. Fail(s, "tblks == din->blocks") \in Good
    BY <1>1, <2>1, AssertFails, Zenon
  <2>3. sfs_truncfile(s, len) = IF tblks # nblks THEN Fail(s, "tblks == din->blocks") ELSE s
    BY <1>3, Zenon DEF sfs_truncfile
  <2> QED BY <2>2, <2>3, Zenon
<1>4. CASE s.din.size # len
  <2>1. sfs_truncfile(s, len) = IF t.ret = "ok" THEN done ELSE t
    BY <1>4, Zenon DEF sfs_truncfile, Then, AddBlocks, DropBlocks
  <2> HIDE DEF tblks, nblks
  <2>2. t \in Good
    <3>1. CASE nblks < tblks
      <4>1. tblks - nblks \in Nat
        BY <1>1, <1>2, <3>1
      <4> QED BY <1>1, <3>1, <4>1, AddBlocksGood, Zenon
    <3>2. CASE ~(nblks < tblks)
      <4>1. nblks - tblks \in Nat
        BY <1>1, <1>2, <3>2
      <4> QED BY <3>2, <4>1, DropBlocksGood, Zenon
    <3> QED BY <3>1, <3>2
  <2> HIDE DEF t
  <2>3. t \in Fs
    BY <2>2 DEF Good
  <2>4. Fail(t, "din->blocks == tblks") \in Good
    <3>1. "din->blocks == tblks" \in Asserted
      BY DEF Asserted
    <3> QED BY <2>3, <3>1, AssertFails, Zenon
  <2>5. CASE t.ret = "ok" /\ t.din.blocks = tblks
    <3> DEFINE din == [t.din EXCEPT !.size = len]
               r == [t EXCEPT !.din = din, !.dirty = TRUE]
    <3>1. sfs_truncfile(s, len) = r
      BY <2>1, <2>5
    <3>2. din \in Inode /\ din.direct = t.din.direct /\ din.indirect = t.din.indirect
      BY <2>3 DEF Inode, Fs
    <3> HIDE DEF din
    <3>3. r \in Fs /\ r.din = din /\ r.free = t.free /\ r.data = t.data /\ r.dirty = TRUE
      BY <2>3, <3>2 DEF Fs
    <3> HIDE DEF r
    <3>4. Map(r) = Map(t)
      BY <3>2, <3>3, MapSame
    <3>5. Owned(t)
      BY <2>2, <2>5 DEF Good, Error
    <3>6. Owned(r)
      BY <3>3, <3>4, <3>5 DEF Owned, Kept
    <3> QED BY <3>1, <3>3, <3>6 DEF Good
  <2>6. CASE ~(t.ret = "ok" /\ t.din.blocks = tblks)
    <3>1. sfs_truncfile(s, len) = t \/ sfs_truncfile(s, len) = Fail(t, "din->blocks == tblks")
      BY <2>1, <2>6, Zenon
    <3> QED BY <2>2, <2>4, <3>1, Zenon
  <2> QED BY <2>5, <2>6
<1> QED BY <1>3, <1>4

----------------------------------------------------------------------------
(* What truncating does to a file.                                         *)

\* r is s with m more blocks, or what was there when no block was left.
Adds(r, s, m) ==
    /\ Whole(r) /\ Keeps(r, s) /\ Bytes(r, s) /\ r.alen = s.alen /\ r.buf = s.buf
    /\ r.ret = "ok" => r.din.blocks = s.din.blocks + m

\* r is s without its last m blocks.
Cut(r, s, m) ==
    /\ Whole(r) /\ r.ret = "ok" /\ r.din.size = s.din.size /\ r.din.blocks = s.din.blocks - m
    /\ r.alen = s.alen /\ r.buf = s.buf /\ (s.dirty \/ m > 0 => r.dirty)
    /\ \A j \in Index : Fits(Map(s), s.free, j) => Fits(Map(r), r.free, j)
    /\ \A j \in Index, c \in Cell :
          At(r, j, c) = IF r.din.blocks <= j /\ j < s.din.blocks THEN 0 ELSE At(s, j, c)

(***************************************************************************)
(* Adding blocks.                                                          *)
(***************************************************************************)
LEMMA AddEffect ==
  ASSUME NEW s, Whole(s), s.ret = "ok", NEW m \in Nat, s.din.blocks + m <= NDIRECT + NENTRY
  PROVE  Adds(AddBlocks(s, s.din.blocks, m), s, m)
<1> DEFINE n == s.din.blocks
<1>1. s \in Good /\ n \in Nat /\ NDIRECT + NENTRY \in Nat
  BY WholeFacts, Constants
<1>2. PICK f : AddOneByOne(f, s, n, m)
  BY <1>1, AddBlocksRun, Zenon
<1>3. /\ f[0] = s /\ f[m] = AddBlocks(s, n, m)
      /\ \A k \in 0 .. m - 1 :
            f[k + 1] = IF f[k].ret = "ok" THEN sfs_bmap_load(f[k], n + k) ELSE f[k]
  BY <1>2, Zenon DEF AddOneByOne
<1> DEFINE T == {k \in 0 .. m : Adds(f[k], s, k)}
<1>4. 0 \in T
  <2>1. Keeps(s, s) /\ Bytes(s, s)
    BY <1>1 DEF Keeps, Bytes
  <2>2. s.din.blocks = s.din.blocks + 0
    BY <1>1
  <2>3. Adds(s, s, 0)
    BY <2>1, <2>2, Zenon DEF Adds
  <2> QED BY <1>3, <2>3
<1>5. ASSUME NEW k \in 0 .. m - 1, k \in T PROVE k + 1 \in T
  <2>1. k + 1 \in 0 .. m /\ k \in Nat
    OBVIOUS
  <2>2. Adds(f[k], s, k)
    BY <1>5
  <2> DEFINE t == f[k]
             r == f[k + 1]
  <2> HIDE DEF T
  <2>3. Whole(t) /\ t.din.blocks \in Nat
    <3>1. Whole(t)
      BY <2>2 DEF Adds
    <3> QED BY <3>1, WholeFacts
  <2>4. CASE t.ret = "ok"
    <3>1. t.din.blocks = n + k
      BY <2>2, <2>4 DEF Adds
    <3>2. r = sfs_bmap_load(t, n + k)
      BY <1>3, <2>4
    <3>3. n + k \in Index
      BY <1>1, Constants DEF Index
    <3> HIDE DEF t, r
    <3> DEFINE i == n + k
    <3>4. Loads(sfs_bmap_load(t, i), t, i)
      <4> HIDE DEF i
      <4> QED BY <2>3, <2>4, <3>3, LoadEffect DEF i
    <3>5. ~(i > t.din.blocks)
      BY <1>1, <3>1
    <3>6. /\ Whole(r) /\ Keeps(r, t) /\ Bytes(r, t) /\ r.alen = t.alen /\ r.buf = t.buf
          /\ r.ret = "ok" => r.din.blocks = t.din.blocks + 1
      <4>1. r.ret = "E_NO_MEM" => r.ret # "ok"
        OBVIOUS
      <4>2. i = t.din.blocks /\ Loads(r, t, i)
        BY <3>1, <3>2, <3>4
      <4> HIDE DEF i
      <4> QED BY <3>5, <4>1, <4>2, Zenon DEF Loads
    <3>7. r.din.blocks \in Nat
      BY <3>6, WholeFacts
    <3>8. Keeps(t, s) /\ Bytes(t, s) /\ t.alen = s.alen /\ t.buf = s.buf
      BY <2>2, Zenon DEF Adds, t
    <3>9. Keeps(r, s)
      BY <1>1, <2>3, <3>6, <3>7, <3>8, KeepsTwice
    <3>12. Bytes(r, s) /\ r.alen = s.alen /\ r.buf = s.buf
      BY <3>6, <3>8 DEF Bytes
    <3>10. r.ret = "ok" => r.din.blocks = s.din.blocks + (k + 1)
      BY <1>1, <3>1, <3>6
    <3>11. Adds(r, s, k + 1)
      BY <3>6, <3>9, <3>10, <3>12, Zenon DEF Adds
    <3> QED BY <2>1, <3>11 DEF T, r
  <2>5. CASE t.ret # "ok"
    <3>1. r = t
      BY <1>3, <2>5
    <3>2. Adds(r, s, k + 1)
      BY <2>2, <2>5, <3>1, Zenon DEF Adds
    <3> QED BY <2>1, <3>2 DEF T
  <2> QED BY <2>4, <2>5
<1> HIDE DEF T
<1>6. \A k \in 0 .. m : k \in T
  BY <1>4, <1>5, LoopInduction
<1>7. m \in T
  BY <1>6
<1> QED BY <1>3, <1>7 DEF T

(***************************************************************************)
(* Taking the last block.                                                  *)
(***************************************************************************)
LEMMA CutOne ==
  ASSUME NEW s, Whole(s), s.ret = "ok", s.din.blocks > 0
  PROVE  Cut(sfs_bmap_truncate(s), s, 1)
<1> DEFINE k == s.din.blocks - 1
           t == sfs_bmap_free(s, k)
<1>1. SUFFICES ASSUME NEW r, r = sfs_bmap_truncate(s) PROVE Cut(r, s, 1)
  OBVIOUS
<1>2. /\ s \in Good /\ s \in Fs /\ s.din.blocks \in Nat /\ s.ret \in Error
      /\ s.din.blocks <= NDIRECT + NENTRY /\ Filled(s)
  BY WholeFacts DEF Whole
<1>3. k \in Nat /\ k \in Index /\ k \in Place /\ k \in 0 .. s.din.blocks - 1
      /\ s.din.blocks # 0
  BY <1>2, Constants DEF Index, Place
<1>4. r = IF t.ret = "ok" THEN [t EXCEPT !.din.blocks = @ - 1, !.dirty = TRUE] ELSE t
  BY <1>1, <1>3, Zenon DEF sfs_bmap_truncate, Then
<1> DEFINE b == Map(s)[k]
<1>5. b # 0
  BY <1>2, <1>3 DEF Filled
<1>6. Frees(t, s, k)
  <2> HIDE DEF k
  <2> QED BY <1>2, <1>3, FreeBlock
<1> HIDE DEF t
<1>7. /\ t \in Good /\ t.din.blocks = s.din.blocks /\ t.ret = "ok" /\ Drops(t, s, k)
  <2> HIDE DEF k
  <2> QED BY <1>3, <1>5, <1>6, Zenon DEF Frees
<1> DEFINE din == [t.din EXCEPT !.blocks = @ - 1]
<1>8. t \in Fs /\ t.din \in Inode /\ Owned(t)
  BY <1>7 DEF Good, Fs, Error
<1>9. /\ din \in Inode /\ din.direct = t.din.direct /\ din.indirect = t.din.indirect
      /\ din.size = t.din.size /\ din.blocks = k
  BY <1>3, <1>7, <1>8 DEF Inode
<1>10. r = [t EXCEPT !.din = din, !.dirty = TRUE]
  BY <1>4, <1>7
<1> HIDE DEF din
<1>11. /\ r \in Fs /\ r.din = din /\ r.free = t.free /\ r.data = t.data /\ r.dirty = TRUE
       /\ r.ret = "ok" /\ r.alen = t.alen /\ r.buf = t.buf
  BY <1>7, <1>8, <1>9, <1>10 DEF Fs
<1>12. Map(r) = Map(t)
  BY <1>9, <1>11, MapSame
<1>13. r \in Good
  <2>1. Owned(r)
    BY <1>8, <1>11, <1>12 DEF Owned, Kept
  <2> QED BY <1>11, <2>1 DEF Good
<1>14. /\ t.din.size = s.din.size /\ t.alen = s.alen /\ t.buf = s.buf
       /\ Map(t) = [Map(s) EXCEPT ![k] = 0] /\ t.free = s.free \cup {b}
       /\ \A j \in Index \ {k}, c \in Cell : At(t, j, c) = At(s, j, c)
  BY <1>7, Zenon DEF Drops
<1>15. /\ Map(s) \in [Place -> Block \cup {0}] /\ b \in Block \ s.free /\ s.free \in SUBSET Block
  <2> HIDE DEF k
  <2> QED BY <1>2, <1>3, <1>5, OwnedFacts, Zenon
<1> DEFINE g == [Map(s) EXCEPT ![k] = 0]
<1>16. g[k] = 0 /\ \A j \in Place \ {k} : g[j] = Map(s)[j]
  <2> HIDE DEF k
  <2> QED BY <1>3, <1>15
<1>17. Map(r) = g /\ Map(t) = g
  BY <1>12, <1>14
<1> HIDE DEF g
<1>18. Filled(r)
  <2>1. ASSUME NEW j \in 0 .. k - 1 PROVE Map(r)[j] # 0
    <3>1. j \in Place \ {k} /\ j \in 0 .. s.din.blocks - 1
      BY <1>2, <1>3, Constants DEF Place
    <3>2. Map(s)[j] # 0
      BY <1>2, <3>1 DEF Filled
    <3> QED BY <1>16, <1>17, <3>1, <3>2
  <2>2. k <= NDIRECT + NENTRY
    BY <1>2, <1>3, Constants
  <2> QED BY <1>9, <1>11, <2>1, <2>2 DEF Filled
<1>19. Whole(r)
  <2>1. r.ret \in Error
    BY <1>11 DEF Error
  <2> QED BY <1>13, <1>18, <2>1 DEF Whole
<1>20. ASSUME NEW j \in Index, Fits(Map(s), s.free, j) PROVE Fits(Map(r), r.free, j)
  <2>1. Fits([Map(s) EXCEPT ![k] = 0], s.free \cup {b}, j)
    <3> HIDE DEF k, b
    <3> QED BY <1>3, <1>15, <1>20, FitsDel
  <2>2. r.free = s.free \cup {b}
    BY <1>11, <1>14
  <2> QED BY <1>17, <2>1, <2>2 DEF g
<1>21. ASSUME NEW j \in Index, NEW c \in Cell
       PROVE  At(r, j, c) = IF r.din.blocks <= j /\ j < s.din.blocks THEN 0 ELSE At(s, j, c)
  <2>1. At(r, j, c) = At(t, j, c)
    BY <1>11, <1>12, Zenon DEF At
  <2>2. CASE j = k
    <3>1. At(r, j, c) = 0
      BY <1>16, <1>17, <2>2 DEF At
    <3>2. r.din.blocks <= j /\ j < s.din.blocks
      BY <1>2, <1>9, <1>11, <2>2
    <3> QED BY <3>1, <3>2
  <2>3. CASE j # k
    <3>1. ~(r.din.blocks <= j /\ j < s.din.blocks)
      BY <1>2, <1>9, <1>11, <2>3 DEF Index
    <3>2. At(t, j, c) = At(s, j, c)
      <4> HIDE DEF k
      <4> QED BY <1>14, <2>3
    <3> QED BY <2>1, <3>1, <3>2
  <2> QED BY <2>2, <2>3
<1>22. /\ r.ret = "ok" /\ r.din.size = s.din.size /\ r.din.blocks = s.din.blocks - 1
       /\ r.alen = s.alen /\ r.buf = s.buf /\ (s.dirty \/ 1 > 0 => r.dirty)
  BY <1>9, <1>11, <1>14
<1> QED BY <1>19, <1>20, <1>21, <1>22, Zenon DEF Cut

(***************************************************************************)
(* Taking blocks.                                                          *)
(***************************************************************************)
LEMMA CutTwice ==
  ASSUME NEW s, NEW t, NEW r, s.din.blocks \in Nat, NEW k \in Nat, k < s.din.blocks,
         Cut(t, s, k), Cut(r, t, 1)
  PROVE  Cut(r, s, k + 1)
<1>1. /\ t.din.blocks = s.din.blocks - k /\ r.din.blocks = t.din.blocks - 1
      /\ t.din.blocks \in Nat
  BY DEF Cut
<1>2. r.din.blocks = s.din.blocks - (k + 1)
  BY <1>1
<1>3. ASSUME NEW j \in Index, NEW c \in Cell
      PROVE  At(r, j, c) = IF r.din.blocks <= j /\ j < s.din.blocks THEN 0 ELSE At(s, j, c)
  <2>1. /\ At(r, j, c) = IF r.din.blocks <= j /\ j < t.din.blocks THEN 0 ELSE At(t, j, c)
        /\ At(t, j, c) = IF t.din.blocks <= j /\ j < s.din.blocks THEN 0 ELSE At(s, j, c)
    BY Zenon DEF Cut
  <2>2. j \in Int
    BY DEF Index
  <2> DEFINE x == At(r, j, c)
             y == At(t, j, c)
             z == At(s, j, c)
  <2> HIDE DEF x, y, z
  <2>3. x = IF r.din.blocks <= j /\ j < s.din.blocks THEN 0 ELSE z
    BY <1>1, <2>1, <2>2 DEF x, y, z
  <2> QED BY <2>3 DEF x, z
<1>4. \A j \in Index : Fits(Map(s), s.free, j) => Fits(Map(r), r.free, j)
  BY Zenon DEF Cut
<1>5. /\ Whole(r) /\ r.ret = "ok" /\ r.din.size = s.din.size
      /\ r.alen = s.alen /\ r.buf = s.buf /\ r.dirty
  BY DEF Cut
<1> QED BY <1>2, <1>3, <1>4, <1>5, Zenon DEF Cut

LEMMA CutEffect ==
  ASSUME NEW s, Whole(s), s.ret = "ok", NEW m \in 0 .. s.din.blocks
  PROVE  Cut(DropBlocks(s, m), s, m)
<1>1. s \in Good /\ s.din.blocks \in Nat /\ m \in Nat
  BY WholeFacts
<1>2. PICK f : DropOneByOne(f, s, m)
  BY <1>1, DropBlocksRun, Zenon
<1>3. /\ f[0] = s /\ f[m] = DropBlocks(s, m)
      /\ \A k \in 0 .. m - 1 :
            f[k + 1] = IF f[k].ret = "ok" THEN sfs_bmap_truncate(f[k]) ELSE f[k]
  BY <1>2, Zenon DEF DropOneByOne
<1> DEFINE T == {k \in 0 .. m : Cut(f[k], s, k)}
<1>4. 0 \in T
  <2>1. s.din.blocks = s.din.blocks - 0 /\ ~(0 > 0)
    BY <1>1
  <2>2. ASSUME NEW j \in Index PROVE ~(s.din.blocks <= j /\ j < s.din.blocks)
    BY <1>1 DEF Index
  <2>3. Cut(s, s, 0)
    BY <2>1, <2>2, Zenon DEF Cut
  <2> QED BY <1>1, <1>3, <2>3
<1>5. ASSUME NEW k \in 0 .. m - 1, k \in T PROVE k + 1 \in T
  <2>1. k + 1 \in 0 .. m /\ k \in Nat /\ k < s.din.blocks
    BY <1>1
  <2>2. Cut(f[k], s, k)
    BY <1>5
  <2>3. /\ Whole(f[k]) /\ f[k].ret = "ok" /\ f[k].din.blocks = s.din.blocks - k
    BY <2>2, Zenon DEF Cut
  <2>4. f[k + 1] = sfs_bmap_truncate(f[k])
    BY <1>3, <2>3
  <2>5. f[k].din.blocks > 0
    BY <1>1, <2>1, <2>3
  <2>6. Cut(f[k + 1], f[k], 1)
    BY <2>3, <2>4, <2>5, CutOne
  <2>7. Cut(f[k + 1], s, k + 1)
    BY <1>1, <2>1, <2>2, <2>6, CutTwice
  <2> QED BY <2>1, <2>7
<1> HIDE DEF T
<1>6. \A k \in 0 .. m : k \in T
  BY <1>1, <1>4, <1>5, LoopInduction
<1>7. m \in T
  BY <1>1, <1>6
<1> QED BY <1>3, <1>7 DEF T

(***************************************************************************)
(* The number of blocks that a file of len bytes needs.                    *)
(***************************************************************************)
LEMMA Ceiling ==
  ASSUME NEW len \in Nat
  PROVE  LET t == (len + BLKSIZE - 1) \div BLKSIZE
         IN  /\ t \in Nat /\ len <= BLKSIZE * t
             /\ \A m \in Nat : len <= BLKSIZE * m => t <= m
<1> DEFINE a == len + BLKSIZE - 1
           t == a \div BLKSIZE
           c == a % BLKSIZE
           u == BLKSIZE * t
<1>1. BLKSIZE \in Nat \ {0} /\ a \in Nat
  BY Constants
<1>2. t \in Nat /\ c \in 0 .. BLKSIZE - 1 /\ a = u + c
  <2> HIDE DEF a
  <2> QED BY <1>1, DivMod
<1>3. a = len + (BLKSIZE - 1)
  BY <1>1
<1> HIDE DEF a, c, t
<1>4. u \in Nat
  BY <1>1, <1>2, More
<1> HIDE DEF u
<1>5. len <= u
  BY <1>1, <1>2, <1>3, <1>4
<1>6. ASSUME NEW m \in Nat, len <= BLKSIZE * m PROVE t <= m
  <2> SUFFICES ASSUME m < t PROVE FALSE
    BY <1>2
  <2> DEFINE v == BLKSIZE * m
  <2>1. v \in Nat /\ v + BLKSIZE <= u
    BY <1>1, <1>2, Multiples, More DEF u
  <2>2. len <= v
    BY <1>6
  <2> HIDE DEF v
  <2> QED BY <1>1, <1>2, <1>3, <1>4, <2>1, <2>2
<1> QED BY <1>2, <1>5, <1>6 DEF t, u, a

LEMMA Below ==
  ASSUME NEW B \in Nat \ {0}, NEW j \in Nat, NEW c \in 0 .. B - 1, NEW m \in Nat
  PROVE  B * j + c < B * m <=> j < m
<1> DEFINE u == B * j
           v == B * m
<1>1. j < m => u + B <= v
  BY Multiples
<1>2. ~(j < m) => v <= u
  BY More
<1>3. u \in Nat /\ v \in Nat
  OBVIOUS
<1> HIDE DEF u, v
<1>4. u + c < v <=> j < m
  BY <1>1, <1>2, <1>3
<1> QED BY <1>4 DEF u, v

\* r has len bytes, and of these the ones that s has.
Sizes(r, s, len) ==
    /\ r.ret = "ok" /\ Valid(r) /\ Continues(r, s) /\ r.din.size = len
    /\ \A j \in Index, c \in 0 .. BLKSIZE - 1 :
          BLKSIZE * j + c < len => At(r, j, c) = At(s, j, c)

\* What sfs_truncfile does.
Truncates(r, s, len) ==
    \/ s.din.size = len /\ r = s
    \/ /\ s.din.size = len /\ r.ret = "tblks == din->blocks"
       /\ s.din.blocks * BLKSIZE >= s.din.size + BLKSIZE
    \/ /\ s.din.size # len /\ r.ret = "E_NO_MEM"
       /\ Valid(r) /\ Continues(r, s) /\ Bytes(r, s) /\ r.din.size = s.din.size
    \/ s.din.size # len /\ Sizes(r, s, len)

(***************************************************************************)
(* A file of another size has the bytes that it had.                       *)
(***************************************************************************)
LEMMA NewSize ==
  ASSUME NEW s, Valid(s), NEW len \in Nat, len = 0 \/ len > s.din.size, NEW t, Whole(t),
         t.ret = "ok", len <= BLKSIZE * t.din.blocks,
         \A j \in Index : Fits(Map(s), s.free, j) => Fits(Map(t), t.free, j),
         \A j \in Index, c \in Cell :
            At(t, j, c) = IF t.din.blocks <= j /\ j < s.din.blocks THEN 0 ELSE At(s, j, c),
         len = 0 => t.din.blocks = 0,
         NEW r, Resizes(r, t, len)
  PROVE  Sizes(r, s, len)
<1>0. /\ BLKSIZE \in Nat \ {0} /\ s.din.blocks \in Nat /\ t.din.blocks \in Nat
      /\ s.din.size \in Nat /\ \A c \in 0 .. BLKSIZE - 1 : c \in Cell
  BY WholeFacts, Constants DEF Valid
<1>1. Resized(r, t, len)
  BY Resize
<1>2. /\ Whole(r) /\ r.din.size = len /\ r.din.blocks = t.din.blocks /\ r.dirty
      /\ r.ret = t.ret /\ Map(r) = Map(t) /\ r.free = t.free /\ Bytes(r, t)
  BY <1>1, Zenon DEF Resized
<1>3. ASSUME NEW j \in Index, NEW c \in 0 .. BLKSIZE - 1
      PROVE  /\ BLKSIZE * j + c < len => At(r, j, c) = At(s, j, c)
             /\ BLKSIZE * j + c >= len => At(r, j, c) = 0
  <2> DEFINE p == BLKSIZE * j + c
             u == BLKSIZE * t.din.blocks
             v == BLKSIZE * s.din.blocks
  <2>1. j \in Nat /\ c \in Cell
    BY <1>0 DEF Index
  <2>2. p \in Nat /\ u \in Nat /\ v \in Nat
    BY <1>0, <2>1
  <2>3. (p < u <=> j < t.din.blocks) /\ (p < v <=> j < s.din.blocks)
    BY <1>0, <2>1, Below
  <2>4. p >= s.din.size => At(s, j, c) = 0
    BY DEF Valid, Zeroed
  <2>5. At(r, j, c) = IF t.din.blocks <= j /\ j < s.din.blocks THEN 0 ELSE At(s, j, c)
    BY <1>2, <2>1 DEF Bytes
  <2>6. len <= u /\ s.din.size <= v
    BY DEF Valid, Sized
  <2> DEFINE x == At(r, j, c)
             y == At(s, j, c)
  <2> HIDE DEF p, u, v, x, y
  <2>7. p < len => x = y
    <3>1. p < len => j < t.din.blocks
      BY <2>2, <2>3, <2>6
    <3>2. j < t.din.blocks => ~(t.din.blocks <= j)
      BY <1>0, <2>1
    <3> QED BY <2>5, <3>1, <3>2 DEF x, y
  <2>8. p >= len => x = 0
    <3>1. p >= s.din.size => x = 0
      BY <2>4, <2>5 DEF x, y
    <3>2. p >= len /\ len > s.din.size => p >= s.din.size
      BY <1>0, <2>2
    <3>3. CASE len = 0
      <4>1. t.din.blocks <= j
        BY <2>1, <3>3
      <4>2. ~(j < s.din.blocks) => p >= s.din.size
        BY <1>0, <2>2, <2>3, <2>6
      <4> QED BY <2>5, <3>1, <4>1, <4>2 DEF x
    <3> QED BY <3>1, <3>2, <3>3
  <2> QED BY <2>7, <2>8 DEF p, x, y
<1>4. Sized(r) /\ Zeroed(r)
  BY <1>2, <1>3 DEF Sized, Zeroed
<1>5. Valid(r)
  BY <1>2, <1>4 DEF Valid
<1>6. Continues(r, s)
  BY <1>2, Zenon DEF Continues
<1> QED BY <1>2, <1>3, <1>5, <1>6, Zenon DEF Sizes

(***************************************************************************)
(* sfs_truncfile, when it is called: for no byte or for more bytes.        *)
(***************************************************************************)
LEMMA TruncateEffect ==
  ASSUME NEW s, Valid(s), s.ret = "ok", NEW len \in 0 .. MaxPos, len = 0 \/ len > s.din.size
  PROVE  Truncates(sfs_truncfile(s, len), s, len)
<1> DEFINE tblks == (len + BLKSIZE - 1) \div BLKSIZE
           nblks == s.din.blocks
           N == NDIRECT + NENTRY
           t == IF nblks < tblks THEN AddBlocks(s, nblks, tblks - nblks)
                ELSE DropBlocks(s, nblks - tblks)
           done == IF t.din.blocks # tblks THEN Fail(t, "din->blocks == tblks")
                   ELSE [t EXCEPT !.din.size = len, !.dirty = TRUE]
<1>0. /\ BLKSIZE \in Nat \ {0} /\ nblks \in Nat /\ N \in Nat /\ nblks <= N
      /\ s.din.size \in Nat /\ Whole(s) /\ len \in Nat /\ MaxPos = BLKSIZE * N
  BY WholeFacts, Constants DEF Valid, MaxPos
<1>1. SUFFICES ASSUME NEW r, r = sfs_truncfile(s, len) PROVE Truncates(r, s, len)
  OBVIOUS
<1>2. tblks \in Nat /\ len <= BLKSIZE * tblks /\ \A m \in Nat : len <= BLKSIZE * m => tblks <= m
  BY <1>0, Ceiling, Zenon
<1>3. tblks <= N
  <2> HIDE DEF N, tblks
  <2>1. len <= BLKSIZE * N
    BY <1>0
  <2> QED BY <1>0, <1>2, <2>1
<1>4. len = 0 => tblks = 0
  <2> HIDE DEF tblks
  <2>1. len = 0 => len <= BLKSIZE * 0
    BY <1>0
  <2>2. len = 0 => tblks <= 0
    BY <1>2, <2>1
  <2> QED BY <1>2, <2>2
<1>5. CASE s.din.size = len
  <2>1. r = IF tblks # nblks THEN Fail(s, "tblks == din->blocks") ELSE s
    BY <1>1, <1>5, Zenon DEF sfs_truncfile
  <2> HIDE DEF tblks
  <2>2. CASE tblks = nblks
    BY <1>5, <2>1, <2>2 DEF Truncates
  <2>3. CASE tblks # nblks
    <3>1. r.ret = "tblks == din->blocks"
      <4>1. s \in Fs /\ "tblks == din->blocks" \in Asserted
        BY <1>0, WholeFacts DEF Asserted
      <4> QED BY <2>1, <2>3, <4>1, FailFields, Zenon
    <3>2. tblks < nblks
      <4>1. s.din.size <= BLKSIZE * nblks
        BY DEF Valid, Sized
      <4>2. tblks <= nblks
        <5> HIDE DEF nblks
        <5> QED BY <1>0, <1>2, <1>5, <4>1
      <4> QED BY <1>0, <1>2, <2>3, <4>2
    <3>3. s.din.blocks * BLKSIZE >= s.din.size + BLKSIZE
      <4> DEFINE u == BLKSIZE * tblks
                 v == BLKSIZE * nblks
      <4>1. u + BLKSIZE <= v /\ u \in Nat /\ v \in Nat
        BY <1>0, <1>2, <3>2, Multiples
      <4>2. s.din.size <= u /\ s.din.blocks * BLKSIZE = v
        BY <1>0, <1>2, <1>5
      <4> HIDE DEF u, v
      <4> QED BY <1>0, <4>1, <4>2
    <3> QED BY <1>5, <3>1, <3>3 DEF Truncates
  <2> QED BY <2>2, <2>3
<1>6. CASE s.din.size # len
  <2>1. r = IF t.ret = "ok" THEN done ELSE t
    BY <1>1, <1>6, Zenon DEF sfs_truncfile, Then, AddBlocks, DropBlocks
  <2> HIDE DEF tblks
  <2>2. CASE nblks < tblks
    <3>1. t = AddBlocks(s, nblks, tblks - nblks)
      BY <2>2
    <3>2. Adds(t, s, tblks - nblks)
      <4> DEFINE m == tblks - nblks
      <4>1. m \in Nat /\ nblks + m <= NDIRECT + NENTRY
        BY <1>0, <1>2, <1>3, <2>2
      <4> HIDE DEF m
      <4>2. Adds(AddBlocks(s, s.din.blocks, m), s, m)
        BY <1>0, <4>1, AddEffect
      <4> QED BY <3>1, <4>2 DEF m
    <3> HIDE DEF t
    <3>3. /\ Whole(t) /\ Keeps(t, s) /\ Bytes(t, s)
          /\ t.ret = "ok" => t.din.blocks = s.din.blocks + (tblks - nblks)
      BY <3>2, Zenon DEF Adds
    <3>4. Valid(t) /\ Continues(t, s) /\ t.din.size = s.din.size
      BY <3>3, ValidKept DEF Keeps
    <3>5. CASE t.ret # "ok"
      <4>1. r = t /\ t.ret = "E_NO_MEM"
        <5>1. t.ret \in Error
          BY <3>3 DEF Whole
        <5> QED BY <2>1, <3>5, <5>1 DEF Error
      <4> QED BY <1>6, <3>3, <3>4, <4>1, Zenon DEF Truncates
    <3>6. CASE t.ret = "ok"
      <4>1. t.din.blocks = tblks
        BY <1>0, <1>2, <3>3, <3>6
      <4>2. Resizes(r, t, len)
        BY <2>1, <3>6, <4>1 DEF Resizes
      <4>3. len <= BLKSIZE * t.din.blocks /\ (len = 0 => t.din.blocks = 0)
        BY <1>2, <1>4, <4>1
      <4>4. \A j \in Index : Fits(Map(s), s.free, j) => Fits(Map(t), t.free, j)
        BY <3>4, Zenon DEF Continues
      <4>5. ASSUME NEW j \in Index, NEW c \in Cell
            PROVE  At(t, j, c) = IF t.din.blocks <= j /\ j < s.din.blocks THEN 0 ELSE At(s, j, c)
        <5>1. ~(t.din.blocks <= j /\ j < s.din.blocks)
          BY <1>0, <1>2, <2>2, <4>1, Constants DEF Index
        <5> QED BY <3>3, <5>1, Zenon DEF Bytes
      <4>6. Sizes(r, s, len)
        BY <1>0, <3>3, <3>6, <4>2, <4>3, <4>4, <4>5, NewSize
      <4> QED BY <1>6, <4>6, Zenon DEF Truncates
    <3> QED BY <3>5, <3>6
  <2>3. CASE ~(nblks < tblks)
    <3>1. t = DropBlocks(s, nblks - tblks)
      BY <2>3
    <3>2. Cut(t, s, nblks - tblks)
      <4> DEFINE m == nblks - tblks
      <4>1. m \in 0 .. s.din.blocks
        BY <1>0, <1>2, <2>3
      <4> HIDE DEF m
      <4>2. Cut(DropBlocks(s, m), s, m)
        BY <1>0, <4>1, CutEffect
      <4> QED BY <3>1, <4>2 DEF m
    <3> HIDE DEF t
    <3>3. /\ Whole(t) /\ t.ret = "ok" /\ t.din.blocks = s.din.blocks - (nblks - tblks)
          /\ \A j \in Index : Fits(Map(s), s.free, j) => Fits(Map(t), t.free, j)
          /\ \A j \in Index, c \in Cell :
                At(t, j, c) = IF t.din.blocks <= j /\ j < s.din.blocks THEN 0 ELSE At(s, j, c)
      BY <3>2, Zenon DEF Cut
    <3>4. t.din.blocks = tblks
      BY <1>0, <1>2, <3>3
    <3>5. Resizes(r, t, len)
      BY <2>1, <3>3, <3>4 DEF Resizes
    <3>6. len <= BLKSIZE * t.din.blocks /\ (len = 0 => t.din.blocks = 0)
      BY <1>2, <1>4, <3>4
    <3>7. Sizes(r, s, len)
      BY <1>0, <3>3, <3>5, <3>6, NewSize
    <3> QED BY <1>6, <3>7, Zenon DEF Truncates
  <2> QED BY <2>2, <2>3
<1> QED BY <1>5, <1>6

----------------------------------------------------------------------------
(* The calls.                                                              *)

\* The inductive invariant.
SfsInv ==
    /\ fs \in Good /\ fs.ret = "ok"
    /\ disk_din \in Inode
    /\ pos \in [Handle -> Nat \cup {CLOSED}]
    /\ others \subseteq Block

LEMMA GoodKept ==
  ASSUME UNCHANGED <<disk_din, others>>, NEW s \in Good
  PROVE  s \in Good'
<1>1. Map(s)' = Map(s)
  OBVIOUS
<1> QED BY <1>1 DEF Good, Owned, Kept, Exact

(***************************************************************************)
(* What a call leaves when no assertion fails.                             *)
(***************************************************************************)
LEMMA ReturnGood ==
  ASSUME SfsInv, NEW t \in Good, Return(t), UNCHANGED <<disk_din, others>>
  PROVE  fs' \in Good' /\ fs'.ret = "ok"
<1>1. CASE t.ret \in Error
  <2> DEFINE r == [free |-> t.free, data |-> t.data, din |-> t.din, dirty |-> t.dirty,
                   ret |-> "ok", ino |-> 0, buf |-> <<>>, alen |-> 0]
  <2>1. fs' = r
    BY <1>1 DEF Return
  <2>2. t \in Fs /\ Owned(t)
    BY <1>1 DEF Good
  <2>3. r \in Fs /\ Same(r, t) /\ r.ret = "ok"
    <3>1. "ok" \in Error \cup Asserted /\ <<>> \in Seq(Byte) /\ 0 \in Nat
      BY DEF Error
    <3> QED BY <2>2, <3>1 DEF Fs, Same
  <2> HIDE DEF r
  <2>4. r \in Good
    BY <2>2, <2>3, SameOwned DEF Good
  <2> QED BY <2>1, <2>3, <2>4, GoodKept
<1>2. CASE t.ret \notin Error
  <2>1. fs' = fs /\ fs \in Good /\ fs.ret = "ok"
    BY <1>2 DEF Return, SfsInv
  <2>2. fs \in Good'
    BY <2>1, GoodKept
  <2> QED BY <2>1, <2>2
<1> QED BY <1>1, <1>2

LEMMA SetPosTyped ==
  ASSUME pos \in [Handle -> Nat \cup {CLOSED}], NEW h \in Handle, NEW t, NEW p \in Nat,
         SetPos(h, t, p)
  PROVE  pos' \in [Handle -> Nat \cup {CLOSED}]
BY DEF SetPos

LEMMA OpenStep ==
  ASSUME SfsInv, NEW h \in Handle, NEW trunc \in BOOLEAN, NEW append \in BOOLEAN,
         Open(h, trunc, append), UNCHANGED others
  PROVE  SfsInv'
<1> DEFINE t == IF trunc THEN sfs_truncfile(fs, 0) ELSE fs
           p == IF append THEN t.din.size ELSE 0
<1>1. fs \in Good /\ disk_din \in Inode /\ pos \in [Handle -> Nat \cup {CLOSED}]
      /\ others \subseteq Block
  BY DEF SfsInv
<1>2. Return(t) /\ SetPos(h, t, p) /\ disk_din' = disk_din /\ others' = others
  BY Zenon DEF Open
<1>3. t \in Good
  <2>1. sfs_truncfile(fs, 0) \in Good
    BY <1>1, TruncFileGood
  <2> QED BY <1>1, <2>1
<1> HIDE DEF t
<1>4. p \in Nat
  BY <1>3 DEF Good, Fs, Inode
<1> HIDE DEF p
<1>5. fs' \in Good' /\ fs'.ret = "ok"
  BY <1>2, <1>3, ReturnGood
<1>6. pos' \in [Handle -> Nat \cup {CLOSED}]
  BY <1>1, <1>2, <1>4, SetPosTyped
<1> QED BY <1>1, <1>2, <1>5, <1>6 DEF SfsInv

LEMMA ReadStep ==
  ASSUME SfsInv, NEW h \in Handle, NEW n \in 1 .. MaxRead, Read(h, n), UNCHANGED others
  PROVE  SfsInv'
<1> DEFINE t == sfs_read(fs, pos[h], n)
           p == pos[h] + t.alen
<1>1. fs \in Good /\ disk_din \in Inode /\ pos \in [Handle -> Nat \cup {CLOSED}]
      /\ others \subseteq Block
  BY DEF SfsInv
<1>2. Return(t) /\ SetPos(h, t, p) /\ disk_din' = disk_din /\ others' = others
  BY Zenon DEF Read
<1>3. pos[h] \in Nat /\ n \in Nat
  BY <1>1 DEF Read, Opened
<1>4. t \in Good
  <2>1. FALSE \in BOOLEAN /\ (FALSE => \A i \in Int : <<>>[i] \in Byte)
    OBVIOUS
  <2>2. sfs_io(fs, pos[h], n, <<>>, FALSE) \in Good
    BY <1>1, <1>3, <2>1, IoGood, Zenon
  <2> QED BY <2>2, Zenon DEF sfs_read
<1> HIDE DEF t
<1>5. p \in Nat
  BY <1>3, <1>4 DEF Good, Fs
<1> HIDE DEF p
<1>6. fs' \in Good' /\ fs'.ret = "ok"
  BY <1>2, <1>4, ReturnGood
<1>7. pos' \in [Handle -> Nat \cup {CLOSED}]
  BY <1>1, <1>2, <1>5, SetPosTyped
<1> QED BY <1>1, <1>2, <1>6, <1>7 DEF SfsInv

LEMMA WriteStep ==
  ASSUME SfsInv, NEW h \in Handle, NEW bytes \in Writes, Write(h, bytes), UNCHANGED others
  PROVE  SfsInv'
<1> DEFINE t == sfs_write(fs, pos[h], bytes)
           p == pos[h] + t.alen
<1>1. fs \in Good /\ disk_din \in Inode /\ pos \in [Handle -> Nat \cup {CLOSED}]
      /\ others \subseteq Block
  BY DEF SfsInv
<1>2. Return(t) /\ SetPos(h, t, p) /\ disk_din' = disk_din /\ others' = others
  BY Zenon DEF Write
<1>3. pos[h] \in Nat /\ Len(bytes) \in Nat
  <2>1. bytes \in Seq(Nat)
    BY SfsAssumption
  <2> QED BY <1>1, <2>1 DEF Write, Opened
<1>4. t \in Good
  <2>1. TRUE \in BOOLEAN /\ (TRUE => \A i \in Int : bytes[i] \in Byte)
    BY DEF Byte
  <2>2. sfs_io(fs, pos[h], Len(bytes), bytes, TRUE) \in Good
    BY <1>1, <1>3, <2>1, IoGood, Zenon
  <2> QED BY <2>2, Zenon DEF sfs_write
<1> HIDE DEF t
<1>5. p \in Nat
  BY <1>3, <1>4 DEF Good, Fs
<1> HIDE DEF p
<1>6. fs' \in Good' /\ fs'.ret = "ok"
  BY <1>2, <1>4, ReturnGood
<1>7. pos' \in [Handle -> Nat \cup {CLOSED}]
  BY <1>1, <1>2, <1>5, SetPosTyped
<1> QED BY <1>1, <1>2, <1>6, <1>7 DEF SfsInv

LEMMA SeekStep ==
  ASSUME SfsInv, NEW h \in Handle, NEW p \in 0 .. MaxPos, Seek(h, p), UNCHANGED others
  PROVE  SfsInv'
<1> DEFINE t == IF p > fs.din.size THEN sfs_truncfile(fs, p) ELSE fs
           q == IF t.ret = "ok" THEN p ELSE pos[h]
<1>1. fs \in Good /\ disk_din \in Inode /\ pos \in [Handle -> Nat \cup {CLOSED}]
      /\ others \subseteq Block
  BY DEF SfsInv
<1>2. Return(t) /\ SetPos(h, t, q) /\ disk_din' = disk_din /\ others' = others
  BY Zenon DEF Seek
<1>3. pos[h] \in Nat /\ p \in Nat
  BY <1>1 DEF Seek, Opened
<1>4. t \in Good
  <2>1. sfs_truncfile(fs, p) \in Good
    BY <1>1, <1>3, TruncFileGood
  <2> QED BY <1>1, <2>1, Zenon
<1> HIDE DEF t
<1>5. q \in Nat
  BY <1>3
<1> HIDE DEF q
<1>6. fs' \in Good' /\ fs'.ret = "ok"
  BY <1>2, <1>4, ReturnGood
<1>7. pos' \in [Handle -> Nat \cup {CLOSED}]
  BY <1>1, <1>2, <1>5, SetPosTyped
<1> QED BY <1>1, <1>2, <1>6, <1>7 DEF SfsInv

(***************************************************************************)
(* The inode goes to the disk, by fsync or with the last close; after the  *)
(* latter it is read again.                                                *)
(***************************************************************************)
LEMMA SyncGood ==
  ASSUME SfsInv, UNCHANGED others, disk_din' = sfs_fsync,
         \/ fs' = [fs EXCEPT !.dirty = FALSE]
         \/ fs' = [fs EXCEPT !.dirty = FALSE, !.din = disk_din']
  PROVE  disk_din' \in Inode /\ fs' \in Good' /\ fs'.ret = "ok"
<1>1. /\ fs \in Fs /\ fs.ret = "ok" /\ Exact(Map(fs), fs.free) /\ Kept(fs)
      /\ disk_din \in Inode /\ fs.din \in Inode
  BY DEF SfsInv, Good, Error, Owned, Fs
<1>2. /\ disk_din' \in Inode
      /\ disk_din'.direct = fs.din.direct /\ disk_din'.indirect = fs.din.indirect
  BY <1>1 DEF sfs_fsync, Kept
<1>3. /\ fs' \in Fs /\ fs'.ret = "ok" /\ fs'.free = fs.free /\ fs'.data = fs.data
      /\ fs'.din.direct = fs.din.direct /\ fs'.din.indirect = fs.din.indirect
  <2>1. CASE fs' = [fs EXCEPT !.dirty = FALSE]
    BY <1>1, <2>1 DEF Fs
  <2>2. CASE fs' = [fs EXCEPT !.dirty = FALSE, !.din = disk_din']
    BY <1>1, <1>2, <2>2 DEF Fs
  <2> QED BY <2>1, <2>2
<1>4. Map(fs)' = Map(fs)
  BY <1>3 DEF Map
<1>5. Exact(Map(fs), fs.free)'
  BY <1>1, <1>3, <1>4 DEF Exact
<1>6. Kept(fs)'
  BY <1>2, <1>3 DEF Kept
<1>7. Owned(fs)'
  BY <1>5, <1>6, Zenon DEF Owned
<1>8. fs' \in Good'
  BY <1>3, <1>7 DEF Good
<1> QED BY <1>2, <1>3, <1>8

LEMMA CloseStep ==
  ASSUME SfsInv, NEW h \in Handle, Close(h), UNCHANGED others
  PROVE  SfsInv'
<1>1. fs \in Good /\ fs.ret = "ok" /\ disk_din \in Inode
      /\ pos \in [Handle -> Nat \cup {CLOSED}] /\ others \subseteq Block
  BY DEF SfsInv
<1>2. pos' \in [Handle -> Nat \cup {CLOSED}]
  BY <1>1 DEF Close
<1>3. disk_din' \in Inode /\ fs' \in Good' /\ fs'.ret = "ok"
  <2>1. CASE Opened = {h}
    <3>1. disk_din' = sfs_fsync /\ fs' = [fs EXCEPT !.dirty = FALSE, !.din = disk_din']
      BY <2>1, Zenon DEF Close
    <3> QED BY <3>1, SyncGood, Zenon
  <2>2. CASE Opened # {h}
    <3>1. fs' = fs /\ disk_din' = disk_din
      BY <2>2 DEF Close
    <3>2. fs \in Good'
      BY <1>1, <3>1, GoodKept
    <3> QED BY <1>1, <3>1, <3>2
  <2> QED BY <2>1, <2>2
<1> QED BY <1>1, <1>2, <1>3 DEF SfsInv

LEMMA FsyncStep ==
  ASSUME SfsInv, Fsync, UNCHANGED others
  PROVE  SfsInv'
<1>1. disk_din' = sfs_fsync /\ fs' = [fs EXCEPT !.dirty = FALSE] /\ pos' = pos
  BY Zenon DEF Fsync
<1>2. disk_din' \in Inode /\ fs' \in Good' /\ fs'.ret = "ok"
  BY <1>1, SyncGood, Zenon
<1> QED BY <1>1, <1>2 DEF SfsInv

LEMMA SfsInit == Init => SfsInv
<1> SUFFICES ASSUME Init PROVE SfsInv
    OBVIOUS
<1> DEFINE din == [size |-> 0, blocks |-> 0, direct |-> [i \in 0 .. NDIRECT - 1 |-> 0],
                   indirect |-> 0]
<1>1. din \in Inode
  BY DEF Inode
<1>2. din.indirect = 0 /\ \A k \in 0 .. NDIRECT - 1 : din.direct[k] = 0
  OBVIOUS
<1>3. disk_din = din
  BY DEF Init
<1> HIDE DEF din
<1>4. others \subseteq Block
  BY SfsAssumption DEF Init
<1> DEFINE data == [b \in Block |-> [c \in Cell |-> 1]]
<1>5. data \in [Block -> [Cell -> Byte]]
  BY Constants
<1> HIDE DEF data
<1>6. fs = [free |-> Block \ others, data |-> data, din |-> din, dirty |-> FALSE,
            ret |-> "ok", ino |-> 0, buf |-> <<>>, alen |-> 0]
  BY <1>3, Zenon DEF Init, data
<1>7. fs \in Fs /\ fs.free = Block \ others /\ fs.din = din /\ fs.ret = "ok"
  <2>1. "ok" \in Error \cup Asserted /\ <<>> \in Seq(Byte) /\ 0 \in Nat
    BY DEF Error
  <2> QED BY <1>1, <1>5, <1>6, <2>1 DEF Fs
<1>8. \A k \in Place : Map(fs)[k] = 0
  <2> DEFINE f == [k \in Place |-> 0]
  <2>1. f \in [Place -> {0}] /\ \A k \in Place : f[k] = 0
    OBVIOUS
  <2> HIDE DEF f
  <2>2. /\ f[-1] = fs.din.indirect
        /\ \A k \in 0 .. NDIRECT - 1 : f[k] = fs.din.direct[k]
        /\ \A k \in 0 .. NENTRY - 1 : f[NDIRECT + k] = IF fs.din.indirect = 0 THEN 0
                                                       ELSE fs.data[fs.din.indirect][k]
    <3>1. /\ -1 \in Place /\ \A k \in 0 .. NDIRECT - 1 : k \in Place
          /\ \A k \in 0 .. NENTRY - 1 : NDIRECT + k \in Place
      BY MapAt, Zenon
    <3>2. fs.din.indirect = 0 /\ \A k \in 0 .. NDIRECT - 1 : fs.din.direct[k] = 0
      BY <1>2, <1>7
    <3> QED BY <2>1, <3>1, <3>2
  <2>3. Map(fs) = f
    BY <2>1, <2>2, MapEq
  <2> QED BY <2>1, <2>3
<1>9. Map(fs) \in [Place -> Block \cup {0}]
  <2>1. Map(fs) = [k \in Place |-> Map(fs)[k]]
    BY DEF Map
  <2> HIDE DEF Map
  <2> QED BY <1>8, <2>1
<1>10. Exact(Map(fs), fs.free)
  BY <1>4, <1>7, <1>8, <1>9 DEF Exact
<1>11. Kept(fs)
  BY <1>3, <1>7 DEF Kept
<1>12. pos \in [Handle -> Nat \cup {CLOSED}]
  BY DEF Init
<1> QED BY <1>1, <1>3, <1>4, <1>7, <1>10, <1>11, <1>12 DEF SfsInv, Good, Owned

LEMMA SfsNext == SfsInv /\ [Next]_vars => SfsInv'
<1> SUFFICES ASSUME SfsInv, [Next]_vars PROVE SfsInv'
    OBVIOUS
<1>1. CASE Fsync /\ UNCHANGED others
  BY <1>1, FsyncStep
<1>2. ASSUME NEW h \in Handle, Call(h), UNCHANGED others PROVE SfsInv'
  <2>1. ASSUME NEW trunc \in BOOLEAN, NEW append \in BOOLEAN, Open(h, trunc, append)
        PROVE  SfsInv'
    BY <1>2, <2>1, OpenStep
  <2>2. ASSUME NEW n \in 1 .. MaxRead, Read(h, n) PROVE SfsInv'
    BY <1>2, <2>2, ReadStep
  <2>3. ASSUME NEW bytes \in Writes, Write(h, bytes) PROVE SfsInv'
    BY <1>2, <2>3, WriteStep
  <2>4. ASSUME NEW p \in 0 .. MaxPos, Seek(h, p) PROVE SfsInv'
    BY <1>2, <2>4, SeekStep
  <2>5. CASE Close(h)
    BY <1>2, <2>5, CloseStep
  <2> QED BY <1>2, <2>1, <2>2, <2>3, <2>4, <2>5, Zenon DEF Call
<1>3. CASE UNCHANGED vars
  <2>1. fs' = fs /\ disk_din' = disk_din /\ pos' = pos /\ others' = others
    BY <1>3 DEF vars
  <2>2. fs \in Good'
    BY <2>1, GoodKept DEF SfsInv
  <2> QED BY <2>1, <2>2 DEF SfsInv
<1> QED BY <1>1, <1>2, <1>3 DEF Next

----------------------------------------------------------------------------
(* The theorem.                                                            *)

\* The place of SfsFile with number k.
NameOf(k) == IF k = -1 THEN <<"indirect", 0>>
             ELSE IF k < NDIRECT THEN <<"direct", k>>
             ELSE <<"entry", k - NDIRECT>>

(***************************************************************************)
(* A place of SfsFile has a number, and names what the map has there; a    *)
(* number where the map has a block is one of a place.                     *)
(***************************************************************************)
LEMMA PlaceHasNumber ==
  \A l \in Places : \E k \in Place : l = NameOf(k) /\ Named(l) = Map(fs)[k]
<1>0. NDIRECT \in Nat /\ NENTRY \in Nat
  BY Constants
<1>1. ASSUME NEW i \in 0 .. NDIRECT - 1
      PROVE  \E k \in Place : <<"direct", i>> = NameOf(k) /\ Named(<<"direct", i>>) = Map(fs)[k]
  <2>1. i \in Place /\ Map(fs)[i] = fs.din.direct[i]
    BY MapAt
  <2>2. <<"direct", i>> = NameOf(i)
    BY <1>0 DEF NameOf
  <2>3. Named(<<"direct", i>>) = fs.din.direct[i]
    BY DEF Named
  <2> QED BY <2>1, <2>2, <2>3
<1>2. \E k \in Place : <<"indirect", 0>> = NameOf(k) /\ Named(<<"indirect", 0>>) = Map(fs)[k]
  <2>1. -1 \in Place /\ Map(fs)[-1] = fs.din.indirect
    BY MapAt
  <2>2. <<"indirect", 0>> = NameOf(-1)
    BY DEF NameOf
  <2>3. Named(<<"indirect", 0>>) = fs.din.indirect
    BY DEF Named
  <2> QED BY <2>1, <2>2, <2>3
<1>3. ASSUME NEW i \in 0 .. NENTRY - 1, fs.din.indirect # 0
      PROVE  \E k \in Place : <<"entry", i>> = NameOf(k) /\ Named(<<"entry", i>>) = Map(fs)[k]
  <2>1. NDIRECT + i \in Place /\ Map(fs)[NDIRECT + i] = fs.data[fs.din.indirect][i]
    BY <1>3, MapAt
  <2>2. <<"entry", i>> = NameOf(NDIRECT + i)
    <3>1. NDIRECT + i # -1 /\ ~(NDIRECT + i < NDIRECT) /\ (NDIRECT + i) - NDIRECT = i
      BY <1>0
    <3> QED BY <3>1 DEF NameOf
  <2>3. Named(<<"entry", i>>) = fs.data[fs.din.indirect][i]
    BY DEF Named
  <2> QED BY <2>1, <2>2, <2>3
<1> QED BY <1>1, <1>2, <1>3 DEF Places

LEMMA NumberIsPlace ==
  ASSUME NEW k \in Place, Map(fs)[k] # 0
  PROVE  NameOf(k) \in Places /\ Named(NameOf(k)) = Map(fs)[k]
<1>0. NDIRECT \in Nat /\ NENTRY \in Nat
  BY Constants
<1>1. CASE k = -1
  <2>1. NameOf(k) = <<"indirect", 0>>
    BY <1>1 DEF NameOf
  <2>2. Map(fs)[k] = fs.din.indirect
    BY <1>1, MapAt
  <2> QED BY <2>1, <2>2 DEF Places, Named
<1>2. CASE k \in 0 .. NDIRECT - 1
  <2>1. NameOf(k) = <<"direct", k>>
    BY <1>0, <1>2 DEF NameOf
  <2>2. Map(fs)[k] = fs.din.direct[k]
    BY <1>2, MapAt
  <2> QED BY <1>2, <2>1, <2>2 DEF Places, Named
<1>3. CASE k \in NDIRECT .. NDIRECT + NENTRY - 1
  <2> DEFINE i == k - NDIRECT
  <2>1. i \in 0 .. NENTRY - 1 /\ NDIRECT + i = k
    BY <1>0, <1>3
  <2>2. NameOf(k) = <<"entry", i>>
    BY <1>0, <1>3 DEF NameOf
  <2> HIDE DEF i
  <2>3. Map(fs)[NDIRECT + i] = IF fs.din.indirect = 0 THEN 0 ELSE fs.data[fs.din.indirect][i]
    BY <2>1, MapAt
  <2>4. fs.din.indirect # 0 /\ Map(fs)[k] = fs.data[fs.din.indirect][i]
    BY <2>1, <2>3
  <2> QED BY <2>1, <2>2, <2>4 DEF Places, Named
<1> QED BY <1>0, <1>1, <1>2, <1>3 DEF Place

LEMMA SfsImplies == SfsInv => BlocksOwnedOnce
<1> SUFFICES ASSUME SfsInv PROVE BlocksOwnedOnce
    OBVIOUS
<1> DEFINE map == Map(fs)
<1>1. Exact(map, fs.free)
  BY DEF SfsInv, Good, Owned, Error
<1>2. \A l \in Places : \E k \in Place : l = NameOf(k) /\ Named(l) = map[k]
  BY PlaceHasNumber
<1>3. \A k \in Place : map[k] # 0 => NameOf(k) \in Places /\ Named(NameOf(k)) = map[k]
  BY NumberIsPlace
<1> HIDE DEF map
<1>4. /\ map \in [Place -> Block \cup {0}] /\ fs.free \subseteq Block \ others
      /\ \A k \in Place : map[k] # 0 => map[k] \notin fs.free /\ map[k] \notin others
      /\ \A k, l \in Place : map[k] = map[l] /\ map[k] # 0 => k = l
      /\ \A b \in Block : b \in fs.free \/ b \in others \/ \E k \in Place : map[k] = b
  BY <1>1, Zenon DEF Exact
<1>5. {Named(l) : l \in Places} \ {0} = Block \ (fs.free \cup others)
  <2>1. ASSUME NEW l \in Places, Named(l) # 0
        PROVE  Named(l) \in Block \ (fs.free \cup others)
    BY <1>2, <1>4, <2>1
  <2>2. ASSUME NEW b \in Block \ (fs.free \cup others)
        PROVE  b # 0 /\ \E l \in Places : b = Named(l)
    <3>1. b # 0
      BY Constants
    <3>2. PICK k \in Place : map[k] = b
      BY <1>4
    <3> QED BY <1>3, <3>1, <3>2
  <2> QED BY <2>1, <2>2
<1>6. \A l, m \in Places : Named(l) = Named(m) /\ Named(l) # 0 => l = m
  BY <1>2, <1>4
<1> QED BY <1>4, <1>5, <1>6 DEF BlocksOwnedOnce

(***************************************************************************)
(* SfsInv holds in every reachable state: whatever was written, truncated  *)
(* or given up half-way on a full disk, each block is free, another file's *)
(* or named in one place, and the inode on the disk names the same blocks  *)
(* unless the one in memory is marked dirty.                               *)
(***************************************************************************)
THEOREM SfsInvariant == Spec => []SfsInv
<1>1. Init => SfsInv
  BY SfsInit
<1>2. SfsInv /\ [Next]_vars => SfsInv'
  BY SfsNext
<1> QED BY <1>1, <1>2, PTL DEF Spec

(***************************************************************************)
(* The free map and the block map of the file agree: no block is used      *)
(* twice and none is lost.                                                 *)
(***************************************************************************)
THEOREM SfsBlocksOwnedOnce == Spec => []BlocksOwnedOnce
<1>1. SfsInv => BlocksOwnedOnce
  BY SfsImplies
<1> QED BY <1>1, SfsInvariant, PTL

----------------------------------------------------------------------------
(* The file from call to call.                                             *)

\* The blocks that the inode counts are there and enough, the rest is 0.
Laid(s) == Filled(s) /\ Sized(s) /\ Zeroed(s)

\* What the last close leaves of an inode that is not dirty.
DiskKept == fs.dirty \/ /\ disk_din.size = fs.din.size /\ disk_din.blocks <= fs.din.blocks
                        /\ disk_din.size <= BLKSIZE * disk_din.blocks

FileInv ==
    /\ SfsInv /\ fs.alen = 0 /\ fs.buf = <<>> /\ Laid(fs) /\ DiskKept
    /\ \A h \in Opened : Reached(fs, pos[h])

LEMMA FileFacts ==
  ASSUME FileInv
  PROVE  /\ Valid(fs) /\ fs.ret = "ok" /\ fs.alen = 0 /\ fs.buf = <<>> /\ Continues(fs, fs)
         /\ pos \in [Handle -> Nat \cup {CLOSED}]
         /\ \A h \in Opened : pos[h] \in Nat /\ Reached(fs, pos[h])
<1>1. /\ fs \in Good /\ fs.ret = "ok" /\ Laid(fs) /\ fs.alen = 0 /\ fs.buf = <<>>
      /\ pos \in [Handle -> Nat \cup {CLOSED}]
      /\ \A h \in Opened : Reached(fs, pos[h])
  BY DEF FileInv, SfsInv
<1>2. fs.ret \in Error
  BY <1>1 DEF Error
<1>3. Valid(fs)
  BY <1>1, <1>2 DEF Valid, Whole, Laid
<1>4. Continues(fs, fs)
  <2>1. fs.din.blocks <= fs.din.blocks
    BY <1>3, WholeFacts DEF Valid
  <2> QED BY <2>1 DEF Continues
<1>5. \A h \in Opened : pos[h] \in Nat
  BY <1>1 DEF Opened
<1> QED BY <1>1, <1>3, <1>4, <1>5

\* The new file system is t, with the results of the call taken out.
Returned(t) ==
    /\ fs'.free = t.free /\ fs'.data = t.data /\ fs'.din = t.din /\ fs'.dirty = t.dirty
    /\ fs'.buf = <<>> /\ fs'.alen = 0 /\ halted' = halted
    /\ Map(fs') = Map(t) /\ \A j \in Index, c \in Cell : At(fs', j, c) = At(t, j, c)

LEMMA ReturnFields ==
  ASSUME NEW t, Return(t), t.ret \in Error
  PROVE  Returned(t)
<1> DEFINE r == [free |-> t.free, data |-> t.data, din |-> t.din, dirty |-> t.dirty,
                 ret |-> "ok", ino |-> 0, buf |-> <<>>, alen |-> 0]
<1>1. fs' = r /\ halted' = halted
  BY DEF Return
<1>2. /\ r.free = t.free /\ r.data = t.data /\ r.din = t.din /\ r.dirty = t.dirty
      /\ r.buf = <<>> /\ r.alen = 0
  OBVIOUS
<1> HIDE DEF r
<1>3. Map(r) = Map(t)
  BY <1>2 DEF Map
<1>4. \A j \in Index, c \in Cell : At(r, j, c) = At(t, j, c)
  BY <1>2, <1>3 DEF At
<1> QED BY <1>1, <1>2, <1>3, <1>4 DEF Returned

\* What a call has made of the file: t is a file again, or an assertion failed.
Result(t) == t.ret \in Error => Valid(t) /\ Continues(t, fs)

(***************************************************************************)
(* A call with a result keeps the invariant.                               *)
(***************************************************************************)
LEMMA CallKeeps ==
  ASSUME FileInv, NEW t, Result(t), Return(t), NEW h \in Handle, NEW p, SetPos(h, t, p),
         t.ret \in Error => p \in Nat /\ Reached(t, p),
         UNCHANGED <<disk_din, others>>, SfsInv'
  PROVE  FileInv'
<1>1. /\ pos \in [Handle -> Nat \cup {CLOSED}] /\ fs.alen = 0 /\ fs.buf = <<>>
      /\ \A g \in Opened : pos[g] \in Nat /\ Reached(fs, pos[g])
  BY FileFacts
<1>2. Laid(fs) /\ DiskKept
  BY DEF FileInv
<1>3. CASE t.ret \notin Error
  <2>1. fs' = fs /\ pos' = pos /\ disk_din' = disk_din
    BY <1>1, <1>3 DEF Return, SetPos
  <2>2. Laid(fs)' /\ DiskKept' /\ fs'.alen = 0 /\ fs'.buf = <<>>
    BY <1>1, <1>2, <2>1 DEF DiskKept
  <2>3. \A g \in Opened' : Reached(fs', pos'[g])
    BY <1>1, <2>1, Zenon DEF Opened
  <2> QED BY <2>2, <2>3 DEF FileInv
<1>4. CASE t.ret \in Error
  <2>1. /\ fs'.free = t.free /\ fs'.data = t.data /\ fs'.din = t.din /\ fs'.dirty = t.dirty
        /\ fs'.buf = <<>> /\ fs'.alen = 0 /\ Map(fs') = Map(t)
        /\ \A j \in Index, c \in Cell : At(fs', j, c) = At(t, j, c)
    BY <1>4, ReturnFields, Zenon DEF Returned
  <2>2. Valid(t) /\ Continues(t, fs) /\ p \in Nat /\ Reached(t, p)
    BY <1>4 DEF Result
  <2>3. Laid(fs')
    <3>1. Filled(t) /\ Sized(t) /\ Zeroed(t)
      BY <2>2 DEF Valid, Whole
    <3>2. \A c \in 0 .. BLKSIZE - 1 : c \in Cell
      BY Constants
    <3>3. Filled(fs')
      BY <2>1, <3>1, Zenon DEF Filled
    <3>4. Sized(fs')
      BY <2>1, <3>1, Zenon DEF Sized
    <3>5. Zeroed(fs')
      BY <2>1, <3>1, <3>2, Zenon DEF Zeroed
    <3> QED BY <3>3, <3>4, <3>5 DEF Laid
  <2>4. DiskKept'
    <3>1. disk_din' = disk_din
      OBVIOUS
    <3>2. CASE t.dirty
      BY <2>1, <3>2 DEF DiskKept
    <3>3. CASE ~t.dirty
      <4>1. /\ fs.din.blocks <= t.din.blocks /\ ~fs.dirty /\ t.din.size = fs.din.size
        BY <2>2, <3>3 DEF Continues
      <4>2. /\ disk_din.size = fs.din.size /\ disk_din.blocks <= fs.din.blocks
            /\ disk_din.size <= BLKSIZE * disk_din.blocks
        BY <1>2, <4>1 DEF DiskKept
      <4>3. disk_din.blocks \in Nat /\ fs.din.blocks \in Nat /\ t.din.blocks \in Nat
        <5>1. disk_din \in Inode /\ Valid(fs)
          BY FileFacts DEF FileInv, SfsInv
        <5>2. fs.din.blocks \in Nat /\ t.din.blocks \in Nat
          BY <2>2, <5>1, WholeFacts DEF Valid
        <5> QED BY <5>1, <5>2 DEF Inode
      <4>4. disk_din.blocks <= t.din.blocks
        BY <4>1, <4>2, <4>3
      <4> QED BY <2>1, <3>1, <4>1, <4>2, <4>4, Zenon DEF DiskKept
    <3> QED BY <3>2, <3>3
  <2>5. ASSUME NEW g \in Opened' PROVE Reached(fs', pos'[g])
    <3>1. pos' = [pos EXCEPT ![h] = p]
      BY <1>4 DEF SetPos
    <3>2. g \in Handle /\ pos'[g] = IF g = h THEN p ELSE pos[g]
      BY <1>1, <3>1 DEF Opened
    <3>3. CASE g = h
      BY <2>1, <2>2, <3>2, <3>3, Zenon DEF Reached
    <3>4. CASE g # h
      <4>1. g \in Opened
        BY <3>2, <3>4 DEF Opened
      <4>2. Reached(t, pos[g])
        BY <1>1, <2>2, <4>1, ReachedKept, Zenon
      <4> QED BY <2>1, <3>2, <3>4, <4>2, Zenon DEF Reached
    <3> QED BY <3>3, <3>4
  <2> QED BY <2>1, <2>3, <2>4, <2>5 DEF FileInv
<1> QED BY <1>3, <1>4

\* The damage that each of the two assertions that can fail tells of.
Damage(ret) ==
    \/ /\ ret = "index <= din->blocks"
       /\ \E h \in Opened : pos[h] \div BLKSIZE > fs.din.blocks
    \/ /\ ret = "tblks == din->blocks"
       /\ fs.din.blocks * BLKSIZE >= fs.din.size + BLKSIZE

\* A call that leaves t of the file, and a descriptor at p of it.
Outcome(t, p) ==
    /\ t.ret \in Error => Valid(t) /\ Continues(t, fs) /\ p \in Nat /\ Reached(t, p)
    /\ t.ret \notin Error => Damage(t.ret)

(***************************************************************************)
(* An offset up to the end of a file is reached.                           *)
(***************************************************************************)
LEMMA SizeReached ==
  ASSUME NEW s, Valid(s), NEW a \in Nat, a <= s.din.size
  PROVE  Reached(s, a)
<1> DEFINE u == BLKSIZE * s.din.blocks
<1>1. u \in Nat /\ s.din.size \in Nat
  BY WholeFacts, Constants, More DEF Valid
<1>2. s.din.size <= u
  BY DEF Valid, Sized
<1> HIDE DEF u
<1>3. a <= u
  BY <1>1, <1>2
<1> QED BY <1>3, WithinReached DEF Valid, u

LEMMA OpenOutcome ==
  ASSUME FileInv, NEW trunc \in BOOLEAN, NEW append \in BOOLEAN
  PROVE  LET t == IF trunc THEN sfs_truncfile(fs, 0) ELSE fs
         IN  Outcome(t, IF append THEN t.din.size ELSE 0)
<1> SUFFICES ASSUME NEW t, t = IF trunc THEN sfs_truncfile(fs, 0) ELSE fs
             PROVE  Outcome(t, IF append THEN t.din.size ELSE 0)
  OBVIOUS
<1> DEFINE p == IF append THEN t.din.size ELSE 0
<1>1. Valid(fs) /\ fs.ret = "ok" /\ Continues(fs, fs)
  BY FileFacts
<1>2. \/ Valid(t) /\ Continues(t, fs) /\ t.ret \in Error
      \/ /\ t.ret = "tblks == din->blocks"
         /\ fs.din.blocks * BLKSIZE >= fs.din.size + BLKSIZE
  <2>1. CASE trunc
    <3>1. Truncates(t, fs, 0)
      <4>1. 0 \in 0 .. MaxPos
        BY Constants DEF MaxPos
      <4> QED BY <1>1, <2>1, <4>1, TruncateEffect
    <3> QED BY <1>1, <3>1 DEF Truncates, Sizes, Error
  <2>2. CASE ~trunc
    BY <1>1, <2>2 DEF Error
  <2> QED BY <2>1, <2>2
<1>3. CASE Valid(t) /\ Continues(t, fs) /\ t.ret \in Error
  <2>1. p \in Nat /\ p <= t.din.size
    BY <1>3, WholeFacts DEF Valid
  <2> HIDE DEF p
  <2>2. Reached(t, p)
    BY <1>3, <2>1, SizeReached
  <2> QED BY <1>3, <2>1, <2>2 DEF Outcome, p
<1>4. CASE /\ t.ret = "tblks == din->blocks"
           /\ fs.din.blocks * BLKSIZE >= fs.din.size + BLKSIZE
  <2>1. t.ret \notin Error
    BY <1>4 DEF Error
  <2> QED BY <1>4, <2>1 DEF Outcome, Damage
<1> QED BY <1>2, <1>3, <1>4

LEMMA ReadOutcome ==
  ASSUME FileInv, NEW h \in Opened, NEW n \in Nat
  PROVE  LET t == sfs_read(fs, pos[h], n)
         IN  Outcome(t, pos[h] + t.alen) /\ Reads(t, fs, pos[h], n)
<1> SUFFICES ASSUME NEW t, t = sfs_read(fs, pos[h], n)
             PROVE  Outcome(t, pos[h] + t.alen) /\ Reads(t, fs, pos[h], n)
  OBVIOUS
<1> DEFINE a == pos[h]
           p == a + t.alen
<1>1. /\ Valid(fs) /\ fs.ret = "ok" /\ fs.alen = 0 /\ fs.buf = <<>>
      /\ a \in Nat /\ Reached(fs, a)
  BY FileFacts
<1>2. Reads(t, fs, a, n)
  <2> HIDE DEF a
  <2>1. Reads(sfs_io(fs, a, n, <<>>, FALSE), fs, a, n)
    BY <1>1, ReadEffect
  <2> QED BY <2>1, Zenon DEF sfs_read, a
<1> HIDE DEF a
<1>3. /\ t.ret = "ok" /\ Valid(t) /\ Continues(t, fs) /\ t.din.size = fs.din.size
      /\ IF n = 0 \/ a >= fs.din.size THEN t.alen = 0
         ELSE a + t.alen = IF a + n > fs.din.size THEN fs.din.size ELSE a + n
  BY <1>2, Zenon DEF Reads
<1>4. t.alen \in Nat /\ t.din.size \in Nat
  BY <1>3, WholeFacts DEF Valid
<1>5. p \in Nat /\ (p = a \/ p <= t.din.size)
  BY <1>1, <1>3, <1>4
<1> HIDE DEF p
<1>6. Reached(t, p)
  <2>1. CASE p = a
    BY <1>1, <1>3, <2>1, ReachedKept
  <2>2. CASE p <= t.din.size
    BY <1>3, <1>5, <2>2, SizeReached
  <2> QED BY <1>5, <2>1, <2>2
<1>7. t.ret \in Error
  BY <1>3 DEF Error
<1> QED BY <1>2, <1>3, <1>5, <1>6, <1>7 DEF Outcome, a, p

LEMMA WriteOutcome ==
  ASSUME FileInv, NEW h \in Opened, NEW bytes \in Writes, pos[h] + Len(bytes) <= MaxPos
  PROVE  LET t == sfs_write(fs, pos[h], bytes)
         IN  /\ Outcome(t, pos[h] + t.alen)
             /\ t.ret \in Error => \/ Len(bytes) = 0 /\ t = fs
                                   \/ Len(bytes) > 0 /\ Wrotes(t, fs, pos[h], Len(bytes), bytes)
<1> DEFINE a == pos[h]
           n == Len(bytes)
<1> SUFFICES ASSUME NEW t, t = sfs_write(fs, a, bytes)
             PROVE  /\ Outcome(t, a + t.alen)
                    /\ t.ret \in Error => \/ n = 0 /\ t = fs
                                          \/ n > 0 /\ Wrotes(t, fs, a, n, bytes)
  OBVIOUS
<1>1. /\ Valid(fs) /\ fs.ret = "ok" /\ fs.alen = 0 /\ fs.buf = <<>> /\ Continues(fs, fs)
      /\ a \in Nat /\ Reached(fs, a)
  BY FileFacts
<1>2. n \in Nat /\ \A i \in Int : bytes[i] \in Byte
  <2>1. bytes \in Seq(Nat)
    BY SfsAssumption
  <2> QED BY <2>1 DEF Byte
<1>3. a + n <= MaxPos
  OBVIOUS
<1>4. t = sfs_io(fs, a, n, bytes, TRUE)
  BY Zenon DEF sfs_write
<1> HIDE DEF a, n
<1>5. \/ n = 0 /\ t = fs
      \/ a \div BLKSIZE > fs.din.blocks /\ t.ret = "index <= din->blocks"
      \/ n > 0 /\ Wrotes(t, fs, a, n, bytes)
  BY <1>1, <1>2, <1>3, <1>4, WriteEffect
<1>6. CASE n = 0 /\ t = fs
  <2>1. a + t.alen = a /\ t.ret \in Error
    BY <1>1, <1>6 DEF Error
  <2> QED BY <1>1, <1>6, <2>1, Zenon DEF Outcome
<1>7. CASE a \div BLKSIZE > fs.din.blocks /\ t.ret = "index <= din->blocks"
  <2>1. t.ret \notin Error
    BY <1>7 DEF Error
  <2>2. Damage(t.ret)
    BY <1>7, Zenon DEF Damage, a
  <2> QED BY <2>1, <2>2 DEF Outcome
<1>8. CASE n > 0 /\ Wrotes(t, fs, a, n, bytes)
  <2>1. t.ret \in Error /\ Valid(t) /\ Continues(t, fs) /\ Reached(t, a + t.alen)
    BY <1>8, Zenon DEF Wrotes
  <2>2. t.alen \in Nat
    BY <2>1, WholeFacts DEF Valid
  <2>3. a + t.alen \in Nat
    BY <1>1, <2>2
  <2> QED BY <1>8, <2>1, <2>3, Zenon DEF Outcome
<1> QED BY <1>5, <1>6, <1>7, <1>8

LEMMA SeekOutcome ==
  ASSUME FileInv, NEW h \in Opened, NEW p \in 0 .. MaxPos
  PROVE  LET t == IF p > fs.din.size THEN sfs_truncfile(fs, p) ELSE fs
         IN  Outcome(t, IF t.ret = "ok" THEN p ELSE pos[h])
<1> DEFINE a == pos[h]
<1> SUFFICES ASSUME NEW t, t = IF p > fs.din.size THEN sfs_truncfile(fs, p) ELSE fs
             PROVE  Outcome(t, IF t.ret = "ok" THEN p ELSE a)
  OBVIOUS
<1>1. /\ Valid(fs) /\ fs.ret = "ok" /\ Continues(fs, fs) /\ a \in Nat /\ Reached(fs, a)
      /\ fs.din.size \in Nat
  BY FileFacts, WholeFacts DEF Valid
<1> HIDE DEF a
<1>2. CASE p > fs.din.size
  <2>1. Truncates(t, fs, p)
    BY <1>1, <1>2, TruncateEffect
  <2>2. p # fs.din.size
    BY <1>1, <1>2
  <2>3. \/ /\ t.ret = "E_NO_MEM" /\ Valid(t) /\ Continues(t, fs)
        \/ Sizes(t, fs, p)
    BY <2>1, <2>2, Zenon DEF Truncates
  <2>4. CASE t.ret = "E_NO_MEM" /\ Valid(t) /\ Continues(t, fs)
    <3>1. t.ret # "ok" /\ t.ret \in Error
      BY <2>4 DEF Error
    <3>2. Reached(t, a)
      BY <1>1, <2>4, ReachedKept
    <3> QED BY <1>1, <2>4, <3>1, <3>2, Zenon DEF Outcome
  <2>5. CASE Sizes(t, fs, p)
    <3>1. t.ret = "ok" /\ Valid(t) /\ Continues(t, fs) /\ t.din.size = p
      BY <2>5, Zenon DEF Sizes
    <3>2. t.ret \in Error /\ p \in Nat /\ p <= t.din.size
      BY <3>1 DEF Error
    <3>3. Reached(t, p)
      BY <3>1, <3>2, SizeReached
    <3> QED BY <3>1, <3>2, <3>3, Zenon DEF Outcome
  <2> QED BY <2>3, <2>4, <2>5
<1>3. CASE ~(p > fs.din.size)
  <2>1. t = fs /\ p \in Nat /\ p <= fs.din.size
    BY <1>1, <1>3
  <2>2. Reached(t, p) /\ t.ret \in Error
    BY <1>1, <2>1, SizeReached DEF Error
  <2> QED BY <1>1, <2>1, <2>2, Zenon DEF Outcome
<1> QED BY <1>2, <1>3

(***************************************************************************)
(* A call with such an outcome.                                            *)
(***************************************************************************)
LEMMA CallSafe ==
  ASSUME FileInv, halted = "no", NEW t, NEW p, Outcome(t, p), Return(t),
         NEW h \in Handle, SetPos(h, t, p), UNCHANGED <<disk_din, others>>, SfsInv'
  PROVE  FileInv' /\ (halted' # "no" => Damage(halted'))
<1>1. FileInv'
  BY CallKeeps DEF Outcome, Result
<1>2. CASE t.ret \in Error
  BY <1>1, <1>2 DEF Return
<1>3. CASE t.ret \notin Error
  <2>1. halted' = t.ret /\ Damage(t.ret)
    BY <1>3 DEF Return, Outcome
  <2> QED BY <1>1, <2>1
<1> QED BY <1>2, <1>3

(***************************************************************************)
(* The inode goes to the disk, and is read again after the last close.     *)
(***************************************************************************)
LEMMA SyncKeeps ==
  ASSUME FileInv, SfsInv', disk_din' = sfs_fsync,
         \/ fs' = [fs EXCEPT !.dirty = FALSE] /\ pos' = pos
         \/ fs' = [fs EXCEPT !.dirty = FALSE, !.din = disk_din'] /\ Opened' = {}
  PROVE  /\ FileInv' /\ fs'.data = fs.data /\ Map(fs') = Map(fs)
         /\ fs'.din.size = fs.din.size
<1>1. /\ fs \in Fs /\ fs.ret = "ok" /\ fs.alen = 0 /\ fs.buf = <<>>
      /\ fs.din \in Inode /\ disk_din \in Inode /\ Kept(fs)
      /\ \A g \in Opened : Reached(fs, pos[g])
  BY DEF FileInv, SfsInv, Good, Error, Owned, Fs
<1>2. Filled(fs) /\ Sized(fs) /\ Zeroed(fs) /\ DiskKept
  BY DEF FileInv, Laid
<1>3. /\ disk_din' \in Inode
      /\ disk_din'.direct = fs.din.direct /\ disk_din'.indirect = fs.din.indirect
      /\ disk_din'.size = fs.din.size /\ disk_din'.blocks <= fs.din.blocks
      /\ disk_din'.size <= BLKSIZE * disk_din'.blocks
  <2>1. CASE fs.dirty
    <3>1. disk_din' = fs.din /\ fs.din.blocks <= fs.din.blocks
      BY <1>1, <2>1 DEF sfs_fsync, Inode
    <3> QED BY <1>1, <1>2, <3>1, Zenon DEF Sized
  <2>2. CASE ~fs.dirty
    <3>1. disk_din' = disk_din
      BY <2>2 DEF sfs_fsync
    <3> QED BY <1>1, <1>2, <2>2, <3>1, Zenon DEF DiskKept, Kept
  <2> QED BY <2>1, <2>2
<1>4. /\ fs'.free = fs.free /\ fs'.data = fs.data /\ fs'.dirty = FALSE
      /\ fs'.alen = 0 /\ fs'.buf = <<>>
      /\ fs'.din.direct = fs.din.direct /\ fs'.din.indirect = fs.din.indirect
      /\ fs'.din.size = fs.din.size /\ fs'.din.blocks <= fs.din.blocks
      /\ fs'.din.size <= BLKSIZE * fs'.din.blocks
      /\ disk_din'.blocks <= fs'.din.blocks /\ fs'.din.blocks \in Nat
  <2>1. CASE fs' = [fs EXCEPT !.dirty = FALSE]
    <3>1. /\ fs'.free = fs.free /\ fs'.data = fs.data /\ fs'.dirty = FALSE
          /\ fs'.alen = 0 /\ fs'.buf = <<>> /\ fs'.din = fs.din
      BY <1>1, <2>1 DEF Fs
    <3>2. fs.din.blocks <= fs.din.blocks /\ fs.din.blocks \in Nat
      BY <1>1 DEF Inode
    <3> QED BY <1>2, <1>3, <3>1, <3>2, Zenon DEF Sized
  <2>2. CASE fs' = [fs EXCEPT !.dirty = FALSE, !.din = disk_din']
    <3>1. /\ fs'.free = fs.free /\ fs'.data = fs.data /\ fs'.dirty = FALSE
          /\ fs'.alen = 0 /\ fs'.buf = <<>> /\ fs'.din = disk_din'
      BY <1>1, <1>3, <2>2 DEF Fs
    <3>2. disk_din'.blocks <= disk_din'.blocks /\ disk_din'.blocks \in Nat
      BY <1>3 DEF Inode
    <3> QED BY <1>3, <3>1, <3>2, Zenon
  <2> QED BY <2>1, <2>2
<1>5. Map(fs') = Map(fs)
  BY <1>4 DEF Map
<1>6. Laid(fs')
  <2>1. Filled(fs')
    <3>1. /\ fs.din.blocks <= NDIRECT + NENTRY
          /\ \A k \in 0 .. fs.din.blocks - 1 : Map(fs)[k] # 0
      BY <1>2, Zenon DEF Filled
    <3>2. fs.din.blocks \in Nat /\ NDIRECT + NENTRY \in Nat
      BY <1>1, Constants DEF Inode
    <3>3. fs'.din.blocks <= NDIRECT + NENTRY
      BY <1>4, <3>1, <3>2
    <3>4. \A k \in 0 .. fs'.din.blocks - 1 : k \in 0 .. fs.din.blocks - 1
      BY <1>4, <3>2
    <3> QED BY <1>5, <3>1, <3>3, <3>4, Zenon DEF Filled
  <2>2. Zeroed(fs')
    <3>1. \A j \in Index, c \in 0 .. BLKSIZE - 1 : At(fs', j, c) = At(fs, j, c)
      BY <1>4, <1>5 DEF At
    <3> QED BY <1>2, <1>4, <3>1 DEF Zeroed
  <2> QED BY <1>4, <2>1, <2>2, Zenon DEF Laid, Sized
<1>7. DiskKept'
  BY <1>3, <1>4, Zenon DEF DiskKept
<1>8. \A g \in Opened' : Reached(fs', pos'[g])
  <2>1. CASE pos' = pos
    BY <1>1, <1>4, <1>5, <2>1, Zenon DEF Opened, Reached
  <2>2. CASE Opened' = {}
    BY <2>2
  <2> QED BY <2>1, <2>2
<1> QED BY <1>4, <1>5, <1>6, <1>7, <1>8 DEF FileInv

LEMMA FileInit == Init => FileInv
<1> SUFFICES ASSUME Init PROVE FileInv
  OBVIOUS
<1>1. SfsInv
  BY SfsInit
<1>2. fs.alen = 0 /\ fs.buf = <<>> /\ fs.din.size = 0 /\ fs.din.blocks = 0 /\ fs.dirty = FALSE
      /\ fs.din = disk_din /\ Opened = {}
  BY DEF Init, Opened
<1>3. \A j \in Index : Map(fs)[j] = 0
  <2> SUFFICES ASSUME NEW j \in Index PROVE Map(fs)[j] = 0
    OBVIOUS
  <2>1. \A k \in 0 .. NDIRECT - 1 : fs.din.direct[k] = 0
    BY DEF Init
  <2>2. fs.din.indirect = 0
    BY DEF Init
  <2>3. CASE j < NDIRECT
    <3>1. j \in 0 .. NDIRECT - 1
      BY <2>3, Constants DEF Index
    <3> QED BY <2>1, <3>1, MapAt
  <2>4. CASE ~(j < NDIRECT)
    <3> DEFINE i == j - NDIRECT
    <3>1. i \in 0 .. NENTRY - 1 /\ NDIRECT + i = j
      BY <2>4, Constants DEF Index
    <3> HIDE DEF i
    <3> QED BY <2>2, <3>1, MapAt
  <2> QED BY <2>3, <2>4
<1>4. Filled(fs) /\ Sized(fs) /\ Zeroed(fs)
  <2>1. 0 <= NDIRECT + NENTRY /\ 0 <= BLKSIZE * 0
    BY Constants
  <2> QED BY <1>2, <1>3, <2>1 DEF Filled, Sized, Zeroed, At
<1>5. DiskKept
  <2>1. 0 <= BLKSIZE * 0
    BY Constants
  <2> QED BY <1>2, <2>1 DEF DiskKept
<1> QED BY <1>1, <1>2, <1>4, <1>5 DEF FileInv, Laid

(***************************************************************************)
(* Every step.                                                             *)
(***************************************************************************)
LEMMA FileNext ==
  ASSUME FileInv, [Next]_vars
  PROVE  FileInv' /\ (~UNCHANGED vars => (halted' # "no" => Damage(halted')))
<1>1. SfsInv /\ SfsInv'
  BY SfsNext DEF FileInv
<1>2. CASE Fsync /\ UNCHANGED others
  <2>1. disk_din' = sfs_fsync /\ fs' = [fs EXCEPT !.dirty = FALSE] /\ pos' = pos
        /\ halted' = "no"
    BY <1>2, Zenon DEF Fsync
  <2> QED BY <1>1, <2>1, SyncKeeps
<1>3. ASSUME NEW h \in Handle, Call(h), UNCHANGED others
      PROVE  FileInv' /\ (halted' # "no" => Damage(halted'))
  <2>1. ASSUME NEW trunc \in BOOLEAN, NEW append \in BOOLEAN, Open(h, trunc, append)
        PROVE  FileInv' /\ (halted' # "no" => Damage(halted'))
    <3> DEFINE t == IF trunc THEN sfs_truncfile(fs, 0) ELSE fs
               p == IF append THEN t.din.size ELSE 0
    <3>1. halted = "no" /\ Return(t) /\ SetPos(h, t, p) /\ UNCHANGED <<disk_din, others>>
      BY <1>3, <2>1, Zenon DEF Open
    <3>2. Outcome(t, p)
      BY OpenOutcome
    <3> HIDE DEF t, p
    <3> QED BY <1>1, <3>1, <3>2, CallSafe
  <2>2. ASSUME NEW n \in 1 .. MaxRead, Read(h, n)
        PROVE  FileInv' /\ (halted' # "no" => Damage(halted'))
    <3> DEFINE t == sfs_read(fs, pos[h], n)
               p == pos[h] + t.alen
    <3>1. halted = "no" /\ Return(t) /\ SetPos(h, t, p) /\ UNCHANGED <<disk_din, others>>
          /\ h \in Opened
      BY <1>3, <2>2, Zenon DEF Read
    <3>2. Outcome(t, p)
      <4>1. n \in Nat
        BY SfsAssumption
      <4> QED BY <3>1, <4>1, ReadOutcome
    <3> HIDE DEF t, p
    <3> QED BY <1>1, <3>1, <3>2, CallSafe
  <2>3. ASSUME NEW bytes \in Writes, Write(h, bytes)
        PROVE  FileInv' /\ (halted' # "no" => Damage(halted'))
    <3> DEFINE t == sfs_write(fs, pos[h], bytes)
               p == pos[h] + t.alen
    <3>1. halted = "no" /\ Return(t) /\ SetPos(h, t, p) /\ UNCHANGED <<disk_din, others>>
          /\ h \in Opened /\ pos[h] + Len(bytes) <= MaxPos
      BY <1>3, <2>3, Zenon DEF Write
    <3>2. Outcome(t, p)
      BY <3>1, WriteOutcome
    <3> HIDE DEF t, p
    <3> QED BY <1>1, <3>1, <3>2, CallSafe
  <2>4. ASSUME NEW p \in 0 .. MaxPos, Seek(h, p)
        PROVE  FileInv' /\ (halted' # "no" => Damage(halted'))
    <3> DEFINE t == IF p > fs.din.size THEN sfs_truncfile(fs, p) ELSE fs
               q == IF t.ret = "ok" THEN p ELSE pos[h]
    <3>1. halted = "no" /\ Return(t) /\ SetPos(h, t, q) /\ UNCHANGED <<disk_din, others>>
          /\ h \in Opened
      BY <1>3, <2>4, Zenon DEF Seek
    <3>2. Outcome(t, q)
      BY <3>1, SeekOutcome
    <3> HIDE DEF t, q
    <3> QED BY <1>1, <3>1, <3>2, CallSafe
  <2>5. CASE Close(h)
    <3>1. h \in Opened /\ pos' = [pos EXCEPT ![h] = CLOSED] /\ halted' = "no"
      BY <2>5, Zenon DEF Close
    <3>2. pos \in [Handle -> Nat \cup {CLOSED}]
      BY FileFacts
    <3>3. /\ \A g \in Opened' : g \in Opened /\ pos'[g] = pos[g]
          /\ Opened = {h} => Opened' = {}
      BY <3>1, <3>2 DEF Opened
    <3>4. CASE Opened = {h}
      <4>1. disk_din' = sfs_fsync /\ fs' = [fs EXCEPT !.dirty = FALSE, !.din = disk_din']
        BY <2>5, <3>4, Zenon DEF Close
      <4> QED BY <1>1, <3>1, <3>3, <3>4, <4>1, SyncKeeps
    <3>5. CASE Opened # {h}
      <4>1. fs' = fs /\ disk_din' = disk_din
        BY <2>5, <3>5 DEF Close
      <4>2. /\ fs'.alen = 0 /\ fs'.buf = <<>> /\ Laid(fs)' /\ DiskKept'
        BY <4>1 DEF FileInv, DiskKept
      <4>3. \A g \in Opened' : Reached(fs', pos'[g])
        BY <3>3, <4>1, FileFacts
      <4> QED BY <1>1, <3>1, <4>2, <4>3 DEF FileInv
    <3> QED BY <3>4, <3>5
  <2> QED BY <1>3, <2>1, <2>2, <2>3, <2>4, <2>5, Zenon DEF Call
<1>4. CASE UNCHANGED vars
  <2>1. fs' = fs /\ disk_din' = disk_din /\ pos' = pos
    BY <1>4 DEF vars
  <2>2. Laid(fs)' /\ DiskKept' /\ Opened' = Opened
    BY <2>1 DEF FileInv, DiskKept, Opened
  <2>3. \A g \in Opened' : Reached(fs', pos'[g])
    BY <2>1, <2>2, FileFacts
  <2>4. fs'.alen = 0 /\ fs'.buf = <<>>
    BY <2>1 DEF FileInv
  <2> QED BY <1>1, <1>4, <2>2, <2>3, <2>4 DEF FileInv
<1> QED BY <1>2, <1>3, <1>4, Zenon DEF Next

(***************************************************************************)
(* FileInv holds in every reachable state: the blocks that the inode       *)
(* counts are there and enough for its bytes, what lies behind them is 0,  *)
(* the inode on the disk is as good unless the one in memory is dirty, and *)
(* every descriptor is at an offset that the disk had the blocks for.      *)
(***************************************************************************)
THEOREM SfsFileInvariant == Spec => []FileInv
<1>1. Init => FileInv
  BY FileInit
<1>2. FileInv /\ [Next]_vars => FileInv'
  BY FileNext
<1> QED BY <1>1, <1>2, PTL DEF Spec

(***************************************************************************)
(* An inode in memory that is not dirty differs from the one on the disk   *)
(* in nothing but the count of its blocks, which may be ahead.             *)
(***************************************************************************)
THEOREM SfsOnlyCountUnmarked == Spec => []OnlyCountUnmarked
<1>1. ASSUME FileInv, ~fs.dirty
      PROVE  /\ fs.din = [disk_din EXCEPT !.blocks = fs.din.blocks]
             /\ fs.din.blocks >= disk_din.blocks
  <2>1. fs \in Good /\ fs.ret = "ok" /\ disk_din \in Inode /\ DiskKept
    BY <1>1 DEF FileInv, SfsInv
  <2>2. Kept(fs) /\ fs.din \in Inode
    BY <2>1 DEF Good, Owned, Fs, Error
  <2>3. /\ fs.din.direct = disk_din.direct /\ fs.din.indirect = disk_din.indirect
        /\ fs.din.size = disk_din.size /\ disk_din.blocks <= fs.din.blocks
    BY <1>1, <2>1, <2>2 DEF Kept, DiskKept
  <2> QED BY <2>1, <2>2, <2>3 DEF Inode
<1>2. FileInv => OnlyCountUnmarked
  BY <1>1 DEF OnlyCountUnmarked
<1> QED BY <1>2, SfsFileInvariant, PTL

(***************************************************************************)
(* Of all the assertions about the block map only two can fail, each after *)
(* its own kind of damage.                                                 *)
(***************************************************************************)
THEOREM SfsFailsOnlyAfterDamage == Spec => FailsOnlyAfterDamage
<1>1. FileInv /\ [Next]_vars =>
        [halted' # "no" =>
           \/ /\ halted' = "index <= din->blocks"
              /\ \E h \in Opened : pos[h] \div BLKSIZE > fs.din.blocks
           \/ /\ halted' = "tblks == din->blocks"
              /\ fs.din.blocks * BLKSIZE >= fs.din.size + BLKSIZE]_vars
  BY FileNext, Zenon DEF Damage
<1> QED BY <1>1, SfsFileInvariant, PTL DEF Spec, FailsOnlyAfterDamage

----------------------------------------------------------------------------
(* The bytes of the file as a sequence.                                    *)

BytesOf(s) == [k \in 1 .. s.din.size |-> At(s, (k - 1) \div BLKSIZE, (k - 1) % BLKSIZE)]

\* Content, of any state.
ContentOf(s) ==
    [k \in 1 .. s.din.size |->
       s.data[IF (k - 1) \div BLKSIZE < NDIRECT THEN s.din.direct[(k - 1) \div BLKSIZE]
              ELSE s.data[s.din.indirect][(k - 1) \div BLKSIZE - NDIRECT]][(k - 1) % BLKSIZE]]

LEMMA LengthOf ==
  ASSUME NEW S, NEW n \in Nat, NEW f \in [1 .. n -> S]
  PROVE  f \in Seq(S) /\ Len(f) = n
OBVIOUS

LEMMA SubSeqOf ==
  ASSUME NEW S, NEW f \in Seq(S), NEW a \in Nat, NEW n \in Nat, a + n <= Len(f)
  PROVE  SubSeq(f, a + 1, a + n) = [i \in 1 .. n |-> f[a + i]]
OBVIOUS

\* There is a block for every byte of s.
Extent(s) == s.din.size \in Nat /\ s.din.blocks \in Nat /\ Filled(s) /\ Sized(s)

LEMMA ValidExtent ==
  ASSUME NEW s, Valid(s)
  PROVE  Extent(s)
BY WholeFacts DEF Valid, Whole, Extent

(***************************************************************************)
(* Where a byte of the file is.                                            *)
(***************************************************************************)
LEMMA Offset ==
  ASSUME NEW s, Extent(s), NEW p \in Nat, p < s.din.size
  PROVE  LET q == p \div BLKSIZE
             m == p % BLKSIZE
         IN  /\ q \in Index /\ m \in 0 .. BLKSIZE - 1 /\ BLKSIZE * q + m = p
             /\ Map(s)[q] # 0 /\ q \in 0 .. s.din.blocks - 1
<1> DEFINE q == p \div BLKSIZE
           m == p % BLKSIZE
<1>1. /\ BLKSIZE \in Nat \ {0} /\ s.din.blocks \in Nat /\ s.din.blocks <= NDIRECT + NENTRY
      /\ s.din.size \in Nat /\ Filled(s) /\ s.din.size <= BLKSIZE * s.din.blocks
  BY Constants DEF Extent, Filled, Sized
<1>2. q \in Nat /\ m \in 0 .. BLKSIZE - 1 /\ p = BLKSIZE * q + m
  BY <1>1, DivMod
<1> HIDE DEF q, m
<1>3. q < s.din.blocks
  <2> DEFINE u == BLKSIZE * s.din.blocks
  <2>1. p < u
    <3>1. u \in Nat /\ s.din.size <= u
      BY <1>1, More
    <3> HIDE DEF u
    <3> QED BY <1>1, <3>1
  <2> HIDE DEF u
  <2>2. BLKSIZE * q + m < u
    BY <1>2, <2>1
  <2> QED BY <1>1, <1>2, <2>2, Below DEF u
<1>4. q \in Index /\ q \in 0 .. s.din.blocks - 1
  BY <1>1, <1>2, <1>3, Constants DEF Index
<1>5. Map(s)[q] # 0
  BY <1>1, <1>4 DEF Filled
<1> QED BY <1>2, <1>4, <1>5 DEF q, m

LEMMA ByteTyped ==
  ASSUME NEW s, Valid(s), NEW j \in Index, NEW c \in Cell
  PROVE  At(s, j, c) \in Byte
<1>1. s \in Good /\ s.ret \in Error /\ s.data \in [Block -> [Cell -> Byte]]
  BY WholeFacts DEF Valid, Fs
<1>2. j \in Place /\ 0 \in Byte
  BY Constants DEF Index, Place
<1>3. Map(s)[j] # 0 => Map(s)[j] \in Block
  BY <1>1, <1>2, OwnedFacts
<1> QED BY <1>1, <1>2, <1>3 DEF At

LEMMA BytesTyped ==
  ASSUME NEW s, Valid(s)
  PROVE  /\ BytesOf(s) \in [1 .. s.din.size -> Byte] /\ BytesOf(s) \in Seq(Byte)
         /\ Len(BytesOf(s)) = s.din.size /\ s.din.size \in Nat
<1>1. s.din.size \in Nat
  BY WholeFacts DEF Valid
<1>2. ASSUME NEW k \in 1 .. s.din.size
      PROVE  At(s, (k - 1) \div BLKSIZE, (k - 1) % BLKSIZE) \in Byte
  <2> DEFINE p == k - 1
             q == p \div BLKSIZE
             m == p % BLKSIZE
  <2>1. p \in Nat /\ p < s.din.size
    BY <1>1
  <2> HIDE DEF p
  <2>2. q \in Index /\ m \in 0 .. BLKSIZE - 1
    BY <2>1, Offset, ValidExtent
  <2> HIDE DEF q, m
  <2>3. m \in Cell
    BY <2>2, Constants
  <2>4. At(s, q, m) \in Byte
    BY <2>2, <2>3, ByteTyped
  <2> QED BY <2>4 DEF q, m, p
<1>3. BytesOf(s) \in [1 .. s.din.size -> Byte]
  BY <1>2 DEF BytesOf
<1>4. BytesOf(s) \in Seq(Byte) /\ Len(BytesOf(s)) = s.din.size
  <2> DEFINE f == BytesOf(s)
             n == s.din.size
  <2> HIDE DEF f, n
  <2>1. f \in [1 .. n -> Byte] /\ n \in Nat
    BY <1>1, <1>3 DEF f, n
  <2>2. f \in Seq(Byte) /\ Len(f) = n
    BY <2>1, LengthOf
  <2> QED BY <2>2 DEF f, n
<1> QED BY <1>1, <1>3, <1>4

\* The byte at an offset.
LEMMA ByteAt ==
  ASSUME NEW s, Valid(s), NEW p \in Nat, p < s.din.size
  PROVE  BytesOf(s)[p + 1] = At(s, p \div BLKSIZE, p % BLKSIZE)
<1>1. p + 1 \in 1 .. s.din.size /\ (p + 1) - 1 = p
  BY WholeFacts DEF Valid
<1> QED BY <1>1 DEF BytesOf

LEMMA ContentIs ==
  ASSUME NEW s, Extent(s)
  PROVE  ContentOf(s) = BytesOf(s)
<1>1. s.din.size \in Nat
  BY DEF Extent
<1>2. ASSUME NEW k \in 1 .. s.din.size
      PROVE  s.data[IF (k - 1) \div BLKSIZE < NDIRECT THEN s.din.direct[(k - 1) \div BLKSIZE]
                    ELSE s.data[s.din.indirect][(k - 1) \div BLKSIZE - NDIRECT]][(k - 1) % BLKSIZE]
               = At(s, (k - 1) \div BLKSIZE, (k - 1) % BLKSIZE)
  <2> DEFINE p == k - 1
             q == p \div BLKSIZE
             m == p % BLKSIZE
             b == IF q < NDIRECT THEN s.din.direct[q] ELSE s.data[s.din.indirect][q - NDIRECT]
  <2>1. p \in Nat /\ p < s.din.size
    BY <1>1
  <2> HIDE DEF p
  <2>2. q \in Index /\ Map(s)[q] # 0
    BY <2>1, Offset
  <2> HIDE DEF q, m
  <2>3. Map(s)[q] = b
    <3>1. CASE q < NDIRECT
      <4>1. q \in 0 .. NDIRECT - 1
        BY <2>2, <3>1, Constants DEF Index
      <4> QED BY <3>1, <4>1, MapAt
    <3>2. CASE ~(q < NDIRECT)
      <4> DEFINE i == q - NDIRECT
      <4>1. i \in 0 .. NENTRY - 1 /\ NDIRECT + i = q
        BY <2>2, <3>2, Constants DEF Index
      <4> HIDE DEF i
      <4>2. Map(s)[q] = IF s.din.indirect = 0 THEN 0 ELSE s.data[s.din.indirect][i]
        BY <4>1, MapAt
      <4>3. Map(s)[q] = s.data[s.din.indirect][i]
        BY <2>2, <4>2
      <4> QED BY <3>2, <4>3 DEF i
    <3> QED BY <3>1, <3>2
  <2> HIDE DEF b
  <2>4. s.data[b][m] = At(s, q, m)
    BY <2>2, <2>3 DEF At
  <2> QED BY <2>4 DEF b, q, m, p
<1> QED BY <1>2, Zenon DEF ContentOf, BytesOf

(***************************************************************************)
(* A file whose bytes lie like those of another is the same sequence.      *)
(***************************************************************************)
LEMMA SameBytes ==
  ASSUME NEW s, Extent(s), NEW r, r.din.size = s.din.size,
         \A j \in Index, c \in 0 .. BLKSIZE - 1 :
            BLKSIZE * j + c < s.din.size => At(r, j, c) = At(s, j, c)
  PROVE  BytesOf(r) = BytesOf(s)
<1>1. ASSUME NEW k \in 1 .. s.din.size
      PROVE  At(r, (k - 1) \div BLKSIZE, (k - 1) % BLKSIZE)
               = At(s, (k - 1) \div BLKSIZE, (k - 1) % BLKSIZE)
  <2> DEFINE p == k - 1
             q == p \div BLKSIZE
             m == p % BLKSIZE
  <2>1. p \in Nat /\ p < s.din.size
    BY DEF Extent
  <2> HIDE DEF p
  <2>2. q \in Index /\ m \in 0 .. BLKSIZE - 1 /\ BLKSIZE * q + m = p
    BY <2>1, Offset
  <2> HIDE DEF q, m
  <2>3. BLKSIZE * q + m < s.din.size
    BY <2>1, <2>2
  <2>4. At(r, q, m) = At(s, q, m)
    BY <2>2, <2>3
  <2> QED BY <2>4 DEF q, m, p
<1> QED BY <1>1, Zenon DEF BytesOf

(***************************************************************************)
(* A read gives the bytes of the file.                                     *)
(***************************************************************************)
LEMMA ReadBytes ==
  ASSUME NEW s, Valid(s), NEW a \in Nat, NEW n \in Nat, n > 0, NEW r, Reads(r, s, a, n)
  PROVE  /\ a >= s.din.size => r.buf = <<>> /\ r.alen = 0
         /\ a < s.din.size =>
              /\ a + r.alen = IF a + n < s.din.size THEN a + n ELSE s.din.size
              /\ r.buf = SubSeq(BytesOf(s), a + 1, a + r.alen)
<1>1. s.din.size \in Nat /\ r.buf \in Seq(Byte) /\ r.alen \in Nat
  BY WholeFacts DEF Valid, Reads
<1>2. CASE a >= s.din.size
  <2>1. r.alen = 0 /\ r.buf = <<>>
    BY <1>2, Zenon DEF Reads
  <2>2. ~(a < s.din.size)
    BY <1>1, <1>2
  <2> QED BY <2>1, <2>2
<1>3. CASE ~(a >= s.din.size)
  <2>1. /\ a + r.alen = IF a + n > s.din.size THEN s.din.size ELSE a + n
        /\ ReadOut(r, s, a)
    <3>1. ~(n = 0 \/ a >= s.din.size)
      BY <1>3
    <3> QED BY <3>1, Zenon DEF Reads
  <2>2. a + r.alen = IF a + n < s.din.size THEN a + n ELSE s.din.size
    BY <1>1, <2>1
  <2>3. a + r.alen <= s.din.size
    BY <1>1, <2>2
  <2>4. BytesOf(s) \in Seq(Byte) /\ Len(BytesOf(s)) = s.din.size
    BY BytesTyped
  <2>5. SubSeq(BytesOf(s), a + 1, a + r.alen) = [i \in 1 .. r.alen |-> BytesOf(s)[a + i]]
    BY <1>1, <2>3, <2>4, SubSeqOf
  <2>6. Len(r.buf) = r.alen /\ r.buf = [i \in 1 .. r.alen |-> r.buf[i]]
    BY <1>1, <2>1 DEF ReadOut
  <2>7. ASSUME NEW i \in 1 .. r.alen PROVE r.buf[i] = BytesOf(s)[a + i]
    <3> DEFINE p == a + i - 1
               q == p \div BLKSIZE
               m == p % BLKSIZE
    <3>1. p \in Nat /\ p < s.din.size /\ p + 1 = a + i /\ p - a + 1 = i
          /\ a <= p /\ p < a + r.alen
      BY <1>1, <2>3
    <3> HIDE DEF p
    <3>2. BytesOf(s)[p + 1] = At(s, q, m)
      BY <3>1, ByteAt
    <3>3. q \in Index /\ m \in 0 .. BLKSIZE - 1 /\ BLKSIZE * q + m = p
      BY <3>1, Offset, ValidExtent
    <3> HIDE DEF q, m
    <3>4. r.buf[BLKSIZE * q + m - a + 1] = At(s, q, m)
      <4>1. a <= BLKSIZE * q + m /\ BLKSIZE * q + m < a + r.alen
        BY <3>1, <3>3
      <4> QED BY <2>1, <3>3, <4>1, Zenon DEF ReadOut
    <3>5. r.buf[p - a + 1] = At(s, q, m)
      <4> DEFINE u == BLKSIZE * q
      <4>1. u \in Int /\ m \in Int /\ u + m = p
        BY <3>3, Constants DEF Index
      <4> HIDE DEF u
      <4>2. u + m - a + 1 = p - a + 1
        BY <3>1, <4>1
      <4> QED BY <3>4, <4>2 DEF u
    <3> QED BY <3>1, <3>2, <3>5
  <2>8. r.buf = [i \in 1 .. r.alen |-> BytesOf(s)[a + i]]
    <3> DEFINE f == BytesOf(s)
    <3> HIDE DEF f
    <3> QED BY <2>6, <2>7, Zenon DEF f
  <2> QED BY <1>3, <2>2, <2>5, <2>8
<1> QED BY <1>2, <1>3

LEMMA FileImplies == FileInv => ReadsExact
<1> SUFFICES ASSUME FileInv, NEW a \in 0 .. MaxPos, NEW n \in 1 .. MaxRead
             PROVE  sfs_read(fs, a, n).buf =
                      IF a >= Len(Content) THEN <<>>
                      ELSE SubSeq(Content, a + 1,
                                  IF a + n < Len(Content) THEN a + n ELSE Len(Content))
  BY DEF ReadsExact
<1> DEFINE r == sfs_read(fs, a, n)
<1>1. Valid(fs) /\ fs.ret = "ok" /\ fs.alen = 0 /\ fs.buf = <<>>
  BY FileFacts
<1>2. a \in Nat /\ n \in Nat /\ n > 0
  BY SfsAssumption
<1>3. Reads(r, fs, a, n)
  <2>1. Reads(sfs_io(fs, a, n, <<>>, FALSE), fs, a, n)
    BY <1>1, <1>2, ReadEffect
  <2> QED BY <2>1, Zenon DEF sfs_read
<1> HIDE DEF r
<1>4. Content = BytesOf(fs)
  <2>1. Content = ContentOf(fs)
    BY Zenon DEF Content, BlockOf, ContentOf
  <2> QED BY <1>1, <2>1, ContentIs, ValidExtent
<1>5. Len(Content) = fs.din.size /\ fs.din.size \in Nat
  BY <1>1, <1>4, BytesTyped
<1>6. /\ a >= fs.din.size => r.buf = <<>>
      /\ a < fs.din.size =>
           /\ a + r.alen = IF a + n < fs.din.size THEN a + n ELSE fs.din.size
           /\ r.buf = SubSeq(BytesOf(fs), a + 1, a + r.alen)
  BY <1>1, <1>2, <1>3, ReadBytes
<1>7. CASE a >= fs.din.size
  BY <1>5, <1>6, <1>7 DEF r
<1>8. CASE ~(a >= fs.din.size)
  <2>1. a < fs.din.size
    BY <1>2, <1>5, <1>8
  <2> DEFINE e == IF a + n < fs.din.size THEN a + n ELSE fs.din.size
  <2>2. r.buf = SubSeq(Content, a + 1, e)
    BY <1>4, <1>6, <2>1
  <2> QED BY <1>5, <1>8, <2>2 DEF r
<1> QED BY <1>7, <1>8

(***************************************************************************)
(* At every offset and length sfs_read returns the bytes of the file that  *)
(* are there and no more.                                                  *)
(***************************************************************************)
THEOREM SfsReadsExact == Spec => []ReadsExact
<1>1. FileInv => ReadsExact
  BY FileImplies
<1> QED BY <1>1, SfsFileInvariant, PTL

----------------------------------------------------------------------------
(* SfsFile implements ByteFile.                                            *)

\* r is s with the bytes b at offset a, as far as its size goes.
Overwritten(r, s, a, b) ==
    /\ r.din.size = IF a + Len(b) > s.din.size THEN a + Len(b) ELSE s.din.size
    /\ \A j \in Index, c \in 0 .. BLKSIZE - 1 :
          BLKSIZE * j + c < r.din.size =>
             At(r, j, c) = IF a <= BLKSIZE * j + c /\ BLKSIZE * j + c < a + Len(b)
                           THEN b[BLKSIZE * j + c - a + 1] ELSE At(s, j, c)

(***************************************************************************)
(* Bytes put into the file are bytes put into the sequence.                *)
(***************************************************************************)
LEMMA OverwriteBytes ==
  ASSUME NEW s, Valid(s), NEW r, Extent(r), NEW a \in Nat, NEW b, Len(b) \in Nat,
         Overwritten(r, s, a, b)
  PROVE  BytesOf(r) = File!Overwrite(BytesOf(s), a, b)
<1> DEFINE f == BytesOf(s)
           n == Len(b)
<1>1. Len(f) = s.din.size /\ s.din.size \in Nat
  BY BytesTyped
<1>2. r.din.size \in Nat /\ r.din.size = IF a + n > s.din.size THEN a + n ELSE s.din.size
  BY DEF Extent, Overwritten
<1>3. ASSUME NEW i \in 1 .. r.din.size
      PROVE  At(r, (i - 1) \div BLKSIZE, (i - 1) % BLKSIZE) =
               IF i > a /\ i <= a + n THEN b[i - a]
               ELSE IF i <= s.din.size THEN f[i] ELSE 0
  <2> DEFINE p == i - 1
             q == p \div BLKSIZE
             m == p % BLKSIZE
             u == BLKSIZE * q
  <2>1. p \in Nat /\ p < r.din.size /\ p + 1 = i
    BY <1>2
  <2> HIDE DEF p
  <2>2. q \in Index /\ m \in 0 .. BLKSIZE - 1 /\ u + m = p
    BY <2>1, Offset
  <2>3. p < s.din.size => f[p + 1] = At(s, q, m)
    BY <2>1, ByteAt
  <2> HIDE DEF q, m, f, n
  <2>4. p >= s.din.size => At(s, q, m) = 0
    BY <2>2, Zenon DEF Valid, Zeroed
  <2>5. At(r, q, m) = IF a <= u + m /\ u + m < a + n THEN b[u + m - a + 1] ELSE At(s, q, m)
    BY <2>1, <2>2, Zenon DEF Overwritten, n
  <2> HIDE DEF u
  <2>6. u \in Int /\ m \in Int /\ n \in Nat
    BY <2>2, Constants DEF u, Index, n
  <2>7. /\ a <= u + m /\ u + m < a + n <=> i > a /\ i <= a + n
        /\ u + m - a + 1 = i - a
        /\ p < s.din.size <=> i <= s.din.size
        /\ ~(i <= s.din.size) => p >= s.din.size
    BY <1>1, <2>1, <2>2, <2>6
  <2>8. CASE i > a /\ i <= a + n
    <3>1. At(r, q, m) = b[u + m - a + 1]
      BY <2>5, <2>7, <2>8, Zenon
    <3>2. At(r, q, m) = b[i - a]
      BY <2>7, <3>1
    <3> QED BY <2>8, <3>2 DEF q, m, p
  <2>9. CASE ~(i > a /\ i <= a + n)
    <3>1. At(r, q, m) = At(s, q, m)
      BY <2>5, <2>7, <2>9, Zenon
    <3>2. At(s, q, m) = IF i <= s.din.size THEN f[i] ELSE 0
      BY <2>1, <2>3, <2>4, <2>7
    <3> QED BY <2>9, <3>1, <3>2 DEF q, m, p
  <2> QED BY <2>8, <2>9
<1> HIDE DEF f
<1>4. File!Overwrite(f, a, b) =
        [i \in 1 .. r.din.size |-> IF i > a /\ i <= a + n THEN b[i - a]
                                   ELSE IF i <= s.din.size THEN f[i] ELSE 0]
  BY <1>1, <1>2 DEF File!Overwrite
<1>5. BytesOf(r) = [i \in 1 .. r.din.size |-> IF i > a /\ i <= a + n THEN b[i - a]
                                              ELSE IF i <= s.din.size THEN f[i] ELSE 0]
  <2> HIDE DEF n
  <2> QED BY <1>3, Zenon DEF BytesOf
<1> QED BY <1>4, <1>5 DEF f

LEMMA FileStart == Init => File!Init
<1> SUFFICES ASSUME Init PROVE File!Init
  OBVIOUS
<1>1. fs.din.size = 0
  BY DEF Init
<1>2. Content = <<>>
  BY <1>1 DEF Content
<1> QED BY <1>2 DEF Init, File!Init

LEMMA ContentNow ==
  ASSUME FileInv
  PROVE  /\ Content = BytesOf(fs) /\ Len(Content) = fs.din.size /\ fs.din.size \in Nat
         /\ Extent(fs)
<1>1. Valid(fs)
  BY FileFacts
<1>2. Content = ContentOf(fs)
  BY Zenon DEF Content, BlockOf, ContentOf
<1>3. Content = BytesOf(fs)
  BY <1>1, <1>2, ContentIs, ValidExtent
<1> QED BY <1>1, <1>3, BytesTyped, ValidExtent

LEMMA ContentNext ==
  ASSUME FileInv'
  PROVE  Content' = BytesOf(fs') /\ Extent(fs')
<1>1. fs' \in Good' /\ Laid(fs')
  BY DEF FileInv, SfsInv
<1>2. fs'.din \in Inode
  BY <1>1 DEF Good, Fs
<1>3. Extent(fs')
  BY <1>1, <1>2 DEF Extent, Laid, Inode
<1>4. Content' = ContentOf(fs')
  BY Zenon DEF Content, BlockOf, ContentOf
<1> QED BY <1>3, <1>4, ContentIs

(***************************************************************************)
(* What a call leaves is the file that it has made.                        *)
(***************************************************************************)
LEMMA CallBytes ==
  ASSUME FileInv', NEW t, Return(t), t.ret \in Error
  PROVE  Content' = BytesOf(t) /\ fs'.din.size = t.din.size
<1>1. /\ fs'.din = t.din /\ \A j \in Index, c \in Cell : At(fs', j, c) = At(t, j, c)
  BY ReturnFields, Zenon DEF Returned
<1>2. Content' = BytesOf(fs') /\ Extent(fs')
  BY ContentNext
<1>3. \A c \in 0 .. BLKSIZE - 1 : c \in Cell
  BY Constants
<1>4. /\ t.din.size = fs'.din.size
      /\ \A j \in Index, c \in 0 .. BLKSIZE - 1 : At(t, j, c) = At(fs', j, c)
  BY <1>1, <1>3
<1>5. BytesOf(t) = BytesOf(fs')
  BY <1>2, <1>4, SameBytes
<1> QED BY <1>2, <1>4, <1>5

\* A call that does not change the bytes of the file.
LEMMA CallSame ==
  ASSUME FileInv, FileInv', NEW t, Return(t), t.ret \in Error, t.din.size = fs.din.size,
         \A j \in Index, c \in 0 .. BLKSIZE - 1 : At(t, j, c) = At(fs, j, c)
  PROVE  Content' = Content
<1>1. Content' = BytesOf(t)
  BY CallBytes
<1>2. Content = BytesOf(fs) /\ Extent(fs)
  BY ContentNow
<1>3. BytesOf(t) = BytesOf(fs)
  BY <1>2, SameBytes
<1> QED BY <1>1, <1>2, <1>3

\* A call in which an assertion fails.
LEMMA CallFails ==
  ASSUME FileInv, NEW t, Return(t), t.ret \notin Error, NEW h \in Handle, NEW p,
         SetPos(h, t, p)
  PROVE  UNCHANGED <<Content, pos>>
<1>1. fs' = fs
  BY DEF Return
<1>2. pos' = pos
  BY FileFacts DEF SetPos
<1>3. Content' = Content
  <2>1. Content = ContentOf(fs) /\ Content' = ContentOf(fs')
    BY Zenon DEF Content, BlockOf, ContentOf
  <2> QED BY <1>1, <2>1
<1> QED BY <1>2, <1>3

LEMMA OpenMaps ==
  ASSUME FileInv, FileInv', NEW h \in Handle, NEW trunc \in BOOLEAN, NEW append \in BOOLEAN,
         Open(h, trunc, append)
  PROVE  File!Open(h) \/ UNCHANGED <<Content, pos>>
<1> DEFINE t == IF trunc THEN sfs_truncfile(fs, 0) ELSE fs
           p == IF append THEN t.din.size ELSE 0
<1>1. pos[h] = CLOSED /\ Return(t) /\ SetPos(h, t, p)
  BY Zenon DEF Open
<1>2. CASE t.ret \notin Error
  <2> HIDE DEF t, p
  <2> QED BY <1>1, <1>2, CallFails, Zenon
<1>3. CASE t.ret \in Error
  <2>1. Valid(fs) /\ fs.ret = "ok"
    BY FileFacts
  <2>2. Content' = BytesOf(t) /\ fs'.din.size = t.din.size
    <3> HIDE DEF t, p
    <3> QED BY <1>1, <1>3, CallBytes
  <2>3. Content = BytesOf(fs)
    BY ContentNow
  <2>4. BytesOf(t) = BytesOf(fs) \/ t.din.size = 0
    <3>1. CASE trunc
      <4>1. Truncates(t, fs, 0)
        <5>1. 0 \in 0 .. MaxPos
          BY Constants DEF MaxPos
        <5> QED BY <2>1, <3>1, <5>1, TruncateEffect
      <4>2. \A c \in 0 .. BLKSIZE - 1 : c \in Cell
        BY Constants
      <4>3. Extent(fs)
        BY ContentNow
      <4> HIDE DEF t
      <4>4. CASE t = fs
        BY <4>4
      <4>5. CASE t.ret = "tblks == din->blocks"
        BY <1>3, <4>5 DEF Error
      <4>6. CASE Bytes(t, fs) /\ t.din.size = fs.din.size
        BY <4>2, <4>3, <4>6, SameBytes DEF Bytes
      <4>7. CASE Sizes(t, fs, 0)
        BY <4>7, Zenon DEF Sizes
      <4> QED BY <4>1, <4>4, <4>5, <4>6, <4>7, Zenon DEF Truncates
    <3>2. CASE ~trunc
      BY <3>2
    <3> QED BY <3>1, <3>2
  <2>5. t.din.size = 0 => BytesOf(t) = <<>>
    <3> HIDE DEF t
    <3> QED BY DEF BytesOf
  <2>6. Content' \in {Content, <<>>}
    BY <2>2, <2>3, <2>4, <2>5
  <2>7. pos' = [pos EXCEPT ![h] = p]
    BY <1>1, <1>3 DEF SetPos
  <2>8. p \in {0, Len(Content')}
    <3>1. Valid(t)
      <4>1. Outcome(t, p)
        BY OpenOutcome
      <4> HIDE DEF t, p
      <4> QED BY <1>3, <4>1 DEF Outcome
    <3>2. Len(Content') = t.din.size
      <4> HIDE DEF t
      <4> QED BY <2>2, <3>1, BytesTyped
    <3> HIDE DEF t
    <3> QED BY <3>2
  <2> HIDE DEF t, p
  <2>9. \E x \in {0, Len(Content')} : pos' = [pos EXCEPT ![h] = x]
    BY <2>7, <2>8, Zenon
  <2> QED BY <1>1, <2>6, <2>9, Zenon DEF File!Open
<1> QED BY <1>2, <1>3

LEMMA ReadMaps ==
  ASSUME FileInv, FileInv', NEW h \in Handle, NEW n \in 1 .. MaxRead, Read(h, n)
  PROVE  File!Read(h, n) \/ UNCHANGED <<Content, pos>>
<1> DEFINE t == sfs_read(fs, pos[h], n)
           a == pos[h]
           p == a + t.alen
<1>1. h \in Opened /\ pos[h] # CLOSED /\ Return(t) /\ SetPos(h, t, p)
  BY Zenon DEF Read, Opened
<1>2. n \in Nat /\ n > 0 /\ a \in Nat /\ Valid(fs) /\ pos \in [Handle -> Nat \cup {CLOSED}]
  BY <1>1, SfsAssumption, FileFacts
<1>3. Reads(t, fs, a, n)
  BY <1>1, <1>2, ReadOutcome
<1> HIDE DEF t, a
<1>4. t.ret \in Error /\ t.din.size = fs.din.size /\ Bytes(t, fs)
  BY <1>3 DEF Reads, Error
<1>5. Content' = Content
  <2>1. \A j \in Index, c \in 0 .. BLKSIZE - 1 : At(t, j, c) = At(fs, j, c)
    BY <1>4, Constants DEF Bytes
  <2> QED BY <1>1, <1>4, <2>1, CallSame
<1>6. pos' = [pos EXCEPT ![h] = p]
  BY <1>1, <1>4 DEF SetPos
<1>7. Len(Content) = fs.din.size /\ fs.din.size \in Nat
  BY ContentNow
<1>8. /\ a >= fs.din.size => t.alen = 0
      /\ a < fs.din.size => p = IF a + n < fs.din.size THEN a + n ELSE fs.din.size
  BY <1>2, <1>3, ReadBytes
<1> HIDE DEF p
<1>9. CASE a >= fs.din.size
  <2>1. p = a
    BY <1>2, <1>8, <1>9 DEF p
  <2>2. pos' = pos
    BY <1>2, <1>6, <2>1 DEF a
  <2> QED BY <1>5, <2>2
<1>10. CASE a < fs.din.size
  <2>1. pos[h] < Len(Content)
    BY <1>7, <1>10 DEF a
  <2>2. p = IF pos[h] + n < Len(Content) THEN pos[h] + n ELSE Len(Content)
    BY <1>7, <1>8, <1>10 DEF a
  <2> QED BY <1>1, <1>5, <1>6, <2>1, <2>2 DEF File!Read
<1> QED BY <1>2, <1>7, <1>9, <1>10

LEMMA WriteMaps ==
  ASSUME FileInv, FileInv', NEW h \in Handle, NEW bytes \in Writes, Write(h, bytes)
  PROVE  \/ File!Write(h, bytes)
         \/ \E x \in 0 .. MaxPos : File!Seek(h, x)
         \/ UNCHANGED <<Content, pos>>
<1> DEFINE t == sfs_write(fs, pos[h], bytes)
           a == pos[h]
           p == a + t.alen
           n == Len(bytes)
<1>1. /\ h \in Opened /\ pos[h] # CLOSED /\ Return(t) /\ SetPos(h, t, p)
      /\ a + n <= MaxPos
  BY Zenon DEF Write, Opened
<1>2. a \in Nat /\ Valid(fs) /\ pos \in [Handle -> Nat \cup {CLOSED}] /\ n \in Nat
      /\ bytes \in Seq(Nat) /\ Reached(fs, a)
  <2>1. bytes \in Seq(Nat)
    BY SfsAssumption
  <2> QED BY <1>1, <2>1, FileFacts
<1>3. t.ret \in Error => \/ n = 0 /\ t = fs
                         \/ n > 0 /\ Wrotes(t, fs, a, n, bytes)
  BY <1>1, WriteOutcome
<1> HIDE DEF t, a, n, p
<1>4. CASE t.ret \notin Error
  BY <1>1, <1>4, CallFails, Zenon
<1>5. CASE t.ret \in Error /\ n = 0 /\ t = fs
  <2>1. Content' = Content
    BY <1>1, <1>5, CallSame
  <2>2. p = a
    BY <1>2, <1>5, FileFacts DEF p
  <2>3. pos' = pos
    BY <1>1, <1>2, <1>5, <2>2 DEF SetPos, a
  <2> QED BY <2>1, <2>3
<1>6. CASE t.ret \in Error /\ n > 0 /\ Wrotes(t, fs, a, n, bytes)
  <2>1. /\ Valid(t) /\ t.alen <= n /\ Written(t, fs, a, bytes)
        /\ t.din.size = IF a + t.alen > fs.din.size THEN a + t.alen ELSE fs.din.size
    BY <1>6, Zenon DEF Wrotes
  <2>2. t.alen \in Nat /\ fs.din.size \in Nat
    BY <1>2, <2>1, WholeFacts DEF Valid
  <2> DEFINE b == SubSeq(bytes, 1, t.alen)
  <2>3. Len(b) = t.alen /\ \A i \in 1 .. t.alen : b[i] = bytes[i]
    BY <1>2, <2>1, <2>2 DEF n
  <2> HIDE DEF b
  <2>4. Overwritten(t, fs, a, b)
    <3>1. t.din.size = IF a + Len(b) > fs.din.size THEN a + Len(b) ELSE fs.din.size
      BY <2>1, <2>3
    <3>2. ASSUME NEW j \in Index, NEW c \in 0 .. BLKSIZE - 1
          PROVE  At(t, j, c) = IF a <= BLKSIZE * j + c /\ BLKSIZE * j + c < a + Len(b)
                               THEN b[BLKSIZE * j + c - a + 1] ELSE At(fs, j, c)
      <4>1. At(t, j, c) = IF a <= BLKSIZE * j + c /\ BLKSIZE * j + c < a + t.alen
                          THEN bytes[BLKSIZE * j + c - a + 1] ELSE At(fs, j, c)
        BY <2>1, Zenon DEF Written
      <4> DEFINE u == BLKSIZE * j
      <4>2. u \in Int /\ c \in Int
        BY Constants DEF Index
      <4> HIDE DEF u
      <4>3. a <= u + c /\ u + c < a + t.alen => u + c - a + 1 \in 1 .. t.alen
        BY <1>2, <2>2, <4>2
      <4>4. a <= u + c /\ u + c < a + t.alen => b[u + c - a + 1] = bytes[u + c - a + 1]
        BY <2>3, <4>3, Zenon
      <4>5. At(t, j, c) = IF a <= u + c /\ u + c < a + t.alen
                          THEN b[u + c - a + 1] ELSE At(fs, j, c)
        BY <4>1, <4>4, Zenon DEF u
      <4> QED BY <2>3, <4>5 DEF u
    <3> QED BY <3>1, <3>2, Zenon DEF Overwritten
  <2>5. Content' = BytesOf(t)
    BY <1>1, <1>6, CallBytes
  <2>6. BytesOf(t) = File!Overwrite(BytesOf(fs), a, b)
    BY <1>2, <2>1, <2>2, <2>3, <2>4, OverwriteBytes, ValidExtent
  <2>7. Content = BytesOf(fs) /\ Len(Content) = fs.din.size
    BY ContentNow
  <2>8. pos' = [pos EXCEPT ![h] = a + t.alen]
    BY <1>1, <1>6 DEF SetPos, p
  <2>9. CASE t.alen > 0
    <3>1. t.alen \in 1 .. Len(bytes)
      BY <2>1, <2>2, <2>9, <1>2 DEF n
    <3>2. Content' = File!Overwrite(Content, pos[h], SubSeq(bytes, 1, t.alen))
      BY <2>5, <2>6, <2>7 DEF a, b
    <3>3. pos' = [pos EXCEPT ![h] = @ + t.alen]
      BY <2>8 DEF a
    <3>4. \E k \in 1 .. Len(bytes) :
             /\ pos' = [pos EXCEPT ![h] = @ + k]
             /\ Content' = File!Overwrite(Content, pos[h], SubSeq(bytes, 1, k))
      BY <3>1, <3>2, <3>3
    <3> QED BY <1>1, <3>4, Zenon DEF File!Write
  <2>10. CASE t.alen = 0
    <3>1. pos' = [pos EXCEPT ![h] = a] /\ pos' = pos
      <4>1. a + t.alen = a
        BY <1>2, <2>10
      <4>2. pos' = [pos EXCEPT ![h] = a]
        BY <2>8, <4>1
      <4>3. [pos EXCEPT ![h] = pos[h]] = pos
        BY <1>2
      <4> QED BY <4>2, <4>3 DEF a
    <3>2. b = <<>>
      BY <1>2, <2>10 DEF b
    <3>3. CASE a > fs.din.size
      <4>1. Content' = File!Overwrite(Content, a, <<>>) /\ a > Len(Content)
        BY <2>5, <2>6, <2>7, <3>2, <3>3
      <4>2. a \in 0 .. MaxPos
        BY <1>2 DEF Reached
      <4>3. File!Seek(h, a)
        BY <1>1, <3>1, <4>1 DEF File!Seek
      <4> QED BY <4>2, <4>3
    <3>4. CASE ~(a > fs.din.size)
      <4>1. t.din.size = fs.din.size
        BY <1>2, <2>1, <2>2, <2>10, <3>4
      <4>2. \A j \in Index, c \in 0 .. BLKSIZE - 1 : At(t, j, c) = At(fs, j, c)
        <5> SUFFICES ASSUME NEW j \in Index, NEW c \in 0 .. BLKSIZE - 1
                     PROVE  At(t, j, c) = At(fs, j, c)
          OBVIOUS
        <5> DEFINE x == BLKSIZE * j + c
        <5>1. x \in Int
          BY Constants DEF Index
        <5> HIDE DEF x
        <5>2. ~(a <= x /\ x < a + t.alen)
          BY <1>2, <2>10, <5>1
        <5> QED BY <2>1, <5>2, Zenon DEF Written, x
      <4>3. Content' = Content
        BY <1>1, <1>6, <4>1, <4>2, CallSame
      <4> QED BY <3>1, <4>3
    <3> QED BY <3>3, <3>4
  <2> QED BY <2>2, <2>9, <2>10
<1> QED BY <1>3, <1>4, <1>5, <1>6

LEMMA SeekMaps ==
  ASSUME FileInv, FileInv', NEW h \in Handle, NEW x \in 0 .. MaxPos, Seek(h, x)
  PROVE  File!Seek(h, x) \/ UNCHANGED <<Content, pos>>
<1> DEFINE t == IF x > fs.din.size THEN sfs_truncfile(fs, x) ELSE fs
           p == IF t.ret = "ok" THEN x ELSE pos[h]
<1>1. /\ h \in Opened /\ pos[h] # CLOSED /\ Return(t) /\ SetPos(h, t, p)
  BY Zenon DEF Seek, Opened
<1>2. Valid(fs) /\ fs.ret = "ok" /\ pos \in [Handle -> Nat \cup {CLOSED}] /\ x \in Nat
  BY FileFacts
<1>3. Content = BytesOf(fs) /\ Len(Content) = fs.din.size /\ fs.din.size \in Nat
  BY ContentNow
<1>4. CASE ~(x > fs.din.size)
  <2>1. t = fs /\ p = x
    BY <1>2, <1>4
  <2> HIDE DEF t, p
  <2>2. fs.ret \in Error
    BY <1>2 DEF Error
  <2>3. Content' = Content
    BY <1>1, <2>1, <2>2, CallSame
  <2>4. pos' = [pos EXCEPT ![h] = x]
    BY <1>1, <2>1, <2>2 DEF SetPos
  <2> QED BY <1>1, <1>3, <1>4, <2>3, <2>4 DEF File!Seek
<1>5. CASE x > fs.din.size
  <2>1. Truncates(t, fs, x)
    BY <1>2, <1>5, TruncateEffect
  <2>2. x # fs.din.size
    BY <1>3, <1>5
  <2>3. p = IF t.ret = "ok" THEN x ELSE pos[h]
    OBVIOUS
  <2> HIDE DEF t, p
  <2>4. \/ t.ret = "E_NO_MEM" /\ Bytes(t, fs) /\ t.din.size = fs.din.size
        \/ Sizes(t, fs, x)
    BY <2>1, <2>2, Zenon DEF Truncates
  <2>5. CASE t.ret = "E_NO_MEM" /\ Bytes(t, fs) /\ t.din.size = fs.din.size
    <3>1. t.ret \in Error /\ p = pos[h]
      BY <2>3, <2>5 DEF Error
    <3>2. pos' = pos
      BY <1>1, <1>2, <3>1 DEF SetPos
    <3>3. \A j \in Index, c \in 0 .. BLKSIZE - 1 : At(t, j, c) = At(fs, j, c)
      BY <2>5, Constants DEF Bytes
    <3>4. Content' = Content
      BY <1>1, <2>5, <3>1, <3>3, CallSame
    <3> QED BY <3>2, <3>4
  <2>6. CASE Sizes(t, fs, x)
    <3>1. /\ t.ret = "ok" /\ Valid(t) /\ t.din.size = x
          /\ \A j \in Index, c \in 0 .. BLKSIZE - 1 :
                BLKSIZE * j + c < x => At(t, j, c) = At(fs, j, c)
      BY <2>6, Zenon DEF Sizes
    <3>2. t.ret \in Error /\ p = x
      BY <2>3, <3>1 DEF Error
    <3>3. pos' = [pos EXCEPT ![h] = x]
      BY <1>1, <3>2 DEF SetPos
    <3>4. Content' = BytesOf(t)
      BY <1>1, <3>2, CallBytes
    <3>5. Overwritten(t, fs, x, <<>>)
      <4>1. t.din.size = IF x + Len(<<>>) > fs.din.size THEN x + Len(<<>>) ELSE fs.din.size
        BY <1>2, <1>5, <3>1
      <4>2. ASSUME NEW j \in Index, NEW c \in 0 .. BLKSIZE - 1,
                   BLKSIZE * j + c < t.din.size
            PROVE  At(t, j, c) = IF x <= BLKSIZE * j + c /\ BLKSIZE * j + c < x + Len(<<>>)
                                 THEN <<>>[BLKSIZE * j + c - x + 1] ELSE At(fs, j, c)
        <5>1. At(t, j, c) = At(fs, j, c)
          BY <3>1, <4>2
        <5> DEFINE y == BLKSIZE * j + c
        <5>2. y \in Int
          BY Constants DEF Index
        <5> HIDE DEF y
        <5>3. ~(x <= y /\ y < x + Len(<<>>))
          BY <1>2, <5>2
        <5> QED BY <5>1, <5>3, Zenon DEF y
      <4> QED BY <4>1, <4>2, Zenon DEF Overwritten
    <3>6. BytesOf(t) = File!Overwrite(BytesOf(fs), x, <<>>)
      <4>1. Extent(t) /\ Len(<<>>) \in Nat
        BY <3>1, ValidExtent
      <4> QED BY <1>2, <3>5, <4>1, OverwriteBytes
    <3>7. x > Len(Content) /\ Content' = File!Overwrite(Content, x, <<>>)
      BY <1>3, <1>5, <3>4, <3>6
    <3> QED BY <1>1, <3>3, <3>7 DEF File!Seek
  <2> QED BY <2>4, <2>5, <2>6
<1> QED BY <1>4, <1>5

(***************************************************************************)
(* Writing the inode back, and dropping it, does not change the bytes.     *)
(***************************************************************************)
LEMMA SyncSame ==
  ASSUME FileInv, FileInv', fs'.data = fs.data, Map(fs') = Map(fs),
         fs'.din.size = fs.din.size
  PROVE  Content' = Content
<1>1. Content' = BytesOf(fs')
  BY ContentNext
<1>2. Content = BytesOf(fs) /\ Extent(fs)
  BY ContentNow
<1>3. \A j \in Index, c \in 0 .. BLKSIZE - 1 : At(fs', j, c) = At(fs, j, c)
  BY DEF At
<1>4. BytesOf(fs') = BytesOf(fs)
  BY <1>2, <1>3, SameBytes
<1> QED BY <1>1, <1>2, <1>4

LEMMA FsyncMaps ==
  ASSUME FileInv, FileInv', Fsync
  PROVE  UNCHANGED <<Content, pos>>
<1>1. disk_din' = sfs_fsync /\ fs' = [fs EXCEPT !.dirty = FALSE] /\ pos' = pos
  BY Zenon DEF Fsync
<1>2. SfsInv'
  BY DEF FileInv
<1>3. fs'.data = fs.data /\ Map(fs') = Map(fs) /\ fs'.din.size = fs.din.size
  BY <1>1, <1>2, SyncKeeps
<1> QED BY <1>1, <1>3, SyncSame

LEMMA CloseMaps ==
  ASSUME FileInv, FileInv', NEW h \in Handle, Close(h)
  PROVE  File!Close(h)
<1>1. pos[h] # CLOSED /\ pos' = [pos EXCEPT ![h] = CLOSED]
  BY Zenon DEF Close, Opened
<1>2. CASE Opened = {h}
  <2>1. disk_din' = sfs_fsync /\ fs' = [fs EXCEPT !.dirty = FALSE, !.din = disk_din']
    BY <1>2, Zenon DEF Close
  <2>2. Opened' = {}
    BY <1>1, <1>2, FileFacts DEF Opened
  <2>3. SfsInv'
    BY DEF FileInv
  <2>4. fs'.data = fs.data /\ Map(fs') = Map(fs) /\ fs'.din.size = fs.din.size
    BY <2>1, <2>2, <2>3, SyncKeeps
  <2>5. Content' = Content
    BY <2>4, SyncSame
  <2> QED BY <1>1, <2>5 DEF File!Close
<1>3. CASE Opened # {h}
  <2>1. fs' = fs
    BY <1>3 DEF Close
  <2>2. Content = ContentOf(fs) /\ Content' = ContentOf(fs')
    BY Zenon DEF Content, BlockOf, ContentOf
  <2>3. Content' = Content
    BY <2>1, <2>2
  <2> QED BY <1>1, <2>3 DEF File!Close
<1> QED BY <1>2, <1>3

(***************************************************************************)
(* Every step of the file is a step of the sequence of bytes, or leaves it *)
(* and the positions as they are.                                          *)
(***************************************************************************)
LEMMA FileStep ==
  ASSUME FileInv, FileInv', [Next]_vars
  PROVE  [File!Next]_(File!vars)
<1>1. CASE Fsync
  BY <1>1, FsyncMaps, Zenon DEF File!vars
<1>2. ASSUME NEW h \in Handle, Call(h)
      PROVE  File!Next \/ UNCHANGED <<Content, pos>>
  <2>1. ASSUME NEW trunc \in BOOLEAN, NEW append \in BOOLEAN, Open(h, trunc, append)
        PROVE  File!Next \/ UNCHANGED <<Content, pos>>
    BY <2>1, OpenMaps, Zenon DEF File!Next
  <2>2. ASSUME NEW n \in 1 .. MaxRead, Read(h, n)
        PROVE  File!Next \/ UNCHANGED <<Content, pos>>
    BY <2>2, ReadMaps, Zenon DEF File!Next
  <2>3. ASSUME NEW bytes \in Writes, Write(h, bytes)
        PROVE  File!Next \/ UNCHANGED <<Content, pos>>
    <3>1. \/ File!Write(h, bytes) \/ \E x \in 0 .. MaxPos : File!Seek(h, x)
          \/ UNCHANGED <<Content, pos>>
      BY <2>3, WriteMaps, Zenon
    <3> QED BY <3>1, Zenon DEF File!Next
  <2>4. ASSUME NEW x \in 0 .. MaxPos, Seek(h, x)
        PROVE  File!Next \/ UNCHANGED <<Content, pos>>
    BY <2>4, SeekMaps, Zenon DEF File!Next
  <2>5. CASE Close(h)
    BY <2>5, CloseMaps, Zenon DEF File!Next
  <2> QED BY <1>2, <2>1, <2>2, <2>3, <2>4, <2>5, Zenon DEF Call
<1>3. CASE UNCHANGED vars
  <2>1. fs' = fs /\ pos' = pos
    BY <1>3 DEF vars
  <2>2. Content = ContentOf(fs) /\ Content' = ContentOf(fs')
    BY Zenon DEF Content, BlockOf, ContentOf
  <2>3. Content' = Content
    BY <2>1, <2>2
  <2> QED BY <2>1, <2>3 DEF File!vars
<1> QED BY <1>1, <1>2, <1>3, Zenon DEF Next, File!vars

(***************************************************************************)
(* The blocks behave as one sequence of bytes, for any size of blocks and  *)
(* of block maps and any disk: a write puts its bytes at the position of   *)
(* its descriptor and nowhere else, or the first of them on a full disk, a *)
(* gap reads as 0, and a failed seek, the last close and the next open     *)
(* leave the bytes as they are.                                            *)
(***************************************************************************)
THEOREM SfsImplementsByteFile == Spec => ImplementsByteFile
<1>1. Init => File!Init
  BY FileStart
<1>2. FileInv /\ FileInv' /\ [Next]_vars => [File!Next]_(File!vars)
  BY FileStep
<1> QED BY <1>1, <1>2, SfsFileInvariant, PTL DEF Spec, ImplementsByteFile, File!Spec

=============================================================================
