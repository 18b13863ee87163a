--------------------------- MODULE FileTableProofs ---------------------------
(***************************************************************************)
(* Proofs about module FileTable, for every number of processes, files,    *)
(* directories and descriptors.                                            *)
(***************************************************************************)
EXTENDS FileTable, FiniteSetTheorems, Induction

USE FileAssumption

----------------------------------------------------------------------------
(* Inodes.                                                                 *)

\* The operators on inodes make sense for counts that went wrong, too.
Inodes == [Node -> [ref : Int, open : Int, dirty : BOOLEAN, behind : Behind]]

\* The disk lacks more of the inode than a count.
Lacks(x) == "size" \in x.behind

\* What holds of an inode in every state, and at every point of a loop.
Sound(x) == x.open >= 0 /\ x.ref >= x.open /\ (Lacks(x) => x.open > 0 /\ x.dirty)

(***************************************************************************)
(* inode_ref_inc and inode_open_inc change one count of one inode.         *)
(***************************************************************************)
LEMMA Increments ==
  ASSUME NEW I \in Inodes, NEW n \in Node
  PROVE  /\ inode_ref_inc(I, n) \in Inodes /\ inode_open_inc(I, n) \in Inodes
         /\ inode_ref_inc(I, n)[n].ref = I[n].ref + 1
         /\ inode_ref_inc(I, n)[n].open = I[n].open
         /\ inode_open_inc(I, n)[n].ref = I[n].ref
         /\ inode_open_inc(I, n)[n].open = I[n].open + 1
         /\ Sound(I[n]) => Sound(inode_ref_inc(I, n)[n])
         /\ Sound(I[n]) /\ I[n].ref > I[n].open => Sound(inode_open_inc(I, n)[n])
         /\ \A m \in Node \ {n} : inode_ref_inc(I, n)[m] = I[m] /\ inode_open_inc(I, n)[m] = I[m]
  BY DEF Inodes, inode_ref_inc, inode_open_inc, Sound, Lacks

(***************************************************************************)
(* The write-back keeps the counts; a sound inode is in step afterwards.   *)
(***************************************************************************)
LEMMA WriteBack ==
  ASSUME NEW I \in Inodes, NEW n \in Node
  PROVE  /\ sfs_fsync(I, n) \in Inodes /\ sfs_reclaim(I, n) \in Inodes
         /\ sfs_fsync(I, n)[n].ref = I[n].ref /\ sfs_fsync(I, n)[n].open = I[n].open
         /\ sfs_reclaim(I, n)[n].ref = I[n].ref /\ sfs_reclaim(I, n)[n].open = I[n].open
         /\ (Lacks(I[n]) => I[n].dirty) => ~Lacks(sfs_fsync(I, n)[n])
         /\ (Lacks(I[n]) => I[n].dirty) => ~Lacks(sfs_reclaim(I, n)[n])
         /\ \A m \in Node \ {n} : sfs_fsync(I, n)[m] = I[m]
         /\ \A m \in Node \ {n} : sfs_reclaim(I, n)[m] = I[m]
<1> DEFINE J == sfs_fsync(I, n)
<1>1. /\ J \in Inodes /\ J[n].ref = I[n].ref /\ J[n].open = I[n].open
      /\ (Lacks(I[n]) => I[n].dirty) => ~Lacks(J[n])
      /\ \A m \in Node \ {n} : J[m] = I[m]
  <2>1. {} \in Behind
    BY DEF Behind
  <2>2. CASE I[n].dirty
    <3>1. J = [I EXCEPT ![n].dirty = FALSE, ![n].behind = {}]
      BY <2>2 DEF sfs_fsync
    <3>2. J \in Inodes /\ \A m \in Node \ {n} : J[m] = I[m]
      BY <2>1, <3>1 DEF Inodes
    <3>3. J[n].ref = I[n].ref /\ J[n].open = I[n].open /\ J[n].behind = {}
      BY <3>1 DEF Inodes
    <3> QED BY <3>2, <3>3 DEF Lacks
  <2>3. CASE ~I[n].dirty
    BY <2>3 DEF sfs_fsync
  <2> QED BY <2>2, <2>3
<1> DEFINE R == [J EXCEPT ![n].dirty = FALSE]
<1> HIDE DEF J
<1>2. /\ R \in Inodes /\ R[n].ref = J[n].ref /\ R[n].open = J[n].open /\ R[n].behind = J[n].behind
      /\ \A m \in Node \ {n} : R[m] = J[m]
  BY <1>1 DEF Inodes
<1>4. Lacks(R[n]) <=> Lacks(J[n])
  BY <1>2 DEF Lacks
<1>3. R = sfs_reclaim(I, n)
  BY DEF J, sfs_reclaim
<1> QED BY <1>1, <1>2, <1>3, <1>4 DEF J

(***************************************************************************)
(* A change of din, marked or not, keeps the counts; an inode that is open *)
(* stays sound.                                                            *)
(***************************************************************************)
LEMMA DinChanges ==
  ASSUME NEW I \in Inodes, NEW n \in Node, Sound(I[n]), I[n].open > 0,
         NEW J \in {Count(I, n), Touch(I, n)}
  PROVE  /\ J \in Inodes
         /\ Sound(J[n]) /\ J[n].ref = I[n].ref /\ J[n].open = I[n].open
         /\ \A m \in Node \ {n} : J[m] = I[m]
<1>1. I[n] \in [ref : Int, open : Int, dirty : BOOLEAN, behind : Behind]
  BY DEF Inodes
<1>2. CASE J = Touch(I, n)
  <2>1. {"size", "blocks"} \in Behind
    BY DEF Behind
  <2>2. /\ J \in Inodes /\ \A m \in Node \ {n} : J[m] = I[m]
        /\ J[n].ref = I[n].ref /\ J[n].open = I[n].open /\ J[n].dirty
    BY <1>2, <2>1 DEF Touch, Inodes
  <2> QED BY <2>2 DEF Sound, Lacks
<1>3. CASE J = Count(I, n)
  <2>1. I[n].behind \cup {"blocks"} \in Behind
    BY <1>1 DEF Behind
  <2>2. /\ J \in Inodes /\ \A m \in Node \ {n} : J[m] = I[m]
        /\ J[n].ref = I[n].ref /\ J[n].open = I[n].open /\ J[n].dirty = I[n].dirty
        /\ J[n].behind = I[n].behind \cup {"blocks"}
    BY <1>3, <2>1 DEF Count, Inodes
  <2> QED BY <2>2 DEF Sound, Lacks
<1> QED BY <1>2, <1>3

(***************************************************************************)
(* inode_ref_dec for a reference that no descriptor accounts for.          *)
(***************************************************************************)
LEMMA RefDec ==
  ASSUME NEW I \in Inodes, NEW n \in Node, Sound(I[n]), I[n].ref > I[n].open
  PROVE  /\ inode_ref_dec(I, n) \in Inodes /\ Sound(inode_ref_dec(I, n)[n])
         /\ inode_ref_dec(I, n)[n].ref = I[n].ref - 1
         /\ inode_ref_dec(I, n)[n].open = I[n].open
         /\ \A m \in Node \ {n} : inode_ref_dec(I, n)[m] = I[m]
<1> DEFINE J == [I EXCEPT ![n].ref = @ - 1]
<1>1. /\ J \in Inodes /\ J[n] = [I[n] EXCEPT !.ref = @ - 1]
      /\ \A m \in Node \ {n} : J[m] = I[m]
  BY DEF Inodes
<1>2. I[n] \in [ref : Int, open : Int, dirty : BOOLEAN, behind : Behind]
  BY DEF Inodes
<1>3. /\ J[n].ref = I[n].ref - 1 /\ J[n].open = I[n].open
      /\ J[n].dirty = I[n].dirty /\ J[n].behind = I[n].behind
  BY <1>1, <1>2
<1>4. inode_ref_dec(I, n) = IF J[n].ref = 0 THEN sfs_reclaim(J, n) ELSE J
  BY DEF inode_ref_dec
<1> HIDE DEF J
<1>5. CASE J[n].ref = 0
  <2> DEFINE K == sfs_reclaim(J, n)
  <2>1. /\ K \in Inodes /\ K[n].ref = J[n].ref /\ K[n].open = J[n].open
        /\ (Lacks(J[n]) => J[n].dirty) => ~Lacks(K[n])
        /\ \A m \in Node \ {n} : K[m] = J[m]
    BY <1>1, WriteBack
  <2>2. inode_ref_dec(I, n) = K
    BY <1>4, <1>5
  <2> HIDE DEF K
  <2> QED BY <1>1, <1>2, <1>3, <1>5, <2>1, <2>2 DEF Sound, Lacks
<1>6. CASE J[n].ref # 0
  BY <1>1, <1>2, <1>3, <1>4, <1>6 DEF Sound, Lacks
<1> QED BY <1>5, <1>6

(***************************************************************************)
(* vfs_close takes one off both counts; who closes last writes back.       *)
(***************************************************************************)
LEMMA VfsClose ==
  ASSUME NEW I \in Inodes, NEW n \in Node, Sound(I[n]), I[n].open > 0
  PROVE  /\ vfs_close(I, n) \in Inodes /\ Sound(vfs_close(I, n)[n])
         /\ vfs_close(I, n)[n].ref = I[n].ref - 1
         /\ vfs_close(I, n)[n].open = I[n].open - 1
         /\ \A m \in Node \ {n} : vfs_close(I, n)[m] = I[m]
<1> DEFINE J == [I EXCEPT ![n].open = @ - 1]
           K == inode_open_dec(I, n)
<1>1. /\ J \in Inodes /\ J[n] = [I[n] EXCEPT !.open = @ - 1]
      /\ \A m \in Node \ {n} : J[m] = I[m]
  BY DEF Inodes
<1>2. I[n] \in [ref : Int, open : Int, dirty : BOOLEAN, behind : Behind]
  BY DEF Inodes
<1>3. /\ J[n].open = I[n].open - 1 /\ J[n].ref = I[n].ref
      /\ J[n].dirty = I[n].dirty /\ J[n].behind = I[n].behind
  BY <1>1, <1>2
<1>4. K = IF J[n].open = 0 THEN sfs_fsync(J, n) ELSE J
  BY DEF inode_open_dec
<1> HIDE DEF J, K
<1>5. /\ K \in Inodes /\ K[n].ref = I[n].ref /\ K[n].open = I[n].open - 1 /\ Sound(K[n])
      /\ \A m \in Node \ {n} : K[m] = I[m]
  <2>1. CASE J[n].open = 0
    <3> DEFINE L == sfs_fsync(J, n)
    <3>1. /\ L \in Inodes /\ L[n].ref = J[n].ref /\ L[n].open = J[n].open
          /\ (Lacks(J[n]) => J[n].dirty) => ~Lacks(L[n])
          /\ \A m \in Node \ {n} : L[m] = J[m]
      BY <1>1, WriteBack
    <3>2. K = L
      BY <1>4, <2>1
    <3> HIDE DEF L
    <3> QED BY <1>1, <1>2, <1>3, <2>1, <3>1, <3>2 DEF Sound, Lacks
  <2>2. CASE J[n].open # 0
    BY <1>1, <1>2, <1>3, <1>4, <2>2 DEF Sound, Lacks
  <2> QED BY <2>1, <2>2
<1>6. vfs_close(I, n) = inode_ref_dec(K, n)
  BY DEF vfs_close, K
<1>7. K[n].ref > K[n].open
  BY <1>2, <1>5 DEF Sound, Lacks
<1> QED BY <1>2, <1>5, <1>6, <1>7, RefDec

(***************************************************************************)
(* fd_array_dup adds one to both counts.                                   *)
(***************************************************************************)
LEMMA FdArrayDup ==
  ASSUME NEW I \in Inodes, NEW n \in Node
  PROVE  /\ fd_array_dup(I, n) \in Inodes
         /\ Sound(I[n]) => Sound(fd_array_dup(I, n)[n])
         /\ fd_array_dup(I, n)[n].ref = I[n].ref + 1
         /\ fd_array_dup(I, n)[n].open = I[n].open + 1
         /\ \A m \in Node \ {n} : fd_array_dup(I, n)[m] = I[m]
<1> DEFINE J == inode_ref_inc(I, n)
           K == inode_open_inc(J, n)
<1>1. /\ J \in Inodes /\ J[n].ref = I[n].ref + 1 /\ J[n].open = I[n].open
      /\ Sound(I[n]) => Sound(J[n])
      /\ \A m \in Node \ {n} : J[m] = I[m]
  BY Increments
<1>2. I[n] \in [ref : Int, open : Int, dirty : BOOLEAN, behind : Behind]
  BY DEF Inodes
<1>3. fd_array_dup(I, n) = K
  BY DEF fd_array_dup
<1> HIDE DEF J
<1>4. /\ K \in Inodes /\ K[n].ref = J[n].ref /\ K[n].open = J[n].open + 1
      /\ Sound(J[n]) /\ J[n].ref > J[n].open => Sound(K[n])
      /\ \A m \in Node \ {n} : K[m] = J[m]
  BY <1>1, Increments
<1> HIDE DEF K
<1>5. Sound(I[n]) => J[n].ref > J[n].open
  BY <1>1, <1>2 DEF Sound, Lacks
<1> QED BY <1>1, <1>2, <1>3, <1>4, <1>5
----------------------------------------------------------------------------
(* The loops over a descriptor table.                                      *)

(***************************************************************************)
(* The entries of a table are inodes where they are open.                  *)
(***************************************************************************)
LEMMA OpenedNodes ==
  ASSUME NEW F \in files_struct
  PROVE  /\ F.pwd \in Node /\ F.fd \in [Fd -> Node \cup {NULL}]
         /\ Opened(F) \subseteq Fd /\ \A i \in Opened(F) : F.fd[i] \in Node
  BY DEF files_struct, Opened, Node

(***************************************************************************)
(* The rounds of the loop of CloseEach.                                    *)
(***************************************************************************)
LEMMA CloseRounds ==
  ASSUME NEW I \in Inodes, NEW F \in files_struct, NEW fds, fds \subseteq Opened(F)
  PROVE  \E after :
            /\ after[0] = I
            /\ \A k \in 0 .. NENTRY - 1 :
                  after[k + 1] = IF k \in fds THEN vfs_close(after[k], F.fd[k]) ELSE after[k]
            /\ CloseEach(I, F, fds) = after[NENTRY]
<1> DEFINE G == [i \in 0 .. NENTRY - 1 |->
                    [J \in Inodes |-> IF i \in fds THEN vfs_close(J, F.fd[i]) ELSE J]]
           Is(f) == f = [k \in 0 .. NENTRY |->
                               IF k = 0 THEN I
                               ELSE IF k - 1 \in fds THEN vfs_close(f[k - 1], F.fd[k - 1])
                                                     ELSE f[k - 1]]
           after == CHOOSE f : Is(f)
<1>1. ASSUME NEW J \in Inodes, NEW n \in Node PROVE vfs_close(J, n) \in Inodes
  <2> DEFINE K == inode_open_dec(J, n)
             L == [K EXCEPT ![n].ref = @ - 1]
  <2>1. K \in Inodes
    <3> DEFINE M == [J EXCEPT ![n].open = @ - 1]
    <3>1. M \in Inodes
      BY DEF Inodes
    <3>2. K = IF M[n].open = 0 THEN sfs_fsync(M, n) ELSE M
      BY DEF inode_open_dec
    <3> HIDE DEF M, K
    <3> QED BY <3>1, <3>2, WriteBack
  <2>2. vfs_close(J, n) = IF L[n].ref = 0 THEN sfs_reclaim(L, n) ELSE L
    BY DEF vfs_close, inode_ref_dec
  <2> HIDE DEF K
  <2>3. L \in Inodes
    BY <2>1 DEF Inodes
  <2> HIDE DEF L
  <2> QED BY <2>2, <2>3, WriteBack
<1>2. G \in Rounds(NENTRY, Inodes)
  BY <1>1, OpenedNodes DEF Rounds
<1>3. PICK f \in [0 .. NENTRY -> Inodes] : Runs(NENTRY, I, G, f)
  <2> HIDE DEF G
  <2> QED BY <1>2, LoopExists
<1>4. Is(f)
  <2>1. ASSUME NEW k \in 0 .. NENTRY, k # 0
        PROVE  f[k] = IF k - 1 \in fds THEN vfs_close(f[k - 1], F.fd[k - 1]) ELSE f[k - 1]
    <3>1. k - 1 \in 0 .. NENTRY - 1 /\ k - 1 \in 0 .. NENTRY /\ (k - 1) + 1 = k
      BY <2>1
    <3>2. f[k - 1] \in Inodes /\ f[k] = G[k - 1][f[k - 1]]
      BY <1>3, <3>1 DEF Runs
    <3> QED BY <3>1, <3>2
  <2> HIDE DEF G
  <2> QED BY <1>3, <2>1 DEF Runs
<1>5. Is(after)
  BY <1>4
<1>6. CloseEach(I, F, fds) = after[NENTRY]
  BY DEF CloseEach
<1> HIDE DEF after
<1>7. after[0] = I
  BY <1>5
<1>8. ASSUME NEW k \in 0 .. NENTRY - 1
      PROVE  after[k + 1] = IF k \in fds THEN vfs_close(after[k], F.fd[k]) ELSE after[k]
  <2>1. k + 1 \in 0 .. NENTRY /\ k + 1 # 0 /\ (k + 1) - 1 = k
    OBVIOUS
  <2> QED BY <1>5, <2>1
<1> QED BY <1>6, <1>7, <1>8

(***************************************************************************)
(* The rounds of the loop of DupEach.                                      *)
(***************************************************************************)
LEMMA DupRounds ==
  ASSUME NEW I \in Inodes, NEW F \in files_struct
  PROVE  \E after :
            /\ after[0] = I
            /\ \A k \in 0 .. NENTRY - 1 :
                  after[k + 1] = IF k \in Opened(F) THEN fd_array_dup(after[k], F.fd[k])
                                                    ELSE after[k]
            /\ DupEach(I, F) = after[NENTRY]
<1> DEFINE G == [i \in 0 .. NENTRY - 1 |->
                    [J \in Inodes |-> IF i \in Opened(F) THEN fd_array_dup(J, F.fd[i]) ELSE J]]
           Is(f) == f = [k \in 0 .. NENTRY |->
                           IF k = 0 THEN I
                           ELSE IF k - 1 \in Opened(F)
                                THEN fd_array_dup(f[k - 1], F.fd[k - 1])
                                ELSE f[k - 1]]
           after == CHOOSE f : Is(f)
<1>1. G \in Rounds(NENTRY, Inodes)
  BY FdArrayDup, OpenedNodes DEF Rounds
<1>2. PICK f \in [0 .. NENTRY -> Inodes] : Runs(NENTRY, I, G, f)
  <2> HIDE DEF G
  <2> QED BY <1>1, LoopExists
<1>3. Is(f)
  <2>1. ASSUME NEW k \in 0 .. NENTRY, k # 0
        PROVE  f[k] = IF k - 1 \in Opened(F) THEN fd_array_dup(f[k - 1], F.fd[k - 1])
                                             ELSE f[k - 1]
    <3>1. k - 1 \in 0 .. NENTRY - 1 /\ k - 1 \in 0 .. NENTRY /\ (k - 1) + 1 = k
      BY <2>1
    <3>2. f[k - 1] \in Inodes /\ f[k] = G[k - 1][f[k - 1]]
      BY <1>2, <3>1 DEF Runs
    <3> QED BY <3>1, <3>2
  <2> HIDE DEF G
  <2> QED BY <1>2, <2>1 DEF Runs
<1>4. Is(after)
  BY <1>3
<1>5. DupEach(I, F) = after[NENTRY]
  BY DEF DupEach
<1> HIDE DEF after
<1>6. after[0] = I
  BY <1>4
<1>7. ASSUME NEW k \in 0 .. NENTRY - 1
      PROVE  after[k + 1] = IF k \in Opened(F) THEN fd_array_dup(after[k], F.fd[k])
                                               ELSE after[k]
  <2>1. k + 1 \in 0 .. NENTRY /\ k + 1 # 0 /\ (k + 1) - 1 = k
    OBVIOUS
  <2> QED BY <1>4, <2>1
<1> QED BY <1>5, <1>6, <1>7

\* The entries in fds below k that are open on n, and how many they are.
Upto(F, fds, k, n) == {i \in fds : i < k /\ F.fd[i] = n}
On(F, fds, n) == Cardinality({i \in fds : F.fd[i] = n})

(***************************************************************************)
(* Counting along the loop.                                                *)
(***************************************************************************)
LEMMA UptoGrows ==
  ASSUME NEW F, NEW fds \in SUBSET Fd
  PROVE  /\ \A k, n : Cardinality(Upto(F, fds, k, n)) \in Nat
         /\ \A n : Cardinality(Upto(F, fds, 0, n)) = 0
         /\ \A n : Cardinality(Upto(F, fds, NENTRY, n)) = On(F, fds, n)
         /\ \A k \in 0 .. NENTRY - 1 : \A n :
               /\ k \in fds /\ F.fd[k] = n =>
                     /\ Cardinality(Upto(F, fds, k + 1, n)) = Cardinality(Upto(F, fds, k, n)) + 1
                     /\ Cardinality(Upto(F, fds, k, n)) < On(F, fds, n)
               /\ ~(k \in fds /\ F.fd[k] = n) =>
                     Upto(F, fds, k + 1, n) = Upto(F, fds, k, n)
<1>0. \A i \in fds : i \in Int /\ 0 <= i /\ i < NENTRY
  BY DEF Fd
<1>1. IsFiniteSet(fds)
  <2>1. IsFiniteSet(Fd)
    <3>1. 0 \in Int /\ NENTRY - 1 \in Int
      OBVIOUS
    <3> QED BY <3>1, FS_Interval DEF Fd
  <2> QED BY <2>1, FS_Subset
<1>2. \A k, n : /\ IsFiniteSet(Upto(F, fds, k, n))
               /\ Cardinality(Upto(F, fds, k, n)) \in Nat
  <2>1. \A k, n : Upto(F, fds, k, n) \in SUBSET fds
    BY DEF Upto
  <2> QED BY <1>1, <2>1, FS_Subset, FS_CardinalityType
<1>3. \A n : /\ IsFiniteSet({i \in fds : F.fd[i] = n}) /\ On(F, fds, n) \in Nat
  <2>1. \A n : {i \in fds : F.fd[i] = n} \in SUBSET fds
    OBVIOUS
  <2> QED BY <1>1, <2>1, FS_Subset, FS_CardinalityType DEF On
<1>4. \A n : Cardinality(Upto(F, fds, 0, n)) = 0
  <2>1. \A n : Upto(F, fds, 0, n) = {}
    BY <1>0 DEF Upto
  <2> QED BY <2>1, FS_EmptySet
<1>5. \A n : Cardinality(Upto(F, fds, NENTRY, n)) = On(F, fds, n)
  <2>1. \A n : Upto(F, fds, NENTRY, n) = {i \in fds : F.fd[i] = n}
    BY <1>0 DEF Upto
  <2> QED BY <2>1 DEF On
<1>6. ASSUME NEW k \in 0 .. NENTRY - 1, NEW n, k \in fds, F.fd[k] = n
      PROVE  /\ Cardinality(Upto(F, fds, k + 1, n)) = Cardinality(Upto(F, fds, k, n)) + 1
             /\ Cardinality(Upto(F, fds, k, n)) < On(F, fds, n)
  <2>1. /\ Upto(F, fds, k + 1, n) = Upto(F, fds, k, n) \cup {k} /\ k \notin Upto(F, fds, k, n)
        /\ Upto(F, fds, k + 1, n) \subseteq {i \in fds : F.fd[i] = n}
    BY <1>0, <1>6 DEF Upto
  <2>2. Cardinality(Upto(F, fds, k + 1, n)) = Cardinality(Upto(F, fds, k, n)) + 1
    BY <1>2, <2>1, FS_AddElement
  <2>3. Cardinality(Upto(F, fds, k + 1, n)) <= On(F, fds, n)
    BY <1>3, <2>1, FS_Subset DEF On
  <2>4. Cardinality(Upto(F, fds, k, n)) \in Nat /\ On(F, fds, n) \in Nat
    BY <1>2, <1>3
  <2> QED BY <2>2, <2>3, <2>4
<1>7. ASSUME NEW k \in 0 .. NENTRY - 1, NEW n, ~(k \in fds /\ F.fd[k] = n)
      PROVE  Upto(F, fds, k + 1, n) = Upto(F, fds, k, n)
  BY <1>0, <1>7 DEF Upto
<1> QED BY <1>2, <1>4, <1>5, <1>6, <1>7

(***************************************************************************)
(* CloseEach takes the descriptors off both counts and leaves every inode  *)
(* sound, so what the last of them had changed is written back.            *)
(***************************************************************************)
LEMMA CloseEachCounts ==
  ASSUME NEW I \in Inodes, NEW F \in files_struct, NEW fds \in SUBSET Opened(F),
         \A n \in Node : Sound(I[n]) /\ On(F, fds, n) <= I[n].open
  PROVE  /\ CloseEach(I, F, fds) \in Inodes
         /\ \A n \in Node : /\ Sound(CloseEach(I, F, fds)[n])
                             /\ CloseEach(I, F, fds)[n].ref = I[n].ref - On(F, fds, n)
                             /\ CloseEach(I, F, fds)[n].open = I[n].open - On(F, fds, n)
<1>0. /\ fds \in SUBSET Fd /\ \A i \in fds : F.fd[i] \in Node
      /\ \A n \in Node : I[n].ref \in Int /\ I[n].open \in Int
  BY OpenedNodes DEF Inodes
<1>1. PICK after :
         /\ after[0] = I
         /\ \A k \in 0 .. NENTRY - 1 :
               after[k + 1] = IF k \in fds THEN vfs_close(after[k], F.fd[k]) ELSE after[k]
         /\ CloseEach(I, F, fds) = after[NENTRY]
  BY CloseRounds
<1> DEFINE C(k, n) == Cardinality(Upto(F, fds, k, n))
           Fits(J, k) == /\ J \in Inodes
                         /\ \A n \in Node : /\ Sound(J[n])
                                             /\ J[n].ref = I[n].ref - C(k, n)
                                             /\ J[n].open = I[n].open - C(k, n)
           T == {k \in 0 .. NENTRY : Fits(after[k], k)}
<1>2. /\ \A k, n : C(k, n) \in Nat
      /\ \A n : C(0, n) = 0 /\ C(NENTRY, n) = On(F, fds, n)
      /\ \A k \in 0 .. NENTRY - 1 : \A n :
            /\ k \in fds /\ F.fd[k] = n => C(k + 1, n) = C(k, n) + 1 /\ C(k, n) < On(F, fds, n)
            /\ ~(k \in fds /\ F.fd[k] = n) => C(k + 1, n) = C(k, n)
  BY <1>0, UptoGrows, Zenon
<1> HIDE DEF C
<1>3. 0 \in T
  BY <1>0, <1>1, <1>2
<1>4. ASSUME NEW k \in 0 .. NENTRY - 1, k \in T PROVE k + 1 \in T
  <2>1. k + 1 \in 0 .. NENTRY /\ Fits(after[k], k)
    BY <1>4
  <2>2. CASE k \notin fds
    BY <1>1, <1>2, <2>1, <2>2
  <2>3. CASE k \in fds
    <3>1. PICK m \in Node : m = F.fd[k]
      BY <1>0, <2>3
    <3>2. PICK J \in Inodes : J = after[k]
      BY <2>1
    <3>3. after[k + 1] = vfs_close(J, m)
      BY <1>1, <2>3, <3>1, <3>2
    <3>4. J[m].open > 0 /\ Sound(J[m]) /\ J[m].open = I[m].open - C(k, m)
          /\ J[m].ref = I[m].ref - C(k, m)
      BY <1>0, <1>2, <2>1, <2>3, <3>1, <3>2
    <3>5. /\ vfs_close(J, m) \in Inodes /\ Sound(vfs_close(J, m)[m])
          /\ vfs_close(J, m)[m].ref = J[m].ref - 1
          /\ vfs_close(J, m)[m].open = J[m].open - 1
          /\ \A n \in Node \ {m} : vfs_close(J, m)[n] = J[n]
      BY <3>4, VfsClose
    <3>6. Fits(vfs_close(J, m), k + 1)
      <4>1. ASSUME NEW n \in Node
            PROVE  /\ Sound(vfs_close(J, m)[n])
                   /\ vfs_close(J, m)[n].ref = I[n].ref - C(k + 1, n)
                   /\ vfs_close(J, m)[n].open = I[n].open - C(k + 1, n)
        <5>1. CASE n = m
          BY <1>0, <1>2, <2>3, <3>1, <3>4, <3>5, <5>1
        <5>2. CASE n # m
          <6>1. vfs_close(J, m)[n] = J[n] /\ C(k + 1, n) = C(k, n)
            BY <1>2, <3>1, <3>5, <5>2
          <6> QED BY <2>1, <3>2, <6>1
        <5> QED BY <5>1, <5>2
      <4> QED BY <3>5, <4>1
    <3> QED BY <2>1, <3>3, <3>6
  <2> QED BY <2>2, <2>3
<1>5. NENTRY \in T
  <2>1. \A k \in 0 .. NENTRY - 1 : k \in T => k + 1 \in T
    BY <1>4
  <2>2. NENTRY \in 0 .. NENTRY /\ NENTRY \in Nat
    OBVIOUS
  <2> HIDE DEF T
  <2>3. \A k \in 0 .. NENTRY : k \in T
    BY <1>3, <2>1, <2>2, LoopInduction
  <2> QED BY <2>2, <2>3
<1> QED BY <1>1, <1>2, <1>5

(***************************************************************************)
(* DupEach adds the open descriptors to both counts.                       *)
(***************************************************************************)
LEMMA DupEachCounts ==
  ASSUME NEW I \in Inodes, NEW F \in files_struct, \A n \in Node : Sound(I[n])
  PROVE  /\ DupEach(I, F) \in Inodes
         /\ \A n \in Node : /\ Sound(DupEach(I, F)[n])
                             /\ DupEach(I, F)[n].ref = I[n].ref + FdRefs(F, n)
                             /\ DupEach(I, F)[n].open = I[n].open + FdRefs(F, n)
<1> DEFINE fds == Opened(F)
<1>0. /\ fds \in SUBSET Fd /\ \A i \in fds : F.fd[i] \in Node
      /\ \A n \in Node : I[n].ref \in Int /\ I[n].open \in Int
  BY OpenedNodes DEF Inodes
<1>1. PICK after :
         /\ after[0] = I
         /\ \A k \in 0 .. NENTRY - 1 :
               after[k + 1] = IF k \in fds THEN fd_array_dup(after[k], F.fd[k]) ELSE after[k]
         /\ DupEach(I, F) = after[NENTRY]
  BY DupRounds
<1>a. \A n : On(F, fds, n) = FdRefs(F, n)
  BY DEF On, FdRefs
<1> HIDE DEF fds
<1> DEFINE C(k, n) == Cardinality(Upto(F, fds, k, n))
           Fits(J, k) == /\ J \in Inodes
                         /\ \A n \in Node : /\ Sound(J[n])
                                             /\ J[n].ref = I[n].ref + C(k, n)
                                             /\ J[n].open = I[n].open + C(k, n)
           T == {k \in 0 .. NENTRY : Fits(after[k], k)}
<1>2. /\ \A k, n : C(k, n) \in Nat
      /\ \A n : C(0, n) = 0 /\ C(NENTRY, n) = On(F, fds, n)
      /\ \A k \in 0 .. NENTRY - 1 : \A n :
            /\ k \in fds /\ F.fd[k] = n => C(k + 1, n) = C(k, n) + 1
            /\ ~(k \in fds /\ F.fd[k] = n) => C(k + 1, n) = C(k, n)
  BY <1>0, UptoGrows, Zenon
<1> HIDE DEF C
<1>3. 0 \in T
  BY <1>0, <1>1, <1>2
<1>4. ASSUME NEW k \in 0 .. NENTRY - 1, k \in T PROVE k + 1 \in T
  <2>1. k + 1 \in 0 .. NENTRY /\ Fits(after[k], k)
    BY <1>4
  <2>2. CASE k \notin fds
    BY <1>1, <1>2, <2>1, <2>2
  <2>3. CASE k \in fds
    <3>1. PICK m \in Node : m = F.fd[k]
      BY <1>0, <2>3
    <3>2. PICK J \in Inodes : J = after[k]
      BY <2>1
    <3>3. after[k + 1] = fd_array_dup(J, m)
      BY <1>1, <2>3, <3>1, <3>2
    <3>4. Sound(J[m]) /\ J[m].open = I[m].open + C(k, m) /\ J[m].ref = I[m].ref + C(k, m)
      BY <2>1, <3>2
    <3>5. /\ fd_array_dup(J, m) \in Inodes /\ Sound(fd_array_dup(J, m)[m])
          /\ fd_array_dup(J, m)[m].ref = J[m].ref + 1
          /\ fd_array_dup(J, m)[m].open = J[m].open + 1
          /\ \A n \in Node \ {m} : fd_array_dup(J, m)[n] = J[n]
      BY <3>4, FdArrayDup
    <3>6. Fits(fd_array_dup(J, m), k + 1)
      <4>1. ASSUME NEW n \in Node
            PROVE  /\ Sound(fd_array_dup(J, m)[n])
                   /\ fd_array_dup(J, m)[n].ref = I[n].ref + C(k + 1, n)
                   /\ fd_array_dup(J, m)[n].open = I[n].open + C(k + 1, n)
        <5>1. CASE n = m
          BY <1>0, <1>2, <2>3, <3>1, <3>4, <3>5, <5>1
        <5>2. CASE n # m
          <6>1. fd_array_dup(J, m)[n] = J[n] /\ C(k + 1, n) = C(k, n)
            BY <1>2, <3>1, <3>5, <5>2
          <6> QED BY <2>1, <3>2, <6>1
        <5> QED BY <5>1, <5>2
      <4> QED BY <3>5, <4>1
    <3> QED BY <2>1, <3>3, <3>6
  <2> QED BY <2>2, <2>3
<1>5. NENTRY \in T
  <2>1. \A k \in 0 .. NENTRY - 1 : k \in T => k + 1 \in T
    BY <1>4
  <2>2. NENTRY \in 0 .. NENTRY /\ NENTRY \in Nat
    OBVIOUS
  <2> HIDE DEF T
  <2>3. \A k \in 0 .. NENTRY : k \in T
    BY <1>3, <2>1, <2>2, LoopInduction
  <2> QED BY <2>2, <2>3
<1> QED BY <1>1, <1>2, <1>5, <1>a

----------------------------------------------------------------------------
(* The tables of all processes.                                            *)

\* The descriptors and the working directory that the entry F of filesp adds to
\* the references of n.
Held(F, n) == IF F = NULL THEN 0 ELSE FdRefs(F, n)
Works(F, n) == IF F = NULL THEN 0 ELSE PwdRefs(F, n)

\* The references to n that slots other than p hold.
OtherFds(p, n) == {e \in Fds(n) : e[1] # p}
OtherPwds(p, n) == Pwds(n) \ {p}

FilesType == filesp \in [Slot -> files_struct \cup {NULL}]

(***************************************************************************)
(* The references to n are those of one slot and those of the others.      *)
(***************************************************************************)
LEMMA TableSplit ==
  ASSUME FilesType, NEW p \in Slot, NEW n \in Node
  PROVE  /\ Cardinality(Fds(n)) = Cardinality(OtherFds(p, n)) + Held(filesp[p], n)
         /\ Cardinality(Pwds(n)) = Cardinality(OtherPwds(p, n)) + Works(filesp[p], n)
         /\ Cardinality(OtherFds(p, n)) \in Nat /\ Cardinality(OtherPwds(p, n)) \in Nat
         /\ Held(filesp[p], n) \in Nat /\ Works(filesp[p], n) \in {0, 1}
<1> USE DEF FilesType
<1>1. IsFiniteSet(Fd) /\ IsFiniteSet(Tables) /\ IsFiniteSet(Tables \X Fd)
  <2>1. IsFiniteSet(Fd)
    <3>1. 0 \in Int /\ NENTRY - 1 \in Int
      OBVIOUS
    <3> QED BY <3>1, FS_Interval DEF Fd
  <2>2. IsFiniteSet(Slot)
    BY FS_AddElement DEF Slot
  <2>3. Tables \in SUBSET Slot
    BY DEF Tables
  <2>4. IsFiniteSet(Tables)
    BY <2>2, <2>3, FS_Subset
  <2> QED BY <2>1, <2>4, FS_Product
<1>2. /\ IsFiniteSet(Fds(n)) /\ IsFiniteSet(Pwds(n))
      /\ IsFiniteSet(OtherFds(p, n)) /\ IsFiniteSet(OtherPwds(p, n))
  <2>1. /\ Fds(n) \in SUBSET (Tables \X Fd) /\ Pwds(n) \in SUBSET Tables
        /\ OtherFds(p, n) \in SUBSET (Tables \X Fd) /\ OtherPwds(p, n) \in SUBSET Tables
    BY DEF Fds, Pwds, OtherFds, OtherPwds
  <2> QED BY <1>1, <2>1, FS_Subset
<1>3. Cardinality(OtherFds(p, n)) \in Nat /\ Cardinality(OtherPwds(p, n)) \in Nat
  BY <1>2, FS_CardinalityType
<1>4. CASE filesp[p] = NULL
  <2>1. OtherFds(p, n) = Fds(n) /\ OtherPwds(p, n) = Pwds(n)
    BY <1>4 DEF OtherFds, OtherPwds, Fds, Pwds, Tables
  <2> QED BY <1>3, <1>4, <2>1 DEF Held, Works
<1>5. CASE filesp[p] # NULL
  <2>1. PICK F \in files_struct : F = filesp[p]
    BY <1>5
  <2>2. p \in Tables /\ F # NULL
    BY <1>5, <2>1 DEF Tables
  <2> DEFINE A == {i \in Opened(F) : F.fd[i] = n}
             B == {e \in Fds(n) : e[1] = p}
             f == [i \in A |-> <<p, i>>]
  <2>3. A \in SUBSET Fd /\ IsFiniteSet(A) /\ A = {i \in Fd : F.fd[i] = n}
    <3>1. A \in SUBSET Fd /\ A = {i \in Fd : F.fd[i] = n}
      BY DEF Opened
    <3> QED BY <1>1, <3>1, FS_Subset
  <2>4. Cardinality(B) = Cardinality(A) /\ IsFiniteSet(B)
    <3>1. f \in [A -> B]
      BY <2>1, <2>2, <2>3 DEF Fds
    <3>2. \A i, j \in A : f[i] = f[j] => i = j
      OBVIOUS
    <3>3. ASSUME NEW e \in B PROVE \E i \in A : f[i] = e
      <4>1. e \in Tables \X Fd /\ e[1] = p /\ filesp[p].fd[e[2]] = n
        BY DEF Fds
      <4>2. e[2] \in A /\ e = <<p, e[2]>>
        BY <2>1, <2>3, <4>1
      <4> QED BY <4>2
    <3> HIDE DEF f, A, B
    <3>4. f \in Bijection(A, B)
      BY <3>1, <3>2, <3>3 DEF Bijection, Injection, Surjection, IsInjective
    <3> QED BY <2>3, <3>4, FS_Bijection DEF ExistsBijection
  <2>5. Cardinality(Fds(n)) = Cardinality(OtherFds(p, n)) + Cardinality(B)
    <3>1. OtherFds(p, n) = Fds(n) \ B /\ Fds(n) \cap B = B
      BY DEF OtherFds
    <3>2. Cardinality(Fds(n) \ B) = Cardinality(Fds(n)) - Cardinality(Fds(n) \cap B)
      BY <1>2, FS_Difference
    <3>3. Cardinality(Fds(n)) \in Nat /\ Cardinality(B) \in Nat
      BY <1>2, <2>4, FS_CardinalityType
    <3> HIDE DEF B
    <3>4. Cardinality(OtherFds(p, n)) = Cardinality(Fds(n)) - Cardinality(B)
      BY <3>1, <3>2, Zenon
    <3> QED BY <3>3, <3>4
  <2>6. Held(F, n) = Cardinality(A) /\ Cardinality(A) \in Nat
    BY <2>2, <2>3, FS_CardinalityType DEF Held, FdRefs
  <2>7. Cardinality(Pwds(n)) = Cardinality(OtherPwds(p, n)) + Works(F, n)
    <3>1. Cardinality(OtherPwds(p, n)) =
             IF p \in Pwds(n) THEN Cardinality(Pwds(n)) - 1 ELSE Cardinality(Pwds(n))
      BY <1>2, FS_RemoveElement DEF OtherPwds
    <3>2. p \in Pwds(n) <=> F.pwd = n
      BY <2>1, <2>2 DEF Pwds
    <3>3. Cardinality(Pwds(n)) \in Nat
      BY <1>2, FS_CardinalityType
    <3> QED BY <2>2, <3>1, <3>2, <3>3 DEF Works, PwdRefs
  <2>8. Works(F, n) \in {0, 1}
    BY DEF Works, PwdRefs
  <2> QED BY <1>3, <2>1, <2>4, <2>5, <2>6, <2>7, <2>8
<1> QED BY <1>4, <1>5

(***************************************************************************)
(* A step that changes the table of one slot does not change what the      *)
(* others hold.                                                            *)
(***************************************************************************)
LEMMA OthersKeep ==
  ASSUME FilesType, FilesType', NEW p \in Slot, NEW n \in Node,
         \A q \in Slot \ {p} : filesp'[q] = filesp[q]
  PROVE  OtherFds(p, n)' = OtherFds(p, n) /\ OtherPwds(p, n)' = OtherPwds(p, n)
<1>1. \A q \in Slot \ {p} : q \in Tables' <=> q \in Tables
  BY DEF Tables
<1>2. OtherPwds(p, n)' = OtherPwds(p, n)
  BY <1>1 DEF OtherPwds, Pwds, Tables
<1>3. \A e : e \in OtherFds(p, n)' <=> e \in OtherFds(p, n)
  <2> SUFFICES ASSUME NEW e PROVE e \in OtherFds(p, n)' <=> e \in OtherFds(p, n)
      OBVIOUS
  <2>1. e \in OtherFds(p, n) <=> /\ e \in Tables \X Fd /\ filesp[e[1]].fd[e[2]] = n
                                 /\ e[1] # p
    BY DEF OtherFds, Fds
  <2>2. e \in OtherFds(p, n)' <=> /\ e \in Tables' \X Fd /\ filesp'[e[1]].fd[e[2]] = n
                                  /\ e[1] # p
    BY DEF OtherFds, Fds
  <2> QED BY <1>1, <2>1, <2>2 DEF Tables
<1> QED BY <1>2, <1>3

----------------------------------------------------------------------------
(* The inductive invariant.                                                *)

\* A process has a files_struct exactly while it lives; who loses an open
\* descriptor loses its reference, too.
LiveHasFiles == \A p \in Slot : state[p] = "live" <=> filesp[p] # NULL
LostSound == \A n \in Node : lost[n].open <= lost[n].ref

FileInv == TypeOK /\ RefsExact /\ Durable /\ LiveHasFiles /\ LostSound

\* The step accounts for what it changes: the counts of every inode move with
\* the table of p and the lost references, and the inodes stay sound.
Accounted(p) ==
    /\ \A q \in Slot \ {p} : filesp'[q] = filesp[q]
    /\ ino' \in Inodes
    /\ \A n \in Node :
          /\ Sound(ino'[n])
          /\ ino'[n].ref = ino[n].ref + (Held(filesp'[p], n) - Held(filesp[p], n))
                                      + (Works(filesp'[p], n) - Works(filesp[p], n))
                                      + (lost'[n].ref - lost[n].ref)
          /\ ino'[n].open = ino[n].open + (Held(filesp'[p], n) - Held(filesp[p], n))
                                        + (lost'[n].open - lost[n].open)

(***************************************************************************)
(* What the invariant says about one inode.                                *)
(***************************************************************************)
LEMMA InodeFacts ==
  ASSUME FileInv, NEW p \in Slot, NEW n \in Node
  PROVE  /\ ino \in Inodes /\ Sound(ino[n])
         /\ Held(filesp[p], n) \in Nat /\ Works(filesp[p], n) \in {0, 1}
         /\ Held(filesp[p], n) <= ino[n].open
         /\ Works(filesp[p], n) <= ino[n].ref - ino[n].open
         /\ ino[n].ref \in Nat /\ ino[n].open \in Nat
         /\ lost[n].ref \in Nat /\ lost[n].open \in Nat
<1>1. /\ FilesType /\ ino \in Inodes
      /\ ino[n].ref \in Nat /\ ino[n].open \in Nat
      /\ lost[n].ref \in Nat /\ lost[n].open \in Nat /\ lost[n].open <= lost[n].ref
      /\ Lacks(ino[n]) => ino[n].open > 0 /\ ino[n].dirty
  BY DEF FileInv, TypeOK, FilesType, Inodes, LostSound, Durable, Lacks
<1>2. /\ Cardinality(Fds(n)) = Cardinality(OtherFds(p, n)) + Held(filesp[p], n)
      /\ Cardinality(Pwds(n)) = Cardinality(OtherPwds(p, n)) + Works(filesp[p], n)
      /\ Cardinality(OtherFds(p, n)) \in Nat /\ Cardinality(OtherPwds(p, n)) \in Nat
      /\ Held(filesp[p], n) \in Nat /\ Works(filesp[p], n) \in {0, 1}
  BY <1>1, TableSplit
<1>3. /\ ino[n].ref = Cardinality(Pwds(n)) + Cardinality(Fds(n)) + lost[n].ref
                      + (IF n = root THEN 1 ELSE 0)
      /\ ino[n].open = Cardinality(Fds(n)) + lost[n].open
  BY DEF FileInv, RefsExact
<1>4. ino[n].ref >= ino[n].open
  BY <1>1, <1>2, <1>3
<1> QED BY <1>1, <1>2, <1>3, <1>4 DEF Sound, Lacks

(***************************************************************************)
(* A step that accounts for what it changes keeps RefsExact and Durable.   *)
(***************************************************************************)
LEMMA AccountedKeeps ==
  ASSUME FileInv, NEW p \in Slot, Accounted(p), FilesType',
         lost' \in [Node -> [ref : 0..MaxLost, open : 0..MaxLost]]
  PROVE  /\ RefsExact' /\ Durable'
         /\ ino' \in [Node -> [ref : Nat, open : Nat, dirty : BOOLEAN, behind : Behind]]
<1>1. ASSUME NEW n \in Node
      PROVE  /\ ino'[n].ref = Cardinality(Pwds(n)') + Cardinality(Fds(n)') + lost'[n].ref
                              + (IF n = root THEN 1 ELSE 0)
             /\ ino'[n].open = Cardinality(Fds(n)') + lost'[n].open
             /\ ino'[n].ref \in Nat /\ ino'[n].open \in Nat
             /\ ino'[n].dirty \in BOOLEAN /\ ino'[n].behind \in Behind
             /\ Lacks(ino'[n]) => ino'[n].open > 0 /\ ino'[n].dirty
  <2>1. /\ FilesType /\ lost[n].ref \in Nat /\ lost[n].open \in Nat
        /\ lost'[n].ref \in Nat /\ lost'[n].open \in Nat
    BY DEF FileInv, TypeOK, FilesType
  <2>2. /\ Cardinality(Fds(n)) = Cardinality(OtherFds(p, n)) + Held(filesp[p], n)
        /\ Cardinality(Pwds(n)) = Cardinality(OtherPwds(p, n)) + Works(filesp[p], n)
        /\ Cardinality(OtherFds(p, n)) \in Nat /\ Cardinality(OtherPwds(p, n)) \in Nat
        /\ Held(filesp[p], n) \in Nat /\ Works(filesp[p], n) \in {0, 1}
    BY <2>1, TableSplit
  <2>3. OtherFds(p, n)' = OtherFds(p, n) /\ OtherPwds(p, n)' = OtherPwds(p, n)
    BY <2>1, OthersKeep DEF Accounted
  <2>4. /\ Cardinality(Fds(n)') = Cardinality(OtherFds(p, n)') + Held(filesp'[p], n)
        /\ Cardinality(Pwds(n)') = Cardinality(OtherPwds(p, n)') + Works(filesp'[p], n)
        /\ Held(filesp'[p], n) \in Nat /\ Works(filesp'[p], n) \in {0, 1}
    <3>1. (FilesType => /\ Cardinality(Fds(n)) = Cardinality(OtherFds(p, n)) + Held(filesp[p], n)
                        /\ Cardinality(Pwds(n)) = Cardinality(OtherPwds(p, n)) + Works(filesp[p], n)
                        /\ Held(filesp[p], n) \in Nat /\ Works(filesp[p], n) \in {0, 1})'
      BY TableSplit, PTL
    <3> QED BY <3>1
  <2>5. /\ ino[n].ref = Cardinality(Pwds(n)) + Cardinality(Fds(n)) + lost[n].ref
                        + (IF n = root THEN 1 ELSE 0)
        /\ ino[n].open = Cardinality(Fds(n)) + lost[n].open
    BY DEF FileInv, RefsExact
  <2>6. /\ ino'[n].ref = ino[n].ref + (Held(filesp'[p], n) - Held(filesp[p], n))
                                    + (Works(filesp'[p], n) - Works(filesp[p], n))
                                    + (lost'[n].ref - lost[n].ref)
        /\ ino'[n].open = ino[n].open + (Held(filesp'[p], n) - Held(filesp[p], n))
                                      + (lost'[n].open - lost[n].open)
        /\ Sound(ino'[n]) /\ ino'[n].ref \in Int /\ ino'[n].open \in Int
        /\ ino'[n].dirty \in BOOLEAN /\ ino'[n].behind \in Behind
    BY DEF Accounted, Inodes
  <2>7. /\ Cardinality(OtherFds(p, n)') = Cardinality(OtherFds(p, n))
        /\ Cardinality(OtherPwds(p, n)') = Cardinality(OtherPwds(p, n))
    BY <2>3
  <2>8. /\ ino'[n].ref = Cardinality(Pwds(n)') + Cardinality(Fds(n)') + lost'[n].ref
                              + (IF n = root THEN 1 ELSE 0)
        /\ ino'[n].open = Cardinality(Fds(n)') + lost'[n].open
        /\ ino'[n].ref \in Nat /\ ino'[n].open \in Nat
    BY <2>1, <2>2, <2>4, <2>5, <2>6, <2>7 DEF Sound, Lacks
  <2> QED BY <2>6, <2>8 DEF Sound, Lacks
<1>2. RefsExact' /\ Durable'
  BY <1>1 DEF RefsExact, Durable, Lacks
<1>3. ino' \in [Node -> [ref : Nat, open : Nat, dirty : BOOLEAN, behind : Behind]]
  <2>1. ino' \in Inodes
    BY DEF Accounted
  <2> QED BY <1>1, <2>1 DEF Inodes
<1> QED BY <1>2, <1>3

----------------------------------------------------------------------------
(* What the calls do to one table.                                         *)

(***************************************************************************)
(* An entry of the table is set.                                           *)
(***************************************************************************)
LEMMA EntrySet ==
  ASSUME NEW F \in files_struct, NEW i \in Fd, NEW m \in Node \cup {NULL}
  PROVE  /\ [F EXCEPT !.fd[i] = m] \in files_struct
         /\ \A n \in Node :
               /\ Works([F EXCEPT !.fd[i] = m], n) = Works(F, n)
               /\ Held([F EXCEPT !.fd[i] = m], n) =
                     Held(F, n) - (IF F.fd[i] = n THEN 1 ELSE 0) + (IF m = n THEN 1 ELSE 0)
<1> DEFINE G == [F EXCEPT !.fd[i] = m]
           At(H, n) == {j \in Fd : H.fd[j] = n}
<1>1. /\ G \in files_struct /\ G.pwd = F.pwd /\ G.fd[i] = m
      /\ \A j \in Fd \ {i} : G.fd[j] = F.fd[j]
  BY DEF files_struct
<1>2. F # NULL /\ G # NULL
  BY <1>1
<1>3. \A H \in files_struct : \A n \in Node :
         FdRefs(H, n) = Cardinality(At(H, n)) /\ IsFiniteSet(At(H, n))
  <2> SUFFICES ASSUME NEW H \in files_struct, NEW n \in Node
               PROVE  FdRefs(H, n) = Cardinality(At(H, n)) /\ IsFiniteSet(At(H, n))
      OBVIOUS
  <2>1. {j \in Opened(H) : H.fd[j] = n} = At(H, n)
    BY DEF Opened
  <2>2. IsFiniteSet(Fd)
    <3>1. 0 \in Int /\ NENTRY - 1 \in Int
      OBVIOUS
    <3> QED BY <3>1, FS_Interval DEF Fd
  <2>3. At(H, n) \in SUBSET Fd
    OBVIOUS
  <2> QED BY <2>1, <2>2, <2>3, FS_Subset DEF FdRefs
<1> HIDE DEF G
<1>4. ASSUME NEW n \in Node
      PROVE  Cardinality(At(G, n)) =
                Cardinality(At(F, n)) - (IF F.fd[i] = n THEN 1 ELSE 0) + (IF m = n THEN 1 ELSE 0)
  <2>1. IsFiniteSet(At(F, n)) /\ IsFiniteSet(At(G, n))
        /\ Cardinality(At(F, n)) \in Nat /\ Cardinality(At(G, n)) \in Nat
    BY <1>1, <1>3, FS_CardinalityType
  <2>2. At(G, n) \ {i} = At(F, n) \ {i}
    BY <1>1
  <2>3. i \in At(G, n) <=> m = n
    BY <1>1
  <2>4. i \in At(F, n) <=> F.fd[i] = n
    OBVIOUS
  <2>5. Cardinality(At(G, n) \ {i}) =
           IF i \in At(G, n) THEN Cardinality(At(G, n)) - 1 ELSE Cardinality(At(G, n))
    BY <2>1, FS_RemoveElement
  <2>6. Cardinality(At(F, n) \ {i}) =
           IF i \in At(F, n) THEN Cardinality(At(F, n)) - 1 ELSE Cardinality(At(F, n))
    BY <2>1, FS_RemoveElement
  <2>7. Cardinality(At(G, n) \ {i}) = Cardinality(At(F, n) \ {i})
    BY <2>2
  <2> HIDE DEF At
  <2> QED BY <2>1, <2>3, <2>4, <2>5, <2>6, <2>7
<1>5. ASSUME NEW n \in Node
      PROVE  /\ Works(G, n) = Works(F, n)
             /\ Held(G, n) = Held(F, n) - (IF F.fd[i] = n THEN 1 ELSE 0)
                                        + (IF m = n THEN 1 ELSE 0)
  <2>1. Held(G, n) = Cardinality(At(G, n)) /\ Held(F, n) = Cardinality(At(F, n))
    BY <1>1, <1>2, <1>3 DEF Held
  <2>2. Works(G, n) = Works(F, n)
    BY <1>1, <1>2 DEF Works, PwdRefs
  <2> QED BY <1>4, <2>1, <2>2
<1> QED BY <1>1, <1>5 DEF G

(***************************************************************************)
(* files_closeall and Survivors: what is closed leaves the table.          *)
(***************************************************************************)
LEMMA CloseAll ==
  ASSUME NEW I \in Inodes, NEW F \in files_struct,
         \A n \in Node : Sound(I[n]) /\ Held(F, n) <= I[n].open
  PROVE  /\ Survivors(F) \in files_struct /\ files_closeall(I, F) \in Inodes
         /\ \A n \in Node :
               /\ Sound(files_closeall(I, F)[n])
               /\ Held(Survivors(F), n) \in Nat /\ Held(F, n) \in Nat
               /\ Works(Survivors(F), n) = Works(F, n)
               /\ files_closeall(I, F)[n].ref =
                     I[n].ref - (Held(F, n) - Held(Survivors(F), n))
               /\ files_closeall(I, F)[n].open =
                     I[n].open - (Held(F, n) - Held(Survivors(F), n))
<1> DEFINE G == Survivors(F)
           fds == Opened(F) \ {0, 1}
<1>1. /\ G \in files_struct /\ G.pwd = F.pwd
      /\ \A i \in Fd : G.fd[i] = IF i < 2 THEN F.fd[i] ELSE NULL
  BY DEF files_struct, Survivors
<1>2. F # NULL /\ G # NULL
  BY <1>1
<1> HIDE DEF G
<1>3. fds \in SUBSET Opened(F) /\ \A i \in Fd : i < 2 <=> i \in {0, 1}
  BY DEF Fd
<1>4. ASSUME NEW n \in Node
      PROVE  /\ FdRefs(F, n) = FdRefs(G, n) + On(F, fds, n)
             /\ FdRefs(F, n) \in Nat /\ FdRefs(G, n) \in Nat /\ On(F, fds, n) \in Nat
  <2> DEFINE A == {i \in Opened(F) : F.fd[i] = n}
             B == {i \in Opened(G) : G.fd[i] = n}
             C == {i \in fds : F.fd[i] = n}
  <2>1. A = B \cup C /\ B \cap C = {}
    BY <1>1, <1>3 DEF Opened
  <2>2. IsFiniteSet(B) /\ IsFiniteSet(C)
    <3>1. IsFiniteSet(Fd)
      <4>1. 0 \in Int /\ NENTRY - 1 \in Int
        OBVIOUS
      <4> QED BY <4>1, FS_Interval DEF Fd
    <3>2. B \in SUBSET Fd /\ C \in SUBSET Fd
      BY DEF Opened
    <3> HIDE DEF B, C
    <3> QED BY <3>1, <3>2, FS_Subset
  <2>3. FdRefs(F, n) = Cardinality(A) /\ FdRefs(G, n) = Cardinality(B)
        /\ On(F, fds, n) = Cardinality(C)
    BY DEF FdRefs, On
  <2> HIDE DEF A, B, C
  <2>4. /\ Cardinality(B \cup C) = Cardinality(B) + Cardinality(C) - Cardinality(B \cap C)
        /\ Cardinality(B \cap C) = 0
    BY <2>1, <2>2, FS_Union, FS_EmptySet
  <2>5. Cardinality(B) \in Nat /\ Cardinality(C) \in Nat
    BY <2>2, FS_CardinalityType
  <2>6. Cardinality(A) = Cardinality(B) + Cardinality(C)
    BY <2>1, <2>4, <2>5
  <2> QED BY <2>3, <2>5, <2>6
<1>5. \A n \in Node : /\ Held(F, n) = FdRefs(F, n) /\ Held(G, n) = FdRefs(G, n)
                      /\ Works(F, n) = Works(G, n)
                      /\ I[n].open \in Int /\ I[n].ref \in Int
  BY <1>1, <1>2 DEF Held, Works, PwdRefs, Inodes
<1> HIDE DEF fds
<1>6. \A n \in Node : Sound(I[n]) /\ On(F, fds, n) <= I[n].open
  BY <1>4, <1>5
<1>7. /\ CloseEach(I, F, fds) \in Inodes
      /\ \A n \in Node : /\ Sound(CloseEach(I, F, fds)[n])
                          /\ CloseEach(I, F, fds)[n].ref = I[n].ref - On(F, fds, n)
                          /\ CloseEach(I, F, fds)[n].open = I[n].open - On(F, fds, n)
  BY <1>3, <1>6, CloseEachCounts
<1>8. files_closeall(I, F) = CloseEach(I, F, fds)
  BY DEF files_closeall, fds
<1>9. ASSUME NEW n \in Node
      PROVE  /\ Sound(files_closeall(I, F)[n])
             /\ Held(G, n) \in Nat /\ Held(F, n) \in Nat
             /\ Works(G, n) = Works(F, n)
             /\ files_closeall(I, F)[n].ref = I[n].ref - (Held(F, n) - Held(G, n))
             /\ files_closeall(I, F)[n].open = I[n].open - (Held(F, n) - Held(G, n))
  BY <1>4, <1>5, <1>7, <1>8
<1> QED BY <1>1, <1>7, <1>8, <1>9 DEF G

(***************************************************************************)
(* files_destroy returns all that the table holds.                         *)
(***************************************************************************)
LEMMA Destroy ==
  ASSUME NEW I \in Inodes, NEW F \in files_struct,
         \A n \in Node : /\ Sound(I[n]) /\ Held(F, n) <= I[n].open
                         /\ Works(F, n) <= I[n].ref - I[n].open
  PROVE  /\ files_destroy(I, F) \in Inodes
         /\ \A n \in Node :
               /\ Sound(files_destroy(I, F)[n])
               /\ files_destroy(I, F)[n].ref = I[n].ref - Held(F, n) - Works(F, n)
               /\ files_destroy(I, F)[n].open = I[n].open - Held(F, n)
<1>0. /\ F.pwd \in Node /\ F # NULL
      /\ \A n \in Node : I[n].open \in Int /\ I[n].ref \in Int
      /\ \A n \in Node : Works(F, n) = IF F.pwd = n THEN 1 ELSE 0
      /\ \A n : Held(F, n) = On(F, Opened(F), n)
  BY OpenedNodes DEF Inodes, Works, PwdRefs, Held, FdRefs, On
<1> DEFINE d == F.pwd
           J == inode_ref_dec(I, d)
<1>1. I[d].ref > I[d].open /\ Sound(I[d])
  BY <1>0
<1>2. /\ J \in Inodes /\ Sound(J[d]) /\ J[d].ref = I[d].ref - 1 /\ J[d].open = I[d].open
      /\ \A m \in Node \ {d} : J[m] = I[m]
  BY <1>0, <1>1, RefDec
<1>3. files_destroy(I, F) = CloseEach(J, F, Opened(F))
  BY DEF files_destroy
<1> HIDE DEF J
<1>4. \A n \in Node : /\ Sound(J[n]) /\ J[n].open = I[n].open
                      /\ J[n].ref = I[n].ref - Works(F, n)
  BY <1>0, <1>2
<1>5. \A n \in Node : Sound(J[n]) /\ On(F, Opened(F), n) <= J[n].open
  BY <1>0, <1>4
<1>6. Opened(F) \in SUBSET Opened(F)
  OBVIOUS
<1>7. /\ CloseEach(J, F, Opened(F)) \in Inodes
      /\ \A n \in Node : /\ Sound(CloseEach(J, F, Opened(F))[n])
                          /\ CloseEach(J, F, Opened(F))[n].ref = J[n].ref - On(F, Opened(F), n)
                          /\ CloseEach(J, F, Opened(F))[n].open = J[n].open - On(F, Opened(F), n)
  BY <1>2, <1>5, <1>6, CloseEachCounts
<1>8. \A n : On(F, Opened(F), n) \in Nat
  <2>1. Opened(F) \in SUBSET Fd
    BY OpenedNodes
  <2>2. \A n : /\ Cardinality(Upto(F, Opened(F), NENTRY, n)) \in Nat
              /\ Cardinality(Upto(F, Opened(F), NENTRY, n)) = On(F, Opened(F), n)
    BY <2>1, UptoGrows
  <2> QED BY <2>2
<1>9. ASSUME NEW n \in Node
      PROVE  /\ Sound(files_destroy(I, F)[n])
             /\ files_destroy(I, F)[n].ref = I[n].ref - Held(F, n) - Works(F, n)
             /\ files_destroy(I, F)[n].open = I[n].open - Held(F, n)
  <2>1. Works(F, n) \in Int
    BY <1>0
  <2> QED BY <1>0, <1>3, <1>4, <1>7, <1>8, <2>1
<1> QED BY <1>3, <1>7, <1>9

----------------------------------------------------------------------------
(* The steps.                                                              *)

(***************************************************************************)
(* A call that accounts for what it changes and leaves the process alive   *)
(* keeps the invariant.                                                    *)
(***************************************************************************)
LEMMA CallKeeps ==
  ASSUME FileInv, NEW p \in Slot, state[p] = "live", Accounted(p),
         FilesType', filesp'[p] # NULL, state' = state, mm' \in [Slot -> BOOLEAN],
         lost' \in [Node -> [ref : 0..MaxLost, open : 0..MaxLost]], LostSound'
  PROVE  FileInv'
<1>1. /\ RefsExact' /\ Durable'
      /\ ino' \in [Node -> [ref : Nat, open : Nat, dirty : BOOLEAN, behind : Behind]]
  BY AccountedKeeps
<1>2. LiveHasFiles'
  BY DEF FileInv, LiveHasFiles, Accounted
<1>3. TypeOK'
  BY <1>1 DEF FileInv, TypeOK, FilesType
<1> QED BY <1>1, <1>2, <1>3 DEF FileInv

(***************************************************************************)
(* The same for a call that leaves the tables and the counts alone.        *)
(***************************************************************************)
LEMMA QuietCall ==
  ASSUME FileInv, NEW p \in Slot, state[p] = "live", UNCHANGED <<state, mm, filesp, lost>>,
         ino' \in Inodes,
         \A n \in Node : /\ Sound(ino'[n])
                         /\ ino'[n].ref = ino[n].ref /\ ino'[n].open = ino[n].open
  PROVE  FileInv'
<1>1. Accounted(p)
  <2>1. ASSUME NEW n \in Node
        PROVE  /\ ino'[n].ref = ino[n].ref + (Held(filesp'[p], n) - Held(filesp[p], n))
                                           + (Works(filesp'[p], n) - Works(filesp[p], n))
                                           + (lost'[n].ref - lost[n].ref)
               /\ ino'[n].open = ino[n].open + (Held(filesp'[p], n) - Held(filesp[p], n))
                                             + (lost'[n].open - lost[n].open)
    <3>1. /\ Held(filesp[p], n) \in Nat /\ Works(filesp[p], n) \in {0, 1}
          /\ ino[n].ref \in Nat /\ ino[n].open \in Nat
          /\ lost[n].ref \in Nat /\ lost[n].open \in Nat
      BY InodeFacts
    <3>2. filesp' = filesp /\ lost' = lost
      OBVIOUS
    <3> QED BY <3>1, <3>2
  <2> QED BY <2>1 DEF Accounted
<1>2. /\ FilesType' /\ filesp'[p] # NULL /\ mm' \in [Slot -> BOOLEAN] /\ LostSound'
      /\ lost' \in [Node -> [ref : 0..MaxLost, open : 0..MaxLost]]
  BY DEF FileInv, TypeOK, FilesType, LiveHasFiles, LostSound
<1> QED BY <1>1, <1>2, CallKeeps

(***************************************************************************)
(* The same for a call that sets an entry of the table.                    *)
(***************************************************************************)
LEMMA EntryCall ==
  ASSUME FileInv, NEW p \in Slot, state[p] = "live", UNCHANGED <<state, mm, lost>>,
         NEW i \in Fd, NEW m \in Node \cup {NULL}, SetFd(p, i, m), ino' \in Inodes,
         \A n \in Node :
            /\ Sound(ino'[n])
            /\ ino'[n].ref = ino[n].ref - (IF filesp[p].fd[i] = n THEN 1 ELSE 0)
                                        + (IF m = n THEN 1 ELSE 0)
            /\ ino'[n].open = ino[n].open - (IF filesp[p].fd[i] = n THEN 1 ELSE 0)
                                          + (IF m = n THEN 1 ELSE 0)
  PROVE  FileInv'
<1>1. PICK F \in files_struct : F = filesp[p]
  BY DEF FileInv, TypeOK, LiveHasFiles
<1>2. /\ filesp' = [filesp EXCEPT ![p] = [F EXCEPT !.fd[i] = m]]
      /\ [F EXCEPT !.fd[i] = m] \in files_struct
  BY <1>1, EntrySet DEF SetFd
<1>3. PICK G \in files_struct : G = [F EXCEPT !.fd[i] = m]
  BY <1>2
<1>4. ASSUME NEW n \in Node
      PROVE  /\ Works(G, n) = Works(F, n)
             /\ Held(G, n) = Held(F, n) - (IF F.fd[i] = n THEN 1 ELSE 0)
                                        + (IF m = n THEN 1 ELSE 0)
  <2>1. \A k \in Node :
           /\ Works([F EXCEPT !.fd[i] = m], k) = Works(F, k)
           /\ Held([F EXCEPT !.fd[i] = m], k) =
                 Held(F, k) - (IF F.fd[i] = k THEN 1 ELSE 0) + (IF m = k THEN 1 ELSE 0)
    BY EntrySet
  <2> QED BY <1>3, <2>1, Zenon
<1>5. filesp \in [Slot -> files_struct \cup {NULL}]
  BY DEF FileInv, TypeOK
<1>6. /\ filesp'[p] = G /\ G # NULL /\ \A q \in Slot \ {p} : filesp'[q] = filesp[q]
      /\ filesp' \in [Slot -> files_struct \cup {NULL}]
  BY <1>2, <1>3, <1>5
<1>7. Accounted(p)
  <2>1. ASSUME NEW n \in Node
        PROVE  /\ ino'[n].ref = ino[n].ref + (Held(filesp'[p], n) - Held(filesp[p], n))
                                           + (Works(filesp'[p], n) - Works(filesp[p], n))
                                           + (lost'[n].ref - lost[n].ref)
               /\ ino'[n].open = ino[n].open + (Held(filesp'[p], n) - Held(filesp[p], n))
                                             + (lost'[n].open - lost[n].open)
    <3>1. /\ Held(F, n) \in Nat /\ Works(F, n) \in {0, 1}
          /\ ino[n].ref \in Nat /\ ino[n].open \in Nat
          /\ lost[n].ref \in Nat /\ lost[n].open \in Nat
      BY <1>1, InodeFacts
    <3>2. lost' = lost
      OBVIOUS
    <3> QED BY <1>1, <1>4, <1>6, <3>1, <3>2
  <2> QED BY <1>6, <2>1 DEF Accounted
<1>8. /\ FilesType' /\ filesp'[p] # NULL /\ mm' \in [Slot -> BOOLEAN] /\ LostSound'
      /\ lost' \in [Node -> [ref : 0..MaxLost, open : 0..MaxLost]]
  BY <1>6 DEF FileInv, TypeOK, FilesType, LostSound
<1> QED BY <1>7, <1>8, CallKeeps

(***************************************************************************)
(* A table holds a number of descriptors, and an open one is among them.   *)
(***************************************************************************)
LEMMA OpenedIsHeld ==
  ASSUME NEW F \in files_struct, NEW n \in Node
  PROVE  /\ Held(F, n) \in Nat
         /\ \A i \in Opened(F) : F.fd[i] = n => Held(F, n) > 0
<1> DEFINE A == {i \in Opened(F) : F.fd[i] = n}
<1>1. IsFiniteSet(Fd)
  <2>1. 0 \in Int /\ NENTRY - 1 \in Int
    OBVIOUS
  <2> QED BY <2>1, FS_Interval DEF Fd
<1>2. A \in SUBSET Fd
  BY DEF Opened
<1>3. IsFiniteSet(A) /\ Cardinality(A) \in Nat
  BY <1>1, <1>2, FS_Subset, FS_CardinalityType
<1>4. Held(F, n) = Cardinality(A)
  BY DEF Held, FdRefs
<1>5. A # {} => Cardinality(A) > 0
  BY <1>3, FS_EmptySet
<1> QED BY <1>3, <1>4, <1>5

(***************************************************************************)
(* OpenExists moves one reference to the lost ones.                        *)
(***************************************************************************)
LEMMA OpenExistsKeeps ==
  ASSUME FileInv, NEW p \in Slot, NEW n \in Node, OpenExists(p, n)
  PROVE  FileInv'
<1>1. /\ state[p] = "live" /\ UNCHANGED <<state, mm, filesp>> /\ lost[n].ref < MaxLost
      /\ ino' = inode_ref_inc(ino, n) /\ lost' = [lost EXCEPT ![n].ref = @ + 1]
  BY DEF OpenExists, User, vfs_lookup
<1>2. /\ ino \in Inodes
      /\ \A m \in Node : /\ Sound(ino[m]) /\ ino[m].ref \in Nat /\ ino[m].open \in Nat
                          /\ Held(filesp[p], m) \in Nat /\ Works(filesp[p], m) \in {0, 1}
                          /\ lost[m].ref \in Nat /\ lost[m].open \in Nat
  BY InodeFacts, Zenon DEF FileInv, TypeOK
<1>3. lost \in [Node -> [ref : 0..MaxLost, open : 0..MaxLost]]
  BY DEF FileInv, TypeOK
<1>4. /\ lost' \in [Node -> [ref : 0..MaxLost, open : 0..MaxLost]]
      /\ lost'[n].ref = lost[n].ref + 1 /\ lost'[n].open = lost[n].open
      /\ \A m \in Node \ {n} : lost'[m] = lost[m]
  BY <1>1, <1>3
<1>5. /\ ino' \in Inodes /\ Sound(ino'[n])
      /\ ino'[n].ref = ino[n].ref + 1 /\ ino'[n].open = ino[n].open
      /\ \A m \in Node \ {n} : ino'[m] = ino[m]
  BY <1>1, <1>2, Increments
<1>6. Accounted(p)
  <2>1. filesp' = filesp
    BY <1>1
  <2>2. ASSUME NEW m \in Node
        PROVE  /\ Sound(ino'[m])
               /\ ino'[m].ref = ino[m].ref + (Held(filesp'[p], m) - Held(filesp[p], m))
                                           + (Works(filesp'[p], m) - Works(filesp[p], m))
                                           + (lost'[m].ref - lost[m].ref)
               /\ ino'[m].open = ino[m].open + (Held(filesp'[p], m) - Held(filesp[p], m))
                                             + (lost'[m].open - lost[m].open)
    <3>1. CASE m = n
      BY <1>2, <1>4, <1>5, <2>1, <3>1
    <3>2. CASE m # n
      <4>1. ino'[m] = ino[m] /\ lost'[m] = lost[m]
        BY <1>4, <1>5, <3>2
      <4> QED BY <1>2, <2>1, <4>1
    <3> QED BY <3>1, <3>2
  <2> QED BY <1>5, <2>1, <2>2 DEF Accounted
<1>7. LostSound'
  <2>1. \A m \in Node : lost[m].open <= lost[m].ref
    BY DEF FileInv, LostSound
  <2> QED BY <1>2, <1>4, <2>1 DEF LostSound
<1>8. FilesType' /\ filesp'[p] # NULL /\ mm' \in [Slot -> BOOLEAN]
  BY <1>1 DEF FileInv, TypeOK, FilesType, LiveHasFiles
<1> QED BY <1>1, <1>4, <1>6, <1>7, <1>8, CallKeeps

(***************************************************************************)
(* vfs_chdir moves the reference of the working directory.                 *)
(***************************************************************************)
LEMMA ChdirKeeps ==
  ASSUME FileInv, NEW p \in Slot, NEW n \in Node, Chdir(p, n)
  PROVE  FileInv'
<1>1. PICK F \in files_struct : F = filesp[p]
  BY DEF Chdir, User, FileInv, TypeOK, LiveHasFiles
<1>2. PICK old \in Node : old = F.pwd
  BY <1>1, OpenedNodes
<1> DEFINE I == vfs_lookup(ino, n)
           moves == n \in Dir /\ n # old
           K == inode_ref_dec(inode_ref_inc(I, n), old)
           J == IF moves THEN K ELSE I
<1>3. /\ state[p] = "live" /\ UNCHANGED <<state, mm, lost>> /\ ino' = inode_ref_dec(J, n)
      /\ filesp' = IF n \in Dir THEN [filesp EXCEPT ![p].pwd = n] ELSE filesp
  BY <1>1, <1>2 DEF Chdir, User
<1>4. /\ ino \in Inodes
      /\ \A m \in Node : /\ Sound(ino[m]) /\ ino[m].ref \in Nat /\ ino[m].open \in Nat
                          /\ Held(F, m) \in Nat /\ Works(F, m) \in {0, 1}
                          /\ Works(F, m) <= ino[m].ref - ino[m].open
                          /\ lost[m].ref \in Nat /\ lost[m].open \in Nat
  BY <1>1, InodeFacts, Zenon DEF FileInv, TypeOK
<1>5. F # NULL /\ Works(F, old) = 1
  BY <1>2 DEF Works, PwdRefs
<1>6. /\ I \in Inodes /\ Sound(I[n]) /\ I[n].ref = ino[n].ref + 1 /\ I[n].open = ino[n].open
      /\ \A m \in Node \ {n} : I[m] = ino[m]
  BY <1>4, Increments DEF vfs_lookup
<1>7. ino[n].ref >= ino[n].open
  BY <1>4 DEF Sound, Lacks
<1> HIDE DEF I, K
<1>8. /\ J \in Inodes /\ Sound(J[n]) /\ J[n].ref > J[n].open
      /\ J[n].open = ino[n].open
      /\ J[n].ref = ino[n].ref + 1 + (IF moves THEN 1 ELSE 0)
      /\ \A m \in Node \ {n} : /\ Sound(J[m]) /\ J[m].open = ino[m].open
                                /\ J[m].ref = ino[m].ref - (IF moves /\ m = old THEN 1 ELSE 0)
  <2>1. CASE ~moves
    BY <1>4, <1>6, <1>7, <2>1
  <2>2. CASE moves
    <3> DEFINE L == inode_ref_inc(I, n)
    <3>1. /\ L \in Inodes /\ Sound(L[n]) /\ L[n].ref = I[n].ref + 1 /\ L[n].open = I[n].open
          /\ \A m \in Node \ {n} : L[m] = I[m]
      BY <1>6, Increments
    <3> HIDE DEF L
    <3>2. L[old] = ino[old] /\ Sound(L[old]) /\ L[old].ref > L[old].open
      BY <1>4, <1>5, <1>6, <2>2, <3>1
    <3>3. K = inode_ref_dec(L, old)
      BY DEF K, L
    <3>4. /\ K \in Inodes /\ Sound(K[old]) /\ K[old].ref = L[old].ref - 1
          /\ K[old].open = L[old].open /\ \A m \in Node \ {old} : K[m] = L[m]
      BY <3>1, <3>2, <3>3, RefDec
    <3>5. J = K /\ n # old
      BY <2>2
    <3> QED BY <1>4, <1>6, <1>7, <2>2, <3>1, <3>2, <3>4, <3>5
  <2> QED BY <2>1, <2>2
<1> HIDE DEF J
<1>9. /\ ino' \in Inodes
      /\ \A m \in Node : /\ Sound(ino'[m]) /\ ino'[m].open = ino[m].open
                          /\ ino'[m].ref = ino[m].ref + (IF moves /\ m = n THEN 1 ELSE 0)
                                                      - (IF moves /\ m = old THEN 1 ELSE 0)
  <2>1. /\ inode_ref_dec(J, n) \in Inodes /\ Sound(inode_ref_dec(J, n)[n])
        /\ inode_ref_dec(J, n)[n].ref = J[n].ref - 1
        /\ inode_ref_dec(J, n)[n].open = J[n].open
        /\ \A m \in Node \ {n} : inode_ref_dec(J, n)[m] = J[m]
    BY <1>8, RefDec
  <2>2. moves => n # old
    OBVIOUS
  <2> HIDE DEF moves
  <2> QED BY <1>3, <1>4, <1>8, <2>1, <2>2
<1>10. PICK G \in files_struct : G = IF n \in Dir THEN [F EXCEPT !.pwd = n] ELSE F
  BY DEF files_struct
<1>11. /\ G # NULL /\ G.fd = F.fd /\ G.pwd = IF n \in Dir THEN n ELSE old
  BY <1>2, <1>10 DEF files_struct
<1>12. \A m \in Node : /\ Held(G, m) = Held(F, m)
                        /\ Works(G, m) = Works(F, m) + (IF moves /\ m = n THEN 1 ELSE 0)
                                                    - (IF moves /\ m = old THEN 1 ELSE 0)
  <2>1. ASSUME NEW m \in Node PROVE Held(G, m) = Held(F, m)
    <3>1. {i \in Opened(G) : G.fd[i] = m} = {i \in Opened(F) : F.fd[i] = m}
      BY <1>11 DEF Opened
    <3> QED BY <1>5, <1>11, <3>1 DEF Held, FdRefs
  <2>2. ASSUME NEW m \in Node
        PROVE  Works(G, m) = Works(F, m) + (IF moves /\ m = n THEN 1 ELSE 0)
                                         - (IF moves /\ m = old THEN 1 ELSE 0)
    BY <1>2, <1>5, <1>11 DEF Works, PwdRefs
  <2> QED BY <2>1, <2>2
<1>13. filesp \in [Slot -> files_struct \cup {NULL}]
  BY DEF FileInv, TypeOK
<1>14. /\ filesp'[p] = G /\ \A q \in Slot \ {p} : filesp'[q] = filesp[q]
       /\ filesp' \in [Slot -> files_struct \cup {NULL}]
  BY <1>1, <1>3, <1>10, <1>13
<1> HIDE DEF moves
<1>15. Accounted(p)
  <2>1. ASSUME NEW m \in Node
        PROVE  /\ ino'[m].ref = ino[m].ref + (Held(filesp'[p], m) - Held(filesp[p], m))
                                           + (Works(filesp'[p], m) - Works(filesp[p], m))
                                           + (lost'[m].ref - lost[m].ref)
               /\ ino'[m].open = ino[m].open + (Held(filesp'[p], m) - Held(filesp[p], m))
                                             + (lost'[m].open - lost[m].open)
    <3>1. lost' = lost
      BY <1>3
    <3> QED BY <1>1, <1>4, <1>9, <1>12, <1>14, <3>1
  <2> QED BY <1>9, <1>14, <2>1 DEF Accounted
<1>16. /\ FilesType' /\ filesp'[p] # NULL /\ mm' \in [Slot -> BOOLEAN] /\ LostSound'
       /\ lost' \in [Node -> [ref : 0..MaxLost, open : 0..MaxLost]]
  BY <1>3, <1>11, <1>14 DEF FileInv, TypeOK, FilesType, LostSound
<1> QED BY <1>3, <1>15, <1>16, CallKeeps

(***************************************************************************)
(* The file calls keep the invariant.                                      *)
(***************************************************************************)
LEMMA FileCallKeeps ==
  ASSUME FileInv, NEW p \in Slot, FileCall(p)
  PROVE  FileInv'
<1>0. /\ ino \in Inodes /\ filesp \in [Slot -> files_struct \cup {NULL}]
      /\ \A n \in Node : /\ Sound(ino[n]) /\ ino[n].ref \in Nat /\ ino[n].open \in Nat
                          /\ Held(filesp[p], n) <= ino[n].open
                          /\ Works(filesp[p], n) <= ino[n].ref - ino[n].open
  <2>1. ino \in Inodes /\ filesp \in [Slot -> files_struct \cup {NULL}]
    BY DEF FileInv, TypeOK, Inodes
  <2> QED BY <2>1, InodeFacts
<1>1. ASSUME NEW n \in Node, NEW truncate \in BOOLEAN, Open(p, n, truncate) PROVE FileInv'
  <2> DEFINE I == inode_open_inc(vfs_lookup(ino, n), n)
  <2>1. I = fd_array_dup(ino, n)
    BY DEF vfs_lookup, fd_array_dup
  <2> HIDE DEF I
  <2>2. /\ I \in Inodes /\ Sound(I[n]) /\ I[n].ref = ino[n].ref + 1 /\ I[n].open = ino[n].open + 1
        /\ \A m \in Node \ {n} : I[m] = ino[m]
    BY <1>0, <2>1, FdArrayDup
  <2>3. /\ ino' \in Inodes
        /\ \A m \in Node : Sound(ino'[m]) /\ ino'[m].ref = I[m].ref /\ ino'[m].open = I[m].open
    <3>1. ino' = I \/ ino' = Touch(I, n)
      BY <1>1 DEF Open, I
    <3>2. \A m \in Node : Sound(I[m])
      BY <1>0, <2>2
    <3>3. CASE ino' = I
      BY <2>2, <3>2, <3>3
    <3>4. CASE ino' = Touch(I, n)
      <4>1. I[n].open > 0
        BY <1>0, <2>2
      <4>2. /\ ino' \in Inodes
            /\ Sound(ino'[n]) /\ ino'[n].ref = I[n].ref /\ ino'[n].open = I[n].open
            /\ \A m \in Node \ {n} : ino'[m] = I[m]
        BY <2>2, <3>4, <4>1, DinChanges
      <4> QED BY <3>2, <4>2
    <3> QED BY <3>1, <3>3, <3>4
  <2>4. PICK i \in Fd : fd_array_alloc(filesp[p], i) /\ SetFd(p, i, n)
    BY <1>1 DEF Open
  <2>5. /\ state[p] = "live" /\ UNCHANGED <<state, mm, lost>>
        /\ filesp[p].fd[i] = NULL
    BY <1>1, <2>4 DEF Open, User, fd_array_alloc, FreeFd, Opened
  <2>6. \A m \in Node :
           /\ Sound(ino'[m])
           /\ ino'[m].ref = ino[m].ref - (IF filesp[p].fd[i] = m THEN 1 ELSE 0)
                                       + (IF n = m THEN 1 ELSE 0)
           /\ ino'[m].open = ino[m].open - (IF filesp[p].fd[i] = m THEN 1 ELSE 0)
                                         + (IF n = m THEN 1 ELSE 0)
    BY <1>0, <2>2, <2>3, <2>5
  <2> QED BY <2>3, <2>4, <2>5, <2>6, EntryCall
<1>2. ASSUME NEW n \in Node, OpenIsDir(p, n) PROVE FileInv'
  <2> DEFINE I == vfs_lookup(ino, n)
             J == inode_ref_dec(I, n)
  <2>1. /\ state[p] = "live" /\ UNCHANGED <<state, mm, filesp, lost>> /\ ino' = J
    BY <1>2 DEF OpenIsDir, User
  <2>2. /\ I \in Inodes /\ Sound(I[n]) /\ I[n].ref = ino[n].ref + 1 /\ I[n].open = ino[n].open
        /\ \A m \in Node \ {n} : I[m] = ino[m]
    BY <1>0, Increments DEF vfs_lookup
  <2> HIDE DEF I
  <2>3. I[n].ref > I[n].open
    BY <1>0, <2>2 DEF Sound, Lacks
  <2>4. /\ J \in Inodes /\ Sound(J[n]) /\ J[n].ref = I[n].ref - 1 /\ J[n].open = I[n].open
        /\ \A m \in Node \ {n} : J[m] = I[m]
    BY <2>2, <2>3, RefDec
  <2> HIDE DEF J
  <2>5. \A m \in Node : Sound(J[m]) /\ J[m].ref = ino[m].ref /\ J[m].open = ino[m].open
    BY <1>0, <2>2, <2>4
  <2> QED BY <2>1, <2>4, <2>5, QuietCall
<1>3. ASSUME NEW i \in Fd, Close(p, i) PROVE FileInv'
  <2>1. PICK F \in files_struct : F = filesp[p]
    BY <1>3 DEF Close, User, FileInv, TypeOK, LiveHasFiles
  <2>2. PICK n \in Node : n = F.fd[i]
    BY <1>3, <2>1, OpenedNodes DEF Close
  <2>3. /\ state[p] = "live" /\ UNCHANGED <<state, mm, lost>> /\ ino' = vfs_close(ino, n)
        /\ SetFd(p, i, NULL) /\ i \in Opened(F)
    BY <1>3, <2>1, <2>2 DEF Close, User
  <2>4. ino[n].open > 0
    BY <1>0, <2>1, <2>2, <2>3, OpenedIsHeld
  <2>5. /\ vfs_close(ino, n) \in Inodes /\ Sound(vfs_close(ino, n)[n])
        /\ vfs_close(ino, n)[n].ref = ino[n].ref - 1
        /\ vfs_close(ino, n)[n].open = ino[n].open - 1
        /\ \A m \in Node \ {n} : vfs_close(ino, n)[m] = ino[m]
    BY <1>0, <2>4, VfsClose
  <2>6. \A m \in Node :
           /\ Sound(ino'[m])
           /\ ino'[m].ref = ino[m].ref - (IF filesp[p].fd[i] = m THEN 1 ELSE 0)
                                       + (IF NULL = m THEN 1 ELSE 0)
           /\ ino'[m].open = ino[m].open - (IF filesp[p].fd[i] = m THEN 1 ELSE 0)
                                         + (IF NULL = m THEN 1 ELSE 0)
    BY <1>0, <2>1, <2>2, <2>3, <2>5
  <2> QED BY <2>3, <2>5, <2>6, EntryCall
<1>4. ASSUME NEW i \in Fd, NEW j \in Fd, Dup(p, i, j) PROVE FileInv'
  <2>1. PICK F \in files_struct : F = filesp[p]
    BY <1>4 DEF Dup, User, FileInv, TypeOK, LiveHasFiles
  <2>2. PICK n \in Node : n = F.fd[i]
    BY <1>4, <2>1, OpenedNodes DEF Dup
  <2>3. /\ state[p] = "live" /\ UNCHANGED <<state, mm, lost>> /\ ino' = fd_array_dup(ino, n)
        /\ SetFd(p, j, n) /\ filesp[p].fd[j] = NULL
    BY <1>4, <2>1, <2>2 DEF Dup, User, FreeFd, Opened
  <2>4. /\ fd_array_dup(ino, n) \in Inodes /\ Sound(fd_array_dup(ino, n)[n])
        /\ fd_array_dup(ino, n)[n].ref = ino[n].ref + 1
        /\ fd_array_dup(ino, n)[n].open = ino[n].open + 1
        /\ \A m \in Node \ {n} : fd_array_dup(ino, n)[m] = ino[m]
    BY <1>0, FdArrayDup
  <2>5. \A m \in Node :
           /\ Sound(ino'[m])
           /\ ino'[m].ref = ino[m].ref - (IF filesp[p].fd[j] = m THEN 1 ELSE 0)
                                       + (IF n = m THEN 1 ELSE 0)
           /\ ino'[m].open = ino[m].open - (IF filesp[p].fd[j] = m THEN 1 ELSE 0)
                                         + (IF n = m THEN 1 ELSE 0)
    BY <1>0, <2>3, <2>4
  <2> QED BY <2>3, <2>4, <2>5, EntryCall
<1>5. ASSUME NEW i \in Fd, Grow(p, i) PROVE FileInv'
  <2>1. PICK F \in files_struct : F = filesp[p]
    BY <1>5 DEF Grow, User, FileInv, TypeOK, LiveHasFiles
  <2>2. PICK n \in Node : n = F.fd[i]
    BY <1>5, <2>1, OpenedNodes DEF Grow
  <2>3. /\ state[p] = "live" /\ UNCHANGED <<state, mm, filesp, lost>> /\ ino' = Touch(ino, n)
        /\ i \in Opened(F)
    BY <1>5, <2>1, <2>2 DEF Grow, User
  <2>4. ino[n].open > 0
    BY <1>0, <2>1, <2>2, <2>3, OpenedIsHeld
  <2>5. /\ ino' \in Inodes
        /\ Sound(ino'[n]) /\ ino'[n].ref = ino[n].ref /\ ino'[n].open = ino[n].open
        /\ \A m \in Node \ {n} : ino'[m] = ino[m]
    BY <1>0, <2>3, <2>4, DinChanges
  <2>6. \A m \in Node : /\ Sound(ino'[m]) /\ ino'[m].ref = ino[m].ref
                        /\ ino'[m].open = ino[m].open
    BY <1>0, <2>5
  <2> QED BY <2>3, <2>5, <2>6, QuietCall
<1>9. ASSUME NEW i \in Fd, GrowFails(p, i) PROVE FileInv'
  <2>1. PICK F \in files_struct : F = filesp[p]
    BY <1>9 DEF GrowFails, User, FileInv, TypeOK, LiveHasFiles
  <2>2. PICK n \in Node : n = F.fd[i]
    BY <1>9, <2>1, OpenedNodes DEF GrowFails
  <2>3. /\ state[p] = "live" /\ UNCHANGED <<state, mm, filesp, lost>>
        /\ ino' = Count(ino, n) \/ ino' = Touch(ino, n)
        /\ i \in Opened(F)
    BY <1>9, <2>1, <2>2 DEF GrowFails, User
  <2>4. ino[n].open > 0
    BY <1>0, <2>1, <2>2, <2>3, OpenedIsHeld
  <2>5. /\ ino' \in Inodes
        /\ Sound(ino'[n]) /\ ino'[n].ref = ino[n].ref /\ ino'[n].open = ino[n].open
        /\ \A m \in Node \ {n} : ino'[m] = ino[m]
    BY <1>0, <2>3, <2>4, DinChanges
  <2>6. \A m \in Node : /\ Sound(ino'[m]) /\ ino'[m].ref = ino[m].ref
                        /\ ino'[m].open = ino[m].open
    BY <1>0, <2>5
  <2> QED BY <2>3, <2>5, <2>6, QuietCall
<1>6. ASSUME NEW i \in Fd, Fsync(p, i) PROVE FileInv'
  <2>1. PICK F \in files_struct : F = filesp[p]
    BY <1>6 DEF Fsync, User, FileInv, TypeOK, LiveHasFiles
  <2>2. PICK n \in Node : n = F.fd[i]
    BY <1>6, <2>1, OpenedNodes DEF Fsync
  <2>3. /\ state[p] = "live" /\ UNCHANGED <<state, mm, filesp, lost>> /\ ino' = sfs_fsync(ino, n)
    BY <1>6, <2>1, <2>2 DEF Fsync, User
  <2>4. Lacks(ino[n]) => ino[n].dirty
    BY <1>0 DEF Sound, Lacks
  <2>5. /\ sfs_fsync(ino, n) \in Inodes
        /\ sfs_fsync(ino, n)[n].ref = ino[n].ref /\ sfs_fsync(ino, n)[n].open = ino[n].open
        /\ ~Lacks(sfs_fsync(ino, n)[n])
        /\ \A m \in Node \ {n} : sfs_fsync(ino, n)[m] = ino[m]
    BY <1>0, <2>4, WriteBack
  <2>6. Sound(sfs_fsync(ino, n)[n])
    BY <1>0, <2>5 DEF Sound, Lacks
  <2>7. \A m \in Node : /\ Sound(ino'[m]) /\ ino'[m].ref = ino[m].ref
                        /\ ino'[m].open = ino[m].open
    BY <1>0, <2>3, <2>5, <2>6
  <2> QED BY <2>3, <2>5, <2>7, QuietCall
<1>7. ASSUME NEW n \in Node, OpenExists(p, n) PROVE FileInv'
  BY <1>7, OpenExistsKeeps
<1>8. ASSUME NEW n \in Node, Chdir(p, n) PROVE FileInv'
  BY <1>8, ChdirKeeps
<1> QED BY <1>1, <1>2, <1>3, <1>4, <1>5, <1>6, <1>7, <1>8, <1>9 DEF FileCall

(***************************************************************************)
(* do_exit keeps the invariant, when it meets inodes I and a table F that  *)
(* differ from those of p by what was closed or opened on the way.         *)
(***************************************************************************)
LEMMA ExitKeeps ==
  ASSUME FileInv, NEW p \in Slot, state[p] = "live", NEW has_mm \in BOOLEAN,
         NEW I \in Inodes, NEW F \in files_struct, do_exit(p, has_mm, I, F),
         \A n \in Node :
            /\ Sound(I[n]) /\ Held(F, n) <= I[n].open
            /\ Works(F, n) <= I[n].ref - I[n].open
            /\ I[n].ref - Held(F, n) - Works(F, n)
                  = ino[n].ref - Held(filesp[p], n) - Works(filesp[p], n)
            /\ I[n].open - Held(F, n) = ino[n].open - Held(filesp[p], n)
  PROVE  FileInv'
<1>1. /\ state' = [state EXCEPT ![p] = "zombie"] /\ mm' = [mm EXCEPT ![p] = FALSE]
      /\ filesp' = [filesp EXCEPT ![p] = NULL]
      /\ has_mm => ino' = files_destroy(I, F) /\ lost' = lost
      /\ ~has_mm => ino' = I /\ lost' = Lose(F)
      /\ \A n \in Node : lost'[n].ref <= MaxLost
  BY DEF do_exit
<1>2. TypeOK
  BY DEF FileInv
<1>3. /\ filesp'[p] = NULL /\ \A q \in Slot \ {p} : filesp'[q] = filesp[q]
      /\ filesp' \in [Slot -> files_struct \cup {NULL}]
  BY <1>1, <1>2 DEF TypeOK
<1>4. ASSUME NEW n \in Node
      PROVE  /\ ino[n].ref \in Nat /\ ino[n].open \in Nat
             /\ I[n].ref \in Int /\ I[n].open \in Int
             /\ Held(filesp[p], n) \in Nat /\ Works(filesp[p], n) \in {0, 1}
             /\ Held(F, n) \in Nat /\ Works(F, n) \in {0, 1}
             /\ Held(F, n) = FdRefs(F, n) /\ Works(F, n) = PwdRefs(F, n)
             /\ lost[n].ref \in Nat /\ lost[n].open \in Nat /\ lost[n].open <= lost[n].ref
  <2>1. /\ ino[n].ref \in Nat /\ ino[n].open \in Nat
        /\ Held(filesp[p], n) \in Nat /\ Works(filesp[p], n) \in {0, 1}
        /\ lost[n].ref \in Nat /\ lost[n].open \in Nat
    BY InodeFacts
  <2>2. I[n].ref \in Int /\ I[n].open \in Int /\ lost[n].open <= lost[n].ref
    BY DEF Inodes, FileInv, LostSound
  <2>3. F # NULL /\ Held(F, n) \in Nat
    BY OpenedIsHeld
  <2> QED BY <2>1, <2>2, <2>3 DEF Held, Works, PwdRefs
<1>5. /\ lost' \in [Node -> [ref : 0..MaxLost, open : 0..MaxLost]] /\ LostSound'
      /\ \A n \in Node :
            /\ lost'[n].ref = lost[n].ref + (IF has_mm THEN 0 ELSE Held(F, n) + Works(F, n))
            /\ lost'[n].open = lost[n].open + (IF has_mm THEN 0 ELSE Held(F, n))
  <2>1. CASE has_mm
    BY <1>1, <1>2, <1>4, <2>1 DEF TypeOK, FileInv, LostSound
  <2>2. CASE ~has_mm
    <3>1. lost' = [n \in Node |-> [ref |-> lost[n].ref + PwdRefs(F, n) + FdRefs(F, n),
                                   open |-> lost[n].open + FdRefs(F, n)]]
      BY <1>1, <2>2 DEF Lose
    <3>2. \A n \in Node : /\ lost'[n].ref = lost[n].ref + PwdRefs(F, n) + FdRefs(F, n)
                          /\ lost'[n].open = lost[n].open + FdRefs(F, n)
      BY <3>1
    <3>3. \A n \in Node : /\ lost'[n].ref = lost[n].ref + Held(F, n) + Works(F, n)
                          /\ lost'[n].open = lost[n].open + Held(F, n)
                          /\ lost'[n].open <= lost'[n].ref
                          /\ lost'[n].ref \in 0..MaxLost /\ lost'[n].open \in 0..MaxLost
      BY <1>1, <1>4, <3>2
    <3>4. lost' \in [Node -> [ref : 0..MaxLost, open : 0..MaxLost]]
      BY <3>1, <3>2, <3>3
    <3> QED BY <1>4, <2>2, <3>3, <3>4 DEF LostSound
  <2> QED BY <2>1, <2>2
<1>6. /\ ino' \in Inodes
      /\ \A n \in Node :
            /\ Sound(ino'[n])
            /\ ino'[n].ref = I[n].ref - (IF has_mm THEN Held(F, n) + Works(F, n) ELSE 0)
            /\ ino'[n].open = I[n].open - (IF has_mm THEN Held(F, n) ELSE 0)
  <2>1. CASE has_mm
    <3>1. /\ files_destroy(I, F) \in Inodes
          /\ \A n \in Node :
                /\ Sound(files_destroy(I, F)[n])
                /\ files_destroy(I, F)[n].ref = I[n].ref - Held(F, n) - Works(F, n)
                /\ files_destroy(I, F)[n].open = I[n].open - Held(F, n)
      BY Destroy
    <3>2. ino' = files_destroy(I, F)
      BY <1>1, <2>1
    <3> QED BY <1>4, <2>1, <3>1, <3>2
  <2>2. CASE ~has_mm
    BY <1>1, <1>4, <2>2
  <2> QED BY <2>1, <2>2
<1>7. Accounted(p)
  <2>1. ASSUME NEW n \in Node
        PROVE  /\ ino'[n].ref = ino[n].ref + (Held(filesp'[p], n) - Held(filesp[p], n))
                                           + (Works(filesp'[p], n) - Works(filesp[p], n))
                                           + (lost'[n].ref - lost[n].ref)
               /\ ino'[n].open = ino[n].open + (Held(filesp'[p], n) - Held(filesp[p], n))
                                             + (lost'[n].open - lost[n].open)
    <3>1. Held(filesp'[p], n) = 0 /\ Works(filesp'[p], n) = 0
      BY <1>3 DEF Held, Works
    <3>2. /\ ino[n].ref \in Nat /\ ino[n].open \in Nat
          /\ I[n].ref \in Int /\ I[n].open \in Int
          /\ Held(filesp[p], n) \in Nat /\ Works(filesp[p], n) \in Nat
          /\ Held(F, n) \in Nat /\ Works(F, n) \in Nat
          /\ lost[n].ref \in Nat /\ lost[n].open \in Nat
      BY <1>4
    <3>3. /\ I[n].ref - Held(F, n) - Works(F, n)
               = ino[n].ref - Held(filesp[p], n) - Works(filesp[p], n)
          /\ I[n].open - Held(F, n) = ino[n].open - Held(filesp[p], n)
      OBVIOUS
    <3>4. CASE has_mm
      <4>1. /\ ino'[n].ref = I[n].ref - (Held(F, n) + Works(F, n))
            /\ ino'[n].open = I[n].open - Held(F, n)
        BY <1>6, <3>4
      <4>2. lost'[n].ref = lost[n].ref + 0 /\ lost'[n].open = lost[n].open + 0
        BY <1>5, <3>4
      <4> QED BY <3>1, <3>2, <3>3, <4>1, <4>2
    <3>5. CASE ~has_mm
      <4>1. ino'[n].ref = I[n].ref - 0 /\ ino'[n].open = I[n].open - 0
        BY <1>6, <3>5
      <4>2. /\ lost'[n].ref = lost[n].ref + (Held(F, n) + Works(F, n))
            /\ lost'[n].open = lost[n].open + Held(F, n)
        BY <1>5, <3>5
      <4> QED BY <3>1, <3>2, <3>3, <4>1, <4>2
    <3> QED BY <3>4, <3>5
  <2> QED BY <1>3, <1>6, <2>1 DEF Accounted
<1>8. /\ RefsExact' /\ Durable'
      /\ ino' \in [Node -> [ref : Nat, open : Nat, dirty : BOOLEAN, behind : Behind]]
  BY <1>3, <1>5, <1>7, AccountedKeeps DEF FilesType
<1>9. TypeOK'
  BY <1>1, <1>2, <1>3, <1>5, <1>8 DEF TypeOK
<1>10. LiveHasFiles'
  BY <1>1, <1>2, <1>3 DEF TypeOK, FileInv, LiveHasFiles
<1> QED BY <1>5, <1>8, <1>9, <1>10 DEF FileInv

(***************************************************************************)
(* copy_files gives the child a table of its own, and counts it.           *)
(***************************************************************************)
LEMMA ForkKeeps ==
  ASSUME FileInv, NEW p \in Slot, NEW c \in Slot, Fork(p, c)
  PROVE  FileInv'
<1>1. PICK F \in files_struct : F = filesp[p]
  BY DEF Fork, FileInv, TypeOK, LiveHasFiles
<1> DEFINE d == F.pwd
           I == inode_ref_inc(ino, d)
           J == DupEach(I, F)
<1>2. /\ state' = [state EXCEPT ![c] = "live"] /\ mm' = [mm EXCEPT ![c] = mm[p]]
      /\ filesp' = [filesp EXCEPT ![c] = F] /\ ino' = J /\ lost' = lost
  BY <1>1 DEF Fork, dup_files
<1>3. filesp[c] = NULL /\ d \in Node /\ F # NULL
  BY <1>1, OpenedNodes DEF Fork, FileInv, LiveHasFiles
<1>4. TypeOK /\ ino \in Inodes
  BY DEF FileInv, TypeOK, Inodes
<1>5. \A n \in Node : /\ Sound(ino[n]) /\ ino[n].ref \in Nat /\ ino[n].open \in Nat
                      /\ lost[n].ref \in Nat /\ lost[n].open \in Nat
  BY InodeFacts
<1>6. /\ I \in Inodes /\ Sound(I[d]) /\ I[d].ref = ino[d].ref + 1 /\ I[d].open = ino[d].open
      /\ \A m \in Node \ {d} : I[m] = ino[m]
  BY <1>3, <1>4, <1>5, Increments
<1> HIDE DEF I
<1>7. \A n \in Node : Sound(I[n])
  BY <1>5, <1>6
<1>8. /\ J \in Inodes
      /\ \A n \in Node : /\ Sound(J[n]) /\ J[n].ref = I[n].ref + FdRefs(F, n)
                          /\ J[n].open = I[n].open + FdRefs(F, n)
  BY <1>6, <1>7, DupEachCounts
<1> HIDE DEF J
<1>9. /\ filesp'[c] = F /\ \A q \in Slot \ {c} : filesp'[q] = filesp[q]
      /\ filesp' \in [Slot -> files_struct \cup {NULL}]
  BY <1>2, <1>4 DEF TypeOK
<1>10. Accounted(c)
  <2>1. ASSUME NEW n \in Node
        PROVE  /\ ino'[n].ref = ino[n].ref + (Held(filesp'[c], n) - Held(filesp[c], n))
                                           + (Works(filesp'[c], n) - Works(filesp[c], n))
                                           + (lost'[n].ref - lost[n].ref)
               /\ ino'[n].open = ino[n].open + (Held(filesp'[c], n) - Held(filesp[c], n))
                                             + (lost'[n].open - lost[n].open)
    <3>1. Held(filesp[c], n) = 0 /\ Works(filesp[c], n) = 0
      BY <1>3 DEF Held, Works
    <3>2. /\ Held(filesp'[c], n) = FdRefs(F, n) /\ FdRefs(F, n) \in Nat
          /\ Works(filesp'[c], n) = IF d = n THEN 1 ELSE 0
      <4>1. Held(F, n) \in Nat
        BY OpenedIsHeld
      <4> QED BY <1>3, <1>9, <4>1 DEF Held, Works, PwdRefs
    <3>3. I[n].ref = ino[n].ref + (IF d = n THEN 1 ELSE 0) /\ I[n].open = ino[n].open
      BY <1>5, <1>6
    <3> HIDE DEF d
    <3> QED BY <1>2, <1>5, <1>8, <3>1, <3>2, <3>3
  <2> QED BY <1>2, <1>8, <1>9, <2>1 DEF Accounted
<1>11. /\ RefsExact' /\ Durable'
       /\ ino' \in [Node -> [ref : Nat, open : Nat, dirty : BOOLEAN, behind : Behind]]
  <2>1. lost' \in [Node -> [ref : 0..MaxLost, open : 0..MaxLost]]
    BY <1>2, <1>4 DEF TypeOK
  <2> QED BY <1>9, <1>10, <2>1, AccountedKeeps DEF FilesType
<1>12. TypeOK'
  BY <1>2, <1>4, <1>9, <1>11 DEF TypeOK
<1>13. LiveHasFiles' /\ LostSound'
  BY <1>2, <1>3, <1>4, <1>9 DEF TypeOK, FileInv, LiveHasFiles, LostSound
<1> QED BY <1>11, <1>12, <1>13 DEF FileInv

(***************************************************************************)
(* What do_execve meets after files_closeall: the inodes have lost what    *)
(* the table has lost.                                                     *)
(***************************************************************************)
LEMMA ExecCloses ==
  ASSUME FileInv, NEW p \in Slot, state[p] = "live"
  PROVE  /\ filesp[p] \in files_struct
         /\ Survivors(filesp[p]) \in files_struct /\ files_closeall(ino, filesp[p]) \in Inodes
         /\ \A n \in Node :
               LET I == files_closeall(ino, filesp[p])
                   S == Survivors(filesp[p])
               IN  /\ Sound(I[n]) /\ I[n].ref \in Int /\ I[n].open \in Int
                   /\ Held(S, n) \in Nat /\ Works(S, n) = Works(filesp[p], n)
                   /\ Works(S, n) \in {0, 1}
                   /\ Held(S, n) <= I[n].open /\ Works(S, n) <= I[n].ref - I[n].open
                   /\ I[n].ref - Held(S, n) = ino[n].ref - Held(filesp[p], n)
                   /\ I[n].open - Held(S, n) = ino[n].open - Held(filesp[p], n)
<1>1. PICK F \in files_struct : F = filesp[p]
  BY DEF FileInv, TypeOK, LiveHasFiles
<1>2. ino \in Inodes
  BY DEF FileInv, TypeOK, Inodes
<1>3. \A n \in Node : /\ Sound(ino[n]) /\ ino[n].ref \in Nat /\ ino[n].open \in Nat
                      /\ Held(F, n) \in Nat /\ Works(F, n) \in {0, 1}
                      /\ Held(F, n) <= ino[n].open
                      /\ Works(F, n) <= ino[n].ref - ino[n].open
  BY <1>1, InodeFacts
<1> DEFINE I == files_closeall(ino, F)
           S == Survivors(F)
<1>4. /\ S \in files_struct /\ I \in Inodes
      /\ \A n \in Node : /\ Sound(I[n]) /\ Held(S, n) \in Nat /\ Works(S, n) = Works(F, n)
                         /\ I[n].ref = ino[n].ref - (Held(F, n) - Held(S, n))
                         /\ I[n].open = ino[n].open - (Held(F, n) - Held(S, n))
  BY <1>2, <1>3, CloseAll
<1> HIDE DEF I, S
<1>5. ASSUME NEW n \in Node
      PROVE  /\ Sound(I[n]) /\ I[n].ref \in Int /\ I[n].open \in Int
             /\ Held(S, n) \in Nat /\ Works(S, n) = Works(F, n)
             /\ Works(S, n) \in {0, 1}
             /\ Held(S, n) <= I[n].open /\ Works(S, n) <= I[n].ref - I[n].open
             /\ I[n].ref - Held(S, n) = ino[n].ref - Held(F, n)
             /\ I[n].open - Held(S, n) = ino[n].open - Held(F, n)
  BY <1>3, <1>4
<1> QED BY <1>1, <1>4, <1>5 DEF I, S

(***************************************************************************)
(* do_execve of a program that is loaded.                                  *)
(***************************************************************************)
LEMMA ExecKeeps ==
  ASSUME FileInv, NEW p \in Slot, NEW n \in Node, Exec(p, n)
  PROVE  FileInv'
<1>0. state[p] = "live"
  BY DEF Exec
<1>1. PICK F \in files_struct : F = filesp[p]
  BY <1>0, ExecCloses
<1> DEFINE I == files_closeall(ino, F)
           S == Survivors(F)
           J == fd_array_dup(I, n)
           K == vfs_close(J, n)
<1>2. /\ filesp' = [filesp EXCEPT ![p] = S] /\ ino' = K
      /\ mm' = [mm EXCEPT ![p] = TRUE] /\ state' = state /\ lost' = lost
  BY <1>1 DEF Exec, vfs_lookup, fd_array_dup
<1>3. /\ S \in files_struct /\ I \in Inodes
      /\ \A m \in Node : /\ Sound(I[m]) /\ I[m].ref \in Int /\ I[m].open \in Int
                         /\ Held(S, m) \in Nat /\ Works(S, m) = Works(F, m)
                         /\ Works(S, m) \in {0, 1}
                         /\ I[m].ref - Held(S, m) = ino[m].ref - Held(F, m)
                         /\ I[m].open - Held(S, m) = ino[m].open - Held(F, m)
  BY <1>0, <1>1, ExecCloses
<1>4. \A m \in Node : /\ ino[m].ref \in Nat /\ ino[m].open \in Nat
                      /\ Held(F, m) \in Nat /\ Works(F, m) \in {0, 1}
                      /\ lost[m].ref \in Nat /\ lost[m].open \in Nat
  BY <1>1, InodeFacts
<1> HIDE DEF I, S
<1>5. /\ J \in Inodes /\ Sound(J[n]) /\ J[n].ref = I[n].ref + 1 /\ J[n].open = I[n].open + 1
      /\ \A m \in Node \ {n} : J[m] = I[m]
  BY <1>3, FdArrayDup
<1> HIDE DEF J
<1>6. J[n].open > 0
  BY <1>3, <1>5 DEF Sound, Lacks
<1>7. /\ K \in Inodes /\ Sound(K[n]) /\ K[n].ref = J[n].ref - 1 /\ K[n].open = J[n].open - 1
      /\ \A m \in Node \ {n} : K[m] = J[m]
  BY <1>5, <1>6, VfsClose
<1> HIDE DEF K
<1>8. \A m \in Node : Sound(K[m]) /\ K[m].ref = I[m].ref /\ K[m].open = I[m].open
  BY <1>3, <1>5, <1>7
<1>9. /\ filesp'[p] = S /\ S # NULL /\ \A q \in Slot \ {p} : filesp'[q] = filesp[q]
      /\ filesp' \in [Slot -> files_struct \cup {NULL}]
  BY <1>2, <1>3 DEF FileInv, TypeOK
<1>10. Accounted(p)
  <2>1. ASSUME NEW m \in Node
        PROVE  /\ ino'[m].ref = ino[m].ref + (Held(filesp'[p], m) - Held(filesp[p], m))
                                           + (Works(filesp'[p], m) - Works(filesp[p], m))
                                           + (lost'[m].ref - lost[m].ref)
               /\ ino'[m].open = ino[m].open + (Held(filesp'[p], m) - Held(filesp[p], m))
                                             + (lost'[m].open - lost[m].open)
    <3>1. ino'[m].ref = I[m].ref /\ ino'[m].open = I[m].open /\ lost'[m] = lost[m]
      BY <1>2, <1>8
    <3>2. /\ Held(filesp'[p], m) = Held(S, m) /\ Works(filesp'[p], m) = Works(S, m)
          /\ Held(filesp[p], m) = Held(F, m) /\ Works(filesp[p], m) = Works(F, m)
      BY <1>1, <1>9
    <3>3. /\ I[m].ref \in Int /\ I[m].open \in Int
          /\ Held(S, m) \in Nat /\ Works(S, m) = Works(F, m)
          /\ I[m].ref - Held(S, m) = ino[m].ref - Held(F, m)
          /\ I[m].open - Held(S, m) = ino[m].open - Held(F, m)
      BY <1>3
    <3>4. /\ ino[m].ref \in Int /\ ino[m].open \in Int /\ Held(F, m) \in Int
          /\ Works(F, m) \in Int /\ lost[m].ref \in Int /\ lost[m].open \in Int
      BY <1>4
    <3> QED BY <3>1, <3>2, <3>3, <3>4
  <2> QED BY <1>2, <1>7, <1>8, <1>9, <2>1 DEF Accounted
<1>11. /\ FilesType' /\ mm' \in [Slot -> BOOLEAN] /\ LostSound'
       /\ lost' \in [Node -> [ref : 0..MaxLost, open : 0..MaxLost]]
  BY <1>2, <1>9 DEF FileInv, TypeOK, FilesType, LostSound
<1> QED BY <1>0, <1>2, <1>9, <1>10, <1>11, CallKeeps

(***************************************************************************)
(* do_execve that ends in do_exit, with the program's descriptor or before *)
(* there is one.                                                           *)
(***************************************************************************)
LEMMA ExecFails ==
  ASSUME FileInv, NEW p \in Slot,
         ExecNoEntry(p) \/ \E n \in Node : ExecBadElf(p, n)
  PROVE  FileInv'
<1>0. state[p] = "live"
  BY DEF ExecNoEntry, ExecBadElf
<1>1. PICK F \in files_struct : F = filesp[p]
  BY <1>0, ExecCloses
<1> DEFINE I == files_closeall(ino, F)
           S == Survivors(F)
<1>2. /\ S \in files_struct /\ I \in Inodes
      /\ \A m \in Node : /\ Sound(I[m]) /\ I[m].ref \in Int /\ I[m].open \in Int
                         /\ Held(S, m) \in Nat /\ Works(S, m) = Works(F, m)
                         /\ Works(S, m) \in {0, 1}
                         /\ Held(S, m) <= I[m].open /\ Works(S, m) <= I[m].ref - I[m].open
                         /\ I[m].ref - Held(S, m) = ino[m].ref - Held(F, m)
                         /\ I[m].open - Held(S, m) = ino[m].open - Held(F, m)
  BY <1>0, <1>1, ExecCloses
<1>3. \A m \in Node : /\ ino[m].ref \in Nat /\ ino[m].open \in Nat
                      /\ Held(F, m) \in Nat /\ Works(F, m) \in {0, 1}
  BY <1>1, InodeFacts
<1>4. CASE ExecNoEntry(p)
  <2>1. do_exit(p, mm[p], I, S) /\ mm[p] \in BOOLEAN
    BY <1>1, <1>4 DEF ExecNoEntry, FileInv, TypeOK
  <2> HIDE DEF I, S
  <2>2. \A m \in Node : /\ Sound(I[m]) /\ Held(S, m) <= I[m].open
                        /\ Works(S, m) <= I[m].ref - I[m].open
                        /\ I[m].ref - Held(S, m) - Works(S, m)
                              = ino[m].ref - Held(filesp[p], m) - Works(filesp[p], m)
                        /\ I[m].open - Held(S, m) = ino[m].open - Held(filesp[p], m)
    BY <1>1, <1>2, <1>3
  <2> QED BY <1>0, <1>2, <2>1, <2>2, ExitKeeps
<1>5. ASSUME NEW n \in Node, ExecBadElf(p, n) PROVE FileInv'
  <2> DEFINE J == fd_array_dup(I, n)
  <2>1. PICK i \in Fd : /\ fd_array_alloc(S, i) /\ do_exit(p, FALSE, J, [S EXCEPT !.fd[i] = n])
    BY <1>1, <1>5 DEF ExecBadElf, vfs_lookup, fd_array_dup
  <2>2. S.fd[i] = NULL
    BY <2>1 DEF fd_array_alloc, FreeFd, Opened
  <2> HIDE DEF I, S
  <2>3. /\ J \in Inodes /\ Sound(J[n]) /\ J[n].ref = I[n].ref + 1 /\ J[n].open = I[n].open + 1
        /\ \A m \in Node \ {n} : J[m] = I[m]
    BY <1>2, FdArrayDup
  <2> HIDE DEF J
  <2> DEFINE T == [S EXCEPT !.fd[i] = n]
  <2>4. /\ T \in files_struct
        /\ \A m \in Node : /\ Works(T, m) = Works(S, m)
                           /\ Held(T, m) = Held(S, m) - (IF S.fd[i] = m THEN 1 ELSE 0)
                                                      + (IF n = m THEN 1 ELSE 0)
    BY <1>2, EntrySet
  <2>5. PICK has_mm \in BOOLEAN : do_exit(p, has_mm, J, T)
    BY <2>1, Zenon
  <2> HIDE DEF T
  <2>6. ASSUME NEW m \in Node
        PROVE  /\ Sound(J[m]) /\ Held(T, m) <= J[m].open
               /\ Works(T, m) <= J[m].ref - J[m].open
               /\ J[m].ref - Held(T, m) - Works(T, m)
                     = ino[m].ref - Held(filesp[p], m) - Works(filesp[p], m)
               /\ J[m].open - Held(T, m) = ino[m].open - Held(filesp[p], m)
    <3>1. /\ J[m].ref = I[m].ref + (IF n = m THEN 1 ELSE 0)
          /\ J[m].open = I[m].open + (IF n = m THEN 1 ELSE 0) /\ Sound(J[m])
      BY <1>2, <2>3
    <3>2. Held(T, m) = Held(S, m) + (IF n = m THEN 1 ELSE 0) /\ Works(T, m) = Works(S, m)
      BY <1>2, <2>2, <2>4
    <3> QED BY <1>1, <1>2, <1>3, <3>1, <3>2
  <2> QED BY <1>0, <2>3, <2>4, <2>5, <2>6, ExitKeeps
<1> QED BY <1>4, <1>5

(***************************************************************************)
(* The process calls keep the invariant.                                   *)
(***************************************************************************)
LEMMA ProcCallKeeps ==
  ASSUME FileInv, NEW p \in Slot, ProcCall(p)
  PROVE  FileInv'
<1>1. ASSUME NEW c \in Proc, Fork(p, c) PROVE FileInv'
  BY <1>1, ForkKeeps DEF Slot
<1>2. CASE Exit(p)
  <2>1. PICK F \in files_struct : F = filesp[p]
    BY <1>2 DEF Exit, FileInv, TypeOK, LiveHasFiles
  <2>2. state[p] = "live" /\ do_exit(p, mm[p], ino, F) /\ mm[p] \in BOOLEAN
    BY <1>2, <2>1 DEF Exit, FileInv, TypeOK
  <2>3. ino \in Inodes
    BY DEF FileInv, TypeOK, Inodes
  <2>4. \A m \in Node : /\ Sound(ino[m]) /\ Held(F, m) <= ino[m].open
                        /\ Works(F, m) <= ino[m].ref - ino[m].open
    BY <2>1, InodeFacts
  <2> QED BY <2>1, <2>2, <2>3, <2>4, ExitKeeps
<1>3. CASE ExecNoEntry(p) \/ \E n \in Node : ExecBadElf(p, n)
  BY <1>3, ExecFails
<1>4. ASSUME NEW n \in Node, Exec(p, n) PROVE FileInv'
  BY <1>4, ExecKeeps
<1>5. CASE Reap(p)
  <2>1. /\ state' = [state EXCEPT ![p] = "none"] /\ state[p] = "zombie"
        /\ mm' = mm /\ filesp' = filesp /\ ino' = ino /\ lost' = lost
    BY <1>5 DEF Reap
  <2>2. RefsExact' /\ Durable' /\ LostSound'
    BY <2>1 DEF FileInv, RefsExact, Pwds, Fds, Tables, Durable, LostSound
  <2>3. TypeOK' /\ LiveHasFiles'
    BY <2>1 DEF FileInv, TypeOK, LiveHasFiles
  <2> QED BY <2>2, <2>3 DEF FileInv
<1> QED BY <1>1, <1>2, <1>3, <1>4, <1>5 DEF ProcCall

----------------------------------------------------------------------------
(* The theorems.                                                           *)

(***************************************************************************)
(* The kernel starts with the root, held by bootfs_node and initproc.      *)
(***************************************************************************)
LEMMA InitFileInv == Init => FileInv
<1> SUFFICES ASSUME Init PROVE FileInv
    OBVIOUS
<1>1. TypeOK
  <2>1. [pwd |-> root, fd |-> no_files] \in files_struct
    BY DEF files_struct, no_files
  <2>2. /\ state \in [Slot -> {"none", "live", "zombie"}] /\ mm \in [Slot -> BOOLEAN]
        /\ filesp \in [Slot -> files_struct \cup {NULL}]
    BY <2>1 DEF Init
  <2>3. ino \in [Node -> [ref : Nat, open : Nat, dirty : BOOLEAN, behind : Behind]]
    <3>1. {} \in Behind
      BY DEF Behind
    <3> QED BY <3>1 DEF Init
  <2>4. lost \in [Node -> [ref : 0..MaxLost, open : 0..MaxLost]]
    BY DEF Init
  <2> QED BY <2>2, <2>3, <2>4 DEF TypeOK
<1>2. Durable /\ LostSound
  BY DEF Init, Durable, LostSound
<1>3. LiveHasFiles /\ Tables = {initproc}
  <2>1. [pwd |-> root, fd |-> no_files] \in files_struct
    BY DEF files_struct, no_files
  <2> QED BY <2>1 DEF Init, LiveHasFiles, Tables, Slot
<1>4. filesp[initproc].pwd = root /\ \A i \in Fd : filesp[initproc].fd[i] = NULL
  BY DEF Init, Slot, no_files
<1>5. ASSUME NEW n \in Node
      PROVE  Cardinality(Fds(n)) = 0 /\ Cardinality(Pwds(n)) = IF n = root THEN 1 ELSE 0
  <2>1. Fds(n) = {}
    BY <1>3, <1>4 DEF Fds
  <2>2. Pwds(n) = IF n = root THEN {initproc} ELSE {}
    BY <1>3, <1>4 DEF Pwds
  <2> QED BY <2>1, <2>2, FS_EmptySet, FS_Singleton
<1>6. \A n \in Node : /\ ino[n].ref = (IF n = root THEN 2 ELSE 0) /\ ino[n].open = 0
                      /\ lost[n].ref = 0 /\ lost[n].open = 0
  BY DEF Init
<1>7. RefsExact
  BY <1>5, <1>6 DEF RefsExact
<1> QED BY <1>1, <1>2, <1>3, <1>7 DEF FileInv

(***************************************************************************)
(* FileInv is an invariant, for every number of processes, files,          *)
(* directories and descriptors.                                            *)
(***************************************************************************)
THEOREM FileInvariant == Spec => []FileInv
<1>1. FileInv /\ [Next]_vars => FileInv'
  <2> SUFFICES ASSUME FileInv, [Next]_vars PROVE FileInv'
      OBVIOUS
  <2>1. CASE Next
    BY <2>1, FileCallKeeps, ProcCallKeeps DEF Next
  <2>2. CASE UNCHANGED vars
    BY <2>2 DEF vars, FileInv, TypeOK, RefsExact, Pwds, Fds, Tables, Durable, LiveHasFiles,
                LostSound
  <2> QED BY <2>1, <2>2
<1> QED BY <1>1, InitFileInv, PTL DEF Spec

(***************************************************************************)
(* The counts of every inode are the references that exist, through every  *)
(* open, dup, close, chdir, fork, exec and exit of any number of processes.*)
(***************************************************************************)
THEOREM FileRefsExact == Spec => []RefsExact
<1>1. FileInv => RefsExact
  BY DEF FileInv
<1> QED BY <1>1, FileInvariant, PTL

(***************************************************************************)
(* An inode on the disk lacks a size or a block pointer only while a       *)
(* descriptor is open on it and its inode in memory is marked dirty,       *)
(* through every order of writes, seeks (failing ones too) and closes.     *)
(***************************************************************************)
THEOREM FileDurable == Spec => []Durable
<1>1. FileInv => Durable
  BY DEF FileInv
<1> QED BY <1>1, FileInvariant, PTL
=============================================================================
