----------------------------- MODULE FileTable -----------------------------
(***************************************************************************)
(* Open files: the descriptor tables of the processes (kern/fs/file.c,     *)
(* kern/fs/fs.c), what do_fork, do_execve, do_exit and do_wait do with     *)
(* them, and the reference and open counts of the inodes (kern/fs/vfs)     *)
(* with the write-back and the reclaim that follow when a count is 0.      *)
(*                                                                         *)
(* A file call is one step: the kernel is not preempted, and no lock of    *)
(* the file system is ever found taken, because the disk is memory and     *)
(* its operations do not sleep.  Contents, positions and access modes are  *)
(* left to SfsFile; an entry of a table is the inode it is open on, and of *)
(* an inode only what the disk lacks of it is kept.                        *)
(*                                                                         *)
(* Two calls are left out, for which the kernel has no operation and stops *)
(* (vop_create of a missing name, vop_truncate of a directory).            *)
(***************************************************************************)
EXTENDS Integers, FiniteSets

CONSTANTS
    Proc,       \* process slots other than initproc
    initproc,
    File,       \* regular files on the disk
    Dir,        \* directories on the disk
    root,       \* the one that is the boot file system
    NENTRY,     \* FILES_STRUCT_NENTRY
    MaxLost,    \* bound: references to one inode that nobody can return
    NULL

Slot == Proc \cup {initproc}
Node == File \cup Dir
Fd == 0..NENTRY - 1

\* The working directory and the descriptor table of a process.
files_struct == [pwd : Dir, fd : [Fd -> Node \cup {NULL}]]

ASSUME FileAssumption ==
    /\ IsFiniteSet(Proc) /\ initproc \notin Proc
    /\ root \in Dir
    /\ NENTRY \in Nat /\ NENTRY > 2
    /\ MaxLost \in Nat
    /\ NULL \notin Node /\ NULL \notin files_struct

VARIABLES
    state,      \* "none", "live" or "zombie"
    mm,         \* the process has an address space: it is no kernel thread
    filesp,     \* its files_struct, or NULL once that is destroyed
    ino,        \* inodes: counts and dirty flag in memory (ref 0: not in memory),
                \* behind: what has changed since the inode was last written,
                \* "size" (and the block pointers) or "blocks" (their count)
    lost        \* ghost: counts taken by files_structs and calls that are gone

vars == <<state, mm, filesp, ino, lost>>

Behind == SUBSET {"size", "blocks"}

TypeOK ==
    /\ state \in [Slot -> {"none", "live", "zombie"}]
    /\ mm \in [Slot -> BOOLEAN]
    /\ filesp \in [Slot -> files_struct \cup {NULL}]
    /\ ino \in [Node -> [ref : Nat, open : Nat, dirty : BOOLEAN, behind : Behind]]
    /\ lost \in [Node -> [ref : 0..MaxLost, open : 0..MaxLost]]

no_files == [i \in Fd |-> NULL]

\* After init_main's vfs_set_bootfs: the root is referenced by bootfs_node and
\* by the pwd of initproc.
Init ==
    /\ state = [p \in Slot |-> IF p = initproc THEN "live" ELSE "none"]
    /\ mm = [p \in Slot |-> FALSE]
    /\ filesp = [p \in Slot |-> IF p = initproc THEN [pwd |-> root, fd |-> no_files]
                                                ELSE NULL]
    /\ ino = [n \in Node |-> [ref |-> IF n = root THEN 2 ELSE 0, open |-> 0,
                              dirty |-> FALSE, behind |-> {}]]
    /\ lost = [n \in Node |-> [ref |-> 0, open |-> 0]]
-----------------------------------------------------------------------------
(* Inodes.  Each operator takes the inodes I and returns them changed. *)

inode_ref_inc(I, n) == [I EXCEPT ![n].ref = @ + 1]
inode_open_inc(I, n) == [I EXCEPT ![n].open = @ + 1]

\* vfs_lookup of a path to n, sfs_load_inode at its end: one more reference,
\* on the inode in memory or on one that is read from the disk.
vfs_lookup(I, n) == inode_ref_inc(I, n)

sfs_fsync(I, n) ==
    IF I[n].dirty THEN [I EXCEPT ![n].dirty = FALSE, ![n].behind = {}] ELSE I

\* The inode leaves memory, after a last write if it is dirty.
sfs_reclaim(I, n) == [sfs_fsync(I, n) EXCEPT ![n].dirty = FALSE]

inode_ref_dec(I, n) ==
    LET J == [I EXCEPT ![n].ref = @ - 1]
    IN  IF J[n].ref = 0 THEN sfs_reclaim(J, n) ELSE J

\* vop_close, which is sfs_close and so sfs_fsync, when the last opener leaves.
inode_open_dec(I, n) ==
    LET J == [I EXCEPT ![n].open = @ - 1]
    IN  IF J[n].open = 0 THEN sfs_fsync(J, n) ELSE J

vfs_close(I, n) == inode_ref_dec(inode_open_dec(I, n), n)

\* Mutant: the change is not marked.
TouchUnmarked(I, n) == [I EXCEPT ![n].behind = {"size", "blocks"}]

\* The size, or a block pointer in din, changes: sin->dirty is set.
Touch(I, n) == [I EXCEPT ![n].dirty = TRUE, ![n].behind = {"size", "blocks"}]

\* din->blocks grows by a block that an indirect block in use points to:
\* sfs_bmap_load_nolock does not set sin->dirty.
Count(I, n) == [I EXCEPT ![n].behind = @ \cup {"blocks"}]
-----------------------------------------------------------------------------
(* Descriptor tables. *)

Opened(F) == {i \in Fd : F.fd[i] # NULL}
FreeFd(F) == Fd \ Opened(F)

\* fd_array_alloc(NO_FD): the first free entry, if there is one.
fd_array_alloc(F, i) == i \in FreeFd(F) /\ \A j \in FreeFd(F) : i <= j

fd_array_dup(I, n) == inode_open_inc(inode_ref_inc(I, n), n)

\* fd_array_close of the entries in fds, one after another: after[k] is what
\* is left when the loop has come to entry k.
CloseEach(I, F, fds) ==
    LET after[k \in 0..NENTRY] ==
            IF k = 0 THEN I
            ELSE IF k - 1 \in fds THEN vfs_close(after[k - 1], F.fd[k - 1])
                                  ELSE after[k - 1]
    IN  after[NENTRY]

\* fd_array_dup of every open entry.
DupEach(I, F) ==
    LET after[k \in 0..NENTRY] ==
            IF k = 0 THEN I
            ELSE IF k - 1 \in Opened(F) THEN fd_array_dup(after[k - 1], F.fd[k - 1])
                                        ELSE after[k - 1]
    IN  after[NENTRY]

\* Mutant: the working directory of the child is not counted.
dup_files_fds(I, F) == DupEach(I, F)

dup_files(I, F) == DupEach(inode_ref_inc(I, F.pwd), F)

files_destroy(I, F) == CloseEach(inode_ref_dec(I, F.pwd), F, Opened(F))

\* Descriptors 0 and 1 survive.
files_closeall(I, F) == CloseEach(I, F, Opened(F) \ {0, 1})
Survivors(F) == [F EXCEPT !.fd = [i \in Fd |-> IF i < 2 THEN F.fd[i] ELSE NULL]]
-----------------------------------------------------------------------------
(* The file calls of a user process. *)

User(p) == state[p] = "live" /\ mm[p]

SetFd(p, i, n) == filesp' = [filesp EXCEPT ![p].fd[i] = n]

\* file_open and vfs_open of something that exists.  truncate: O_TRUNC, which
\* is refused without write access, or O_CREAT, which empties the file too.
\* Emptying an empty file changes nothing.
Open(p, n, truncate) ==
    LET I == inode_open_inc(vfs_lookup(ino, n), n)
    IN  /\ User(p)
        /\ truncate => n \in File
        /\ \E i \in Fd : /\ fd_array_alloc(filesp[p], i)       \* else E_MAX_OPEN
                         /\ SetFd(p, i, n)
        /\ ino' \in {I} \cup (IF truncate THEN {Touch(I, n)} ELSE {})
        /\ UNCHANGED <<state, mm, lost>>

\* A directory is not opened for writing: vfs_open returns the reference.
OpenIsDir(p, n) ==
    /\ User(p) /\ n \in Dir
    /\ FreeFd(filesp[p]) # {}
    /\ ino' = inode_ref_dec(vfs_lookup(ino, n), n)
    /\ UNCHANGED <<state, mm, filesp, lost>>

\* O_EXCL with O_CREAT on a name that exists: vfs_open returns E_EXISTS and
\* keeps the reference of the lookup.
OpenExists(p, n) ==
    /\ User(p)
    /\ FreeFd(filesp[p]) # {}
    /\ lost[n].ref < MaxLost
    /\ ino' = vfs_lookup(ino, n)
    /\ lost' = [lost EXCEPT ![n].ref = @ + 1]
    /\ UNCHANGED <<state, mm, filesp>>

Close(p, i) ==
    /\ User(p) /\ i \in Opened(filesp[p])
    /\ ino' = vfs_close(ino, filesp[p].fd[i])
    /\ SetFd(p, i, NULL)
    /\ UNCHANGED <<state, mm, lost>>

\* file_dup(i, j): j is free, or chosen when it is NO_FD.
Dup(p, i, j) ==
    /\ User(p) /\ i \in Opened(filesp[p])
    /\ j \in FreeFd(filesp[p])                     \* else E_BUSY
    /\ ino' = fd_array_dup(ino, filesp[p].fd[i])
    /\ SetFd(p, j, filesp[p].fd[i])
    /\ UNCHANGED <<state, mm, lost>>

\* file_write that makes the file longer, or file_seek past the end of the
\* file, which needs no writable descriptor.
Grow(p, i) ==
    /\ User(p) /\ i \in Opened(filesp[p])
    /\ filesp[p].fd[i] \in File
    /\ ino' = Touch(ino, filesp[p].fd[i])
    /\ UNCHANGED <<state, mm, filesp, lost>>

\* file_seek past the end of the file that runs out of disk blocks: the size
\* stays and sin->dirty is not set at the end, but the blocks that were added
\* are kept, with or without a block pointer in din.
GrowFails(p, i) ==
    /\ User(p) /\ i \in Opened(filesp[p])
    /\ filesp[p].fd[i] \in File
    /\ ino' \in {Count(ino, filesp[p].fd[i]), Touch(ino, filesp[p].fd[i])}
    /\ UNCHANGED <<state, mm, filesp, lost>>

Fsync(p, i) ==
    /\ User(p) /\ i \in Opened(filesp[p])
    /\ ino' = sfs_fsync(ino, filesp[p].fd[i])
    /\ UNCHANGED <<state, mm, filesp, lost>>

\* vfs_chdir; vfs_set_curdir refuses what is no directory.
Chdir(p, n) ==
    LET old == filesp[p].pwd
        I   == vfs_lookup(ino, n)
        J   == IF n \in Dir /\ n # old THEN inode_ref_dec(inode_ref_inc(I, n), old) ELSE I
    IN  /\ User(p)
        /\ ino' = inode_ref_dec(J, n)
        /\ filesp' = IF n \in Dir THEN [filesp EXCEPT ![p].pwd = n] ELSE filesp
        /\ UNCHANGED <<state, mm, lost>>
-----------------------------------------------------------------------------
(* The process calls, as far as they concern files. *)

\* copy_files at the end of do_fork.
Fork(p, c) ==
    /\ state[p] = "live" /\ state[c] = "none"
    /\ state' = [state EXCEPT ![c] = "live"]
    /\ mm' = [mm EXCEPT ![c] = mm[p]]
    /\ filesp' = [filesp EXCEPT ![c] = filesp[p]]
    /\ ino' = dup_files(ino, filesp[p])
    /\ UNCHANGED lost

PwdRefs(F, n) == IF F.pwd = n THEN 1 ELSE 0
FdRefs(F, n) == Cardinality({i \in Opened(F) : F.fd[i] = n})

\* The counts that F holds join the lost ones.
Lose(F) ==
    [n \in Node |-> [ref  |-> lost[n].ref + PwdRefs(F, n) + FdRefs(F, n),
                     open |-> lost[n].open + FdRefs(F, n)]]

\* do_exit of p, which has the files F and meets the inodes I.  put_files is
\* called only by a process that has an address space; the files_struct of
\* another is lost, for nothing looks at the filesp of a zombie and do_wait
\* frees the proc_struct alone.
do_exit(p, has_mm, I, F) ==
    /\ state' = [state EXCEPT ![p] = "zombie"]
    /\ mm' = [mm EXCEPT ![p] = FALSE]
    /\ filesp' = [filesp EXCEPT ![p] = NULL]
    /\ ino' = IF has_mm THEN files_destroy(I, F) ELSE I
    /\ lost' = IF has_mm THEN lost ELSE Lose(F)
    /\ \A n \in Node : lost'[n].ref <= MaxLost

Exit(p) ==
    /\ p \in Proc /\ state[p] = "live"
    /\ do_exit(p, mm[p], ino, filesp[p])

\* do_execve of a program that is loaded: its descriptor is closed again.
Exec(p, n) ==
    LET I == inode_open_inc(vfs_lookup(files_closeall(ino, filesp[p]), n), n)
    IN  /\ p \in Proc /\ state[p] = "live" /\ n \in File
        /\ ino' = vfs_close(I, n)
        /\ filesp' = [filesp EXCEPT ![p] = Survivors(@)]
        /\ mm' = [mm EXCEPT ![p] = TRUE]
        /\ UNCHANGED <<state, lost>>

\* The program is not found: do_exit with the old address space.
ExecNoEntry(p) ==
    /\ p \in Proc /\ state[p] = "live"
    /\ do_exit(p, mm[p], files_closeall(ino, filesp[p]), Survivors(filesp[p]))

\* load_icode refuses the file: do_exit when the old address space is gone and
\* the program's descriptor still open.
ExecBadElf(p, n) ==
    LET F == Survivors(filesp[p])
        I == inode_open_inc(vfs_lookup(files_closeall(ino, filesp[p]), n), n)
    IN  /\ p \in Proc /\ state[p] = "live" /\ n \in File
        /\ \E i \in Fd :
              /\ fd_array_alloc(F, i)
              /\ do_exit(p, FALSE, I, [F EXCEPT !.fd[i] = n])

\* do_wait.
Reap(p) ==
    /\ state[p] = "zombie"
    /\ state' = [state EXCEPT ![p] = "none"]
    /\ UNCHANGED <<mm, filesp, ino, lost>>
-----------------------------------------------------------------------------
FileCall(p) ==
    \/ \E n \in Node :
         \/ \E truncate \in BOOLEAN : Open(p, n, truncate)
         \/ OpenIsDir(p, n) \/ OpenExists(p, n) \/ Chdir(p, n)
    \/ \E i \in Fd :
         \/ Close(p, i) \/ Grow(p, i) \/ GrowFails(p, i) \/ Fsync(p, i)
         \/ \E j \in Fd : Dup(p, i, j)

ProcCall(p) ==
    \/ \E c \in Proc : Fork(p, c)
    \/ Exit(p) \/ ExecNoEntry(p) \/ Reap(p)
    \/ \E n \in Node : Exec(p, n) \/ ExecBadElf(p, n)

Next == \E p \in Slot : FileCall(p) \/ ProcCall(p)

Spec == Init /\ [][Next]_vars

-----------------------------------------------------------------------------
(* Properties *)

Tables == {p \in Slot : filesp[p] # NULL}

\* Who works in n, and the entries <<process, descriptor>> that are open on it.
Pwds(n) == {p \in Tables : filesp[p].pwd = n}
Fds(n) == {e \in Tables \X Fd : filesp[e[1]].fd[e[2]] = n}

\* The counts of every inode are the references that exist: one per working
\* directory and per descriptor of any process, one of the boot file system,
\* and those that a failed exec, an ended kernel thread or an exclusive open
\* leaves behind.  A count too low frees an inode in use; one too high keeps
\* it for ever.
RefsExact ==
    \A n \in Node :
       LET pwds == Cardinality(Pwds(n))
           fds  == Cardinality(Fds(n))
       IN  /\ ino[n].ref = pwds + fds + lost[n].ref + (IF n = root THEN 1 ELSE 0)
           /\ ino[n].open = fds + lost[n].open

\* When no descriptor of any process, and none that was lost, is open on a
\* file, the inode on the disk has its size and its block pointers, whichever
\* process changed them, through whichever descriptor, and whoever closed last:
\* by close, exit or exec.  The count of the blocks is excepted, which a seek
\* that fails half way leaves changed and not marked: the last close may drop
\* it (see the README).
Durable == \A n \in Node : "size" \in ino[n].behind => ino[n].open > 0 /\ ino[n].dirty
=============================================================================
