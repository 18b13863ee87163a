---------------------------- MODULE MCFileTable ----------------------------
(* Open files with initproc, two other processes, a file and a directory.  *)
EXTENDS FileTable, TLC

\* The slots other than initproc are interchangeable.
Slots == Permutations(Proc)
=============================================================================
