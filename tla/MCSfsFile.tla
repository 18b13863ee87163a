----------------------------- MODULE MCSfsFile -----------------------------
(* A file on a disk of few blocks, each of two bytes.                      *)
EXTENDS SfsFile, TLC

\* One byte, a block and a half, and enough for all three pieces of a write.
\* Their lengths differ, so a position tells which of them was written.
SomeWrites == {<<1>>, <<1, 0, 1>>, <<0, 1, 1, 1>>}

\* The disk has room for the longest file, or lacks the last one of its blocks,
\* the last two, and so on to a full disk: each allocation fails once.
SomeOthers == {{}, {4}, {3, 4}, {2, 3, 4}, {1, 2, 3, 4}}

\* Descriptors are interchangeable.
Handles == Permutations(Handle)
=============================================================================
