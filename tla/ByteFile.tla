------------------------------ MODULE ByteFile ------------------------------
(***************************************************************************)
(* What a file promises to its users: a sequence of bytes and descriptors  *)
(* with a position each.  SfsFile implements it.                           *)
(***************************************************************************)
EXTENDS Integers, Sequences

CONSTANTS
    Handle,     \* descriptors
    Writes,     \* byte sequences that are written
    MaxRead,    \* bytes that one call reads at most
    MaxPos,     \* positions are at most this
    CLOSED

VARIABLES
    content,    \* the bytes of the file
    pos         \* position of each descriptor, or CLOSED

vars == <<content, pos>>

\* c with the bytes b written at offset k, a gap before them filled with 0.
Overwrite(c, k, b) ==
    [i \in 1..(IF k + Len(b) > Len(c) THEN k + Len(b) ELSE Len(c)) |->
        IF i > k /\ i <= k + Len(b) THEN b[i - k]
        ELSE IF i <= Len(c) THEN c[i] ELSE 0]

Init == content = <<>> /\ pos = [h \in Handle |-> CLOSED]

\* Opening truncates the file or leaves it; the position is its start or end.
Open(h) ==
    /\ pos[h] = CLOSED
    /\ content' \in {content, <<>>}
    /\ \E p \in {0, Len(content')} : pos' = [pos EXCEPT ![h] = p]

\* A read moves over the bytes that are there.
Read(h, n) ==
    /\ pos[h] # CLOSED /\ pos[h] < Len(content)
    /\ pos' = [pos EXCEPT ![h] = IF @ + n < Len(content) THEN @ + n ELSE Len(content)]
    /\ UNCHANGED content

\* A write may be short, and moves over what it has written.
Write(h, w) ==
    /\ pos[h] # CLOSED
    /\ \E n \in 1..Len(w) :
          /\ pos' = [pos EXCEPT ![h] = @ + n]
          /\ content' = Overwrite(content, pos[h], SubSeq(w, 1, n))

\* A seek past the end makes the file longer.
Seek(h, p) ==
    /\ pos[h] # CLOSED
    /\ pos' = [pos EXCEPT ![h] = p]
    /\ content' = IF p > Len(content) THEN Overwrite(content, p, <<>>) ELSE content

Close(h) ==
    /\ pos[h] # CLOSED
    /\ pos' = [pos EXCEPT ![h] = CLOSED]
    /\ UNCHANGED content

Next ==
    \E h \in Handle :
       \/ Open(h) \/ Close(h)
       \/ \E n \in 1..MaxRead : Read(h, n)
       \/ \E w \in Writes : Write(h, w)
       \/ \E p \in 0..MaxPos : Seek(h, p)

Spec == Init /\ [][Next]_vars
=============================================================================
