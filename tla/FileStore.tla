----------------------------- MODULE FileStore -----------------------------
(***************************************************************************)
(* What a flat file system promises: each path that exists has its own     *)
(* bytes, and an operation on one path leaves the others alone.            *)
(***************************************************************************)
EXTENDS Integers, Sequences

CONSTANTS Paths, Buffers       \* Buffers: what one write may store

VARIABLE files                 \* a function from the paths that exist to bytes

FInit == files = [p \in {} |-> <<>>]

\* c with the bytes s written at offset off, which is at most Len(c).
Overwrite(c, off, s) ==
  [k \in 1..(IF off + Len(s) > Len(c) THEN off + Len(s) ELSE Len(c)) |->
     IF k > off /\ k <= off + Len(s) THEN s[k - off] ELSE c[k]]

\* What an operation on p makes of the files f.
Created(f, p) == [q \in DOMAIN f \cup {p} |-> IF q = p THEN <<>> ELSE f[q]]
Removed(f, p) == [q \in DOMAIN f \ {p} |-> f[q]]
Written(f, p, off, s) == [f EXCEPT ![p] = Overwrite(@, off, s)]

\* The files may go from f to g.  A write that fails or is cut short part of the
\* way is a shorter write that does not extend the file.
Step(f, g) ==
  \E p \in Paths :
    \/ p \notin DOMAIN f /\ g = Created(f, p)
    \/ p \in DOMAIN f /\ g = Removed(f, p)
    \/ /\ p \in DOMAIN f
       /\ \E s \in Buffers, off \in 0..Len(f[p]) : g = Written(f, p, off, s)

FNext == Step(files, files')

FSpec == FInit /\ [][FNext]_files
=============================================================================
