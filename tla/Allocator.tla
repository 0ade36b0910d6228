----------------------------- MODULE Allocator -----------------------------
(***************************************************************************)
(* What a caller may rely on of an allocator such as myallocate and        *)
(* mydeallocate: a request is answered with a range of the arena that      *)
(* overlaps nothing handed out before, and a free gives back exactly the   *)
(* range it names.  Headers, placement and merging are not visible here.   *)
(***************************************************************************)
EXTENDS Integers

CONSTANTS
  Limit,      \* bytes of the arena
  Requests    \* the sizes that are asked for

VARIABLE
  owned       \* from the pointers handed out and not yet freed to their sizes

Disjoint(p, m, q, n) == p + m <= q \/ q + n <= p

AInit == owned = [p \in {} |-> 0]

Malloc(n) ==
  \E p \in 0..Limit :
    /\ p \notin DOMAIN owned
    /\ p + n <= Limit
    /\ \A q \in DOMAIN owned : Disjoint(p, n, q, owned[q])
    /\ owned' = [q \in DOMAIN owned \cup {p} |-> IF q = p THEN n ELSE owned[q]]

Free(p) ==
  /\ p \in DOMAIN owned
  /\ owned' = [q \in DOMAIN owned \ {p} |-> owned[q]]

ANext ==
  \/ \E n \in Requests : Malloc(n)
  \/ \E p \in 0..Limit : Free(p)

ASpec == AInit /\ [][ANext]_owned
=============================================================================
