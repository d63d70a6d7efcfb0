------------------------------ MODULE Allocator ------------------------------
(***************************************************************************)
(* What the C library promises of malloc, free and realloc: the regions a  *)
(* program holds never overlap.  Nothing here has headers, free lists or   *)
(* rounding.                                                               *)
(***************************************************************************)
EXTENDS Integers

VARIABLE live    \* the pointers the program holds, each with its length

Apart(p, m, q, n) == p + m <= q \/ q + n <= p

Holding(p, n) == live' = [q \in DOMAIN live \union {p} |-> IF q = p THEN n ELSE live[q]]
Dropping(p)   == live' = [q \in DOMAIN live \ {p} |-> live[q]]

Malloc(p, n) ==
    /\ \A q \in DOMAIN live : p # q /\ Apart(p, n, q, live[q])
    /\ Holding(p, n)

Free(p) == p \in DOMAIN live /\ Dropping(p)

(* In the same place, apart from the other regions, ... *)
Resize(p, n) ==
    /\ p \in DOMAIN live
    /\ \A q \in DOMAIN live \ {p} : Apart(p, n, q, live[q])
    /\ Holding(p, n)

(* ... or in another, apart from the old one too, which is still read. *)
Move(p, r, n) ==
    /\ p \in DOMAIN live
    /\ \A q \in DOMAIN live : r # q /\ Apart(r, n, q, live[q])
    /\ live' = [q \in (DOMAIN live \ {p}) \union {r} |-> IF q = r THEN n ELSE live[q]]

Init == live = << >>

(* The new pointer and length can be read off the next state. *)
Next ==
    \/ \E p \in DOMAIN live' : Malloc(p, live'[p])
    \/ \E p \in DOMAIN live : Free(p)
    \/ \E p \in DOMAIN live \intersect DOMAIN live' : Resize(p, live'[p])
    \/ \E p \in DOMAIN live, r \in DOMAIN live' : Move(p, r, live'[r])

Spec == Init /\ [][Next]_live
=============================================================================
