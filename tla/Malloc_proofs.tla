--------------------------- MODULE Malloc_proofs ---------------------------
(***************************************************************************)
(* The heap of module Malloc stays intact, whatever the sizes of headers,  *)
(* blocks and extensions and wherever the stack is.                        *)
(*                                                                         *)
(* Every operation on the heap is put together from five: a block is       *)
(* linked in, unlinked, taken in by the block before it, split, or added   *)
(* at the end.  A lemma for each says that it keeps a heap sound, and what *)
(* it does to the set of allocated blocks.                                 *)
(***************************************************************************)
EXTENDS Malloc, TLAPS

Allocated(h) == Blocks(h) \ FreeBlocks(h)

HeapType(h) ==
    /\ Blocks(h) \subseteq Nat \ {0}
    /\ h.size \in [Blocks(h) -> Nat \ {0}]
    /\ h.next \in [Blocks(h) -> Nat]
    /\ h.freeblocks \in Nat
    /\ h.endinitted \in Nat

Sound(h) == HeapType(h) /\ Tiled(h) /\ Chained(h)

(* Only pointers differ. *)
SameBlocks(g, h) ==
    /\ Blocks(g) = Blocks(h) /\ g.size = h.size /\ g.endinitted = h.endinitted
    /\ \A a \in Blocks(h) : After(g, a) = After(h, a)

(* y is the first of F above x, or NULL when there is none. *)
Above(F, x, y) ==
    \/ y = NULL /\ \A b \in F : b <= x
    \/ y \in F /\ y > x /\ \A b \in F : b > x => y <= b

(* No size that is asked for comes so close to the end of the address space
   that rounding it up wraps around. *)
NoWrap ==
    /\ \A s \in Sizes : s + 2 * OVERHEAD <= AddrSpace
    /\ \A n \in Counts, s \in ElementSizes : Unwrapped(n, s) => n * s + 2 * OVERHEAD <= AddrSpace

(* The inductive invariant. *)
HeapInv == Sound(heap) /\ DOMAIN live = Allocated(heap)

CallInv ==
    /\ call.old \in DOMAIN live \union {NULL} /\ call.asked \in Nat
    /\ call # Idle => call.need \in Nat \ {0}

Lengths ==
    NoWrap =>
        /\ \A b \in DOMAIN live : live[b] \in Nat /\ live[b] + OVERHEAD <= heap.size[b]
        /\ call # Idle => call.asked + OVERHEAD <= call.need

Inv == HeapInv /\ CallInv /\ Lengths
-----------------------------------------------------------------------------
(* Numbers rounded down are at most one less than n smaller. *)
LEMMA Rounding ==
    ASSUME NEW x \in Nat, NEW n \in Nat \ {0}
    PROVE  RoundDown(x, n) \in Int /\ RoundDown(x, n) <= x /\ RoundDown(x, n) >= x - (n - 1)
<1>1. x % n \in 0 .. n - 1
  OBVIOUS
<1>2. QED
  BY <1>1, SMT DEF RoundDown

(* The program's data end above NULL. *)
LEMMA EndRwAboveNull == roundedendrw \in Nat \ {0}
<1>1. EndRw + OVERHEAD - 1 \in Nat /\ OVERHEAD \in Nat \ {0} /\ EndRw \in Nat \ {0}
  BY MallocAssumption, SMT
<1>2. QED
  BY <1>1, Rounding, SMT DEF roundedendrw

(* A block is never of no size. *)
LEMMA BlockSizePositive ==
    ASSUME NEW s \in Nat
    PROVE  BlockSize(s) \in Nat \ {0}
<1>1. OVERHEAD \in Nat \ {0} /\ MINSIZE \in Nat \ {0} /\ AddrSpace \in Nat \ {0}
  BY MallocAssumption
<1>2. s + 2 * OVERHEAD - 1 \in Nat
  BY <1>1, SMT
<1>3. (s + 2 * OVERHEAD - 1) % AddrSpace \in Nat
  BY <1>1, <1>2, SMT
<1>4. RNDSIZE(s) \in Int
  BY <1>1, <1>3, Rounding DEF RNDSIZE
<1>5. QED
  BY <1>1, <1>4, SMT DEF BlockSize

(* Without wrapping around, a block has room for its header and its length. *)
LEMMA BlockSizeSuffices ==
    ASSUME NEW s \in Nat, s + 2 * OVERHEAD <= AddrSpace
    PROVE  s + OVERHEAD <= BlockSize(s)
<1>1. OVERHEAD \in Nat \ {0} /\ MINSIZE \in Nat \ {0} /\ AddrSpace \in Nat \ {0}
  BY MallocAssumption
<1> DEFINE t == s + 2 * OVERHEAD - 1
<1>2. t \in Nat /\ t < AddrSpace
  BY <1>1, SMT
<1>3. RoundDown(t, OVERHEAD) \in Int /\ RoundDown(t, OVERHEAD) >= t - (OVERHEAD - 1)
  BY <1>1, <1>2, Rounding
<1>4. t % AddrSpace = t
  <2> HIDE DEF t
  <2>1. QED
    BY <1>1, <1>2, SMT
<1>5. RNDSIZE(s) = RoundDown(t, OVERHEAD)
  BY <1>4 DEF RNDSIZE
<1>6. RNDSIZE(s) \in Int /\ RNDSIZE(s) >= s + OVERHEAD
  BY <1>1, <1>3, <1>5, SMT
<1>7. QED
  BY <1>1, <1>6, SMT DEF BlockSize

(* Chained, as a fact about each link. *)
LEMMA ChainedIs ==
    ASSUME NEW h, HeapType(h)
    PROVE  Chained(h) <=> \A x \in Links(h) : Above(FreeBlocks(h), x, Link(h, x))
<1>1. FreeBlocks(h) \subseteq Nat /\ Links(h) \subseteq Nat
  BY SMT DEF HeapType, FreeBlocks, Links, NULL
<1>2. \A x \in Links(h) :
        Above(FreeBlocks(h), x, Link(h, x))
          <=> LET later == {b \in FreeBlocks(h) : b > x} IN
              \/ Link(h, x) = NULL /\ later = {}
              \/ Link(h, x) \in later /\ \A b \in later : Link(h, x) <= b
  BY <1>1, SMT DEF Above
<1>3. QED
  BY <1>2, Zenon DEF Chained
-----------------------------------------------------------------------------
(* What SetLink does to each part of the heap. *)
LEMMA SetLinkParts ==
    ASSUME NEW h, HeapType(h), NEW x \in Blocks(h) \union {NULL}, NEW to \in Nat
    PROVE  /\ HeapType(SetLink(h, x, to))
           /\ SameBlocks(SetLink(h, x, to), h)
           /\ \A a \in Blocks(h) :
                SetLink(h, x, to).next[a] = IF a = x THEN to ELSE h.next[a]
           /\ SetLink(h, x, to).freeblocks = IF x = NULL THEN to ELSE h.freeblocks
<1> DEFINE g == SetLink(h, x, to)
<1>1. /\ g.size = h.size /\ g.endinitted = h.endinitted
      /\ g.next = [a \in Blocks(h) |-> IF a = x THEN to ELSE h.next[a]]
      /\ g.freeblocks = IF x = NULL THEN to ELSE h.freeblocks
  BY DEF SetLink, Heap
<1>2. Blocks(g) = Blocks(h)
  BY <1>1 DEF Blocks
<1> HIDE DEF g
<1>3. HeapType(g)
  BY <1>1, <1>2, SMT DEF HeapType
<1>4. SameBlocks(g, h)
  BY <1>1, <1>2 DEF SameBlocks, After
<1>5. QED
  BY <1>1, <1>2, <1>3, <1>4 DEF g

(* Links are links to the parts. *)
LEMMA NotNull ==
    ASSUME NEW h, HeapType(h)
    PROVE  NULL \notin Blocks(h)
BY DEF HeapType, NULL

(* An allocated block is linked in where the loop of freeablock stops. *)
LEMMA LinkedIn ==
    ASSUME NEW h, Sound(h), NEW block \in Allocated(h), NEW x \in Links(h),
           StopsAt(h, block, x),
           NEW g, g = SetLink(SetLink(h, x, block), block, Link(h, x))
    PROVE  /\ Sound(g) /\ SameBlocks(g, h) /\ Allocated(g) = Allocated(h) \ {block}
           /\ Link(g, block) = Link(h, x)
<1> DEFINE m == SetLink(h, x, block)
           y == Link(h, x)
           F == FreeBlocks(h)
<1>1. /\ HeapType(h) /\ block \in Blocks(h) /\ h.next[block] = block
      /\ x \in Blocks(h) \union {NULL} /\ block \in Nat /\ block # NULL /\ x # block
      /\ y \in Nat /\ x \in Nat /\ F \subseteq Nat /\ NULL \notin Blocks(h)
  BY NotNull, SMT DEF Sound, HeapType, Allocated, Links, FreeBlocks, Link, NULL
<1>2. x < block /\ (y = NULL \/ y > block)
  BY DEF StopsAt
<1>3. y # block
  BY <1>1, <1>2, SMT
<1>4. \A z \in Links(h) : Above(F, z, Link(h, z))
  BY <1>1, ChainedIs DEF Sound
<1>5. /\ HeapType(m) /\ SameBlocks(m, h)
      /\ \A a \in Blocks(h) : m.next[a] = IF a = x THEN block ELSE h.next[a]
      /\ m.freeblocks = IF x = NULL THEN block ELSE h.freeblocks
  BY <1>1, SetLinkParts
<1>6. Blocks(m) = Blocks(h)
  BY <1>5 DEF SameBlocks
<1> HIDE DEF m, y, F
<1>7. /\ HeapType(g) /\ SameBlocks(g, m)
      /\ \A a \in Blocks(m) : g.next[a] = IF a = block THEN y ELSE m.next[a]
      /\ g.freeblocks = IF block = NULL THEN y ELSE m.freeblocks
  <2>1. g = SetLink(m, block, y) /\ block \in Blocks(m) \union {NULL}
    BY <1>1, <1>6 DEF m, y
  <2>2. QED
    BY <1>1, <1>5, <2>1, SetLinkParts
<1>8. /\ SameBlocks(g, h)
      /\ \A a \in Blocks(h) :
           g.next[a] = IF a = block THEN y ELSE IF a = x THEN block ELSE h.next[a]
      /\ g.freeblocks = IF x = NULL THEN block ELSE h.freeblocks
  BY <1>1, <1>5, <1>6, <1>7 DEF SameBlocks
<1>9. FreeBlocks(g) = F \union {block} /\ Allocated(g) = Allocated(h) \ {block}
  <2>1. Blocks(g) = Blocks(h)
    BY <1>8 DEF SameBlocks
  <2>2. x \in Blocks(h) => h.next[x] # x
    BY <1>1 DEF Links, FreeBlocks
  <2>3. \A a \in Blocks(h) : g.next[a] # a <=> (a = block \/ h.next[a] # a)
    BY <1>1, <1>3, <1>8, <2>2
  <2>4. FreeBlocks(g) = F \union {block}
    BY <1>1, <2>1, <2>3, SMT DEF FreeBlocks, F
  <2>5. QED
    BY <2>1, <2>4 DEF Allocated, F
<1>10. \A z \in Links(g) : Link(g, z) = IF z = x THEN block
                                        ELSE IF z = block THEN y ELSE Link(h, z)
  BY <1>1, <1>8, <1>9, SMT DEF Links, Link, FreeBlocks, F
<1>11. ASSUME NEW z \in Links(g) PROVE Above(F \union {block}, z, Link(g, z))
  <2>1. z \in Nat /\ (z \in F \/ z = NULL \/ z = block) /\ (x \in F \/ x = NULL)
    BY <1>1, <1>9, SMT DEF Links, NULL, F
  <2>2. Above(F, x, y)
    BY <1>4 DEF y
  <2>3. CASE z = x
    BY <1>1, <1>2, <1>10, <2>2, <2>3, SMT DEF Above, NULL
  <2>4. CASE z = block
    BY <1>1, <1>2, <1>10, <2>2, <2>4, SMT DEF Above, NULL
  <2>5. CASE z # x /\ z # block
    <3>1. Above(F, z, Link(h, z)) /\ Link(g, z) = Link(h, z)
      BY <1>4, <1>10, <2>1, <2>5 DEF Links, F
    <3>2. CASE z < x
      <4>1. x \in F
        BY <1>1, <2>1, <3>2, SMT DEF NULL
      <4>2. /\ Link(h, z) \in F /\ Link(h, z) > z /\ Link(h, z) <= x
            /\ \A b \in F : b > z => Link(h, z) <= b
        BY <1>1, <2>1, <3>1, <3>2, <4>1, SMT DEF Above, NULL
      <4>3. Link(g, z) \in Nat /\ Link(g, z) \in F /\ Link(g, z) <= block
        <5>1. Link(g, z) = Link(h, z)
          BY <3>1
        <5>2. Link(h, z) \in Nat
          BY <1>1, <4>2
        <5>3. Link(h, z) <= block
          BY <1>1, <1>2, <4>2, <5>2, SMT
        <5>4. QED
          BY <4>2, <5>1, <5>2, <5>3
      <4>4. \A b \in F \union {block} : b > z => Link(g, z) <= b
        BY <3>1, <4>2, <4>3
      <4>5. QED
        BY <3>1, <4>2, <4>3, <4>4 DEF Above
    <3>3. CASE z > x
      <4>1. z \in F /\ z > block
        BY <1>1, <1>2, <2>1, <2>2, <2>5, <3>3, SMT DEF Above, NULL
      <4>2. QED
        BY <1>1, <2>1, <3>1, <4>1, SMT DEF Above
    <3>4. QED
      BY <1>1, <2>1, <2>5, <3>2, <3>3, SMT
  <2>6. QED
    BY <2>3, <2>4, <2>5
<1>12. Chained(g)
  BY <1>7, <1>9, <1>11, ChainedIs
<1>13. Tiled(g)
  BY <1>8, SMT DEF Tiled, Sound, SameBlocks
<1>14. Link(g, block) = y
  BY <1>1, <1>8 DEF Link
<1>15. QED
  BY <1>7, <1>8, <1>9, <1>12, <1>13, <1>14 DEF Sound, y

(* A free block is taken off the list and marked allocated. *)
LEMMA Unlinked ==
    ASSUME NEW h, Sound(h), NEW c \in FreeBlocks(h), NEW x \in Links(h), Link(h, x) = c,
           NEW g, g = SetLink(SetLink(h, x, h.next[c]), c, c)
    PROVE  /\ Sound(g) /\ SameBlocks(g, h) /\ Allocated(g) = Allocated(h) \union {c}
           /\ x < c /\ x \in Links(g) /\ Link(g, x) = h.next[c]
           /\ h.next[c] = NULL \/ (h.next[c] > c /\ h.next[c] \in FreeBlocks(h))
<1> DEFINE n == h.next[c]
           m == SetLink(h, x, n)
           F == FreeBlocks(h)
<1>1. /\ HeapType(h) /\ c \in Blocks(h) /\ c # NULL /\ c \in Nat /\ n # c /\ n \in Nat
      /\ x \in Blocks(h) \union {NULL} /\ x \in Nat /\ F \subseteq Nat
      /\ NULL \notin Blocks(h) /\ c \in F
  BY NotNull, SMT DEF Sound, HeapType, Links, FreeBlocks, Link, NULL
<1>2. \A z \in Links(h) : Above(F, z, Link(h, z))
  BY <1>1, ChainedIs DEF Sound
<1>3. Above(F, x, c) /\ Above(F, c, n)
  <2>1. c \in Links(h) /\ Link(h, c) = n
    BY <1>1 DEF Links, Link
  <2>2. QED
    BY <1>2, <2>1
<1>4. /\ HeapType(m) /\ SameBlocks(m, h)
      /\ \A a \in Blocks(h) : m.next[a] = IF a = x THEN n ELSE h.next[a]
      /\ m.freeblocks = IF x = NULL THEN n ELSE h.freeblocks
  <2> HIDE DEF n
  <2>1. QED
    BY <1>1, SetLinkParts
<1>5. Blocks(m) = Blocks(h)
  BY <1>4 DEF SameBlocks
<1> HIDE DEF m, n, F
<1>6. x < c /\ (n = NULL \/ n > c)
  BY <1>1, <1>3, SMT DEF Above
<1>7. /\ HeapType(g) /\ SameBlocks(g, m)
      /\ \A a \in Blocks(m) : g.next[a] = IF a = c THEN c ELSE m.next[a]
      /\ g.freeblocks = IF c = NULL THEN c ELSE m.freeblocks
  <2>1. g = SetLink(m, c, c) /\ c \in Blocks(m) \union {NULL}
    BY <1>1, <1>5 DEF m, n
  <2>2. QED
    BY <1>1, <1>4, <2>1, SetLinkParts
<1>8. /\ SameBlocks(g, h)
      /\ \A a \in Blocks(h) :
           g.next[a] = IF a = c THEN c ELSE IF a = x THEN n ELSE h.next[a]
      /\ g.freeblocks = IF x = NULL THEN n ELSE h.freeblocks
  BY <1>1, <1>4, <1>5, <1>7 DEF SameBlocks
<1>9. x # c /\ (x \in Blocks(h) => n # x)
  BY <1>1, <1>6, SMT DEF NULL
<1>10. FreeBlocks(g) = F \ {c} /\ Allocated(g) = Allocated(h) \union {c}
  <2>1. x \in Blocks(h) => h.next[x] # x
    BY <1>1 DEF Links, FreeBlocks
  <2>2. \A a \in Blocks(h) : g.next[a] = a <=> (a = c \/ h.next[a] = a)
    BY <1>8, <1>9, <2>1
  <2>3. Blocks(g) = Blocks(h)
    BY <1>8 DEF SameBlocks
  <2>4. FreeBlocks(g) = F \ {c}
    <3>1. \A a \in Blocks(h) : g.next[a] # a <=> (h.next[a] # a /\ a # c)
      BY <2>2
    <3>2. QED
      BY <2>3, <3>1, Zenon DEF FreeBlocks, F
  <2>5. Allocated(g) = Allocated(h) \union {c}
    BY <1>1, <2>3, <2>4 DEF Allocated, F
  <2>6. QED
    BY <2>4, <2>5
<1>11. \A z \in Links(g) : z \in Links(h) /\ Link(g, z) = IF z = x THEN n ELSE Link(h, z)
  BY <1>1, <1>8, <1>10, SMT DEF Links, Link, F, FreeBlocks
<1>12. ASSUME NEW z \in Links(g) PROVE Above(F \ {c}, z, Link(g, z))
  <2>1. z \in Nat /\ z # c /\ (z \in F \/ z = NULL) /\ (x \in F \/ x = NULL)
    BY <1>1, <1>10, SMT DEF Links, NULL, F
  <2>2. CASE z = x
    BY <1>1, <1>3, <1>6, <1>11, <2>2, SMT DEF Above, NULL
  <2>3. CASE z # x
    <3>1. Above(F, z, Link(h, z)) /\ Link(g, z) = Link(h, z)
      BY <1>2, <1>11, <2>3
    <3>2. Link(h, z) # c
      <4>1. CASE z < x
        BY <1>1, <1>6, <2>1, <3>1, <4>1, SMT DEF Above, NULL
      <4>2. CASE z > x
        BY <1>1, <1>3, <1>6, <2>1, <3>1, <4>2, SMT DEF Above, NULL
      <4>3. QED
        BY <1>1, <2>1, <2>3, <4>1, <4>2, SMT
    <3>3. QED
      BY <1>1, <2>1, <3>1, <3>2, SMT DEF Above
  <2>4. QED
    BY <2>2, <2>3
<1>13. Chained(g)
  BY <1>7, <1>10, <1>12, ChainedIs
<1>14. Tiled(g)
  BY <1>8, SMT DEF Tiled, Sound, SameBlocks
<1>15. x \in Links(g) /\ Link(g, x) = n
  BY <1>1, <1>8, <1>9, <1>10, SMT DEF Link, Links, F
<1>16. n = NULL \/ (n > c /\ n \in F)
  BY <1>1, <1>3, <1>6, SMT DEF Above
<1>17. QED
  BY <1>6, <1>7, <1>8, <1>10, <1>13, <1>14, <1>15, <1>16 DEF Sound, n, F

(* A block takes in the allocated block after it. *)
LEMMA TakenIn ==
    ASSUME NEW h, Sound(h), NEW b \in Blocks(h), NEW c \in Allocated(h), After(h, b) = c,
           NEW g, g = Absorb(h, b, c)
    PROVE  /\ Sound(g) /\ Allocated(g) = Allocated(h) \ {c}
           /\ FreeBlocks(g) = FreeBlocks(h)
           /\ \A z \in Links(h) : Link(g, z) = Link(h, z)
           /\ \A a \in Blocks(h) \ {b, c} : g.size[a] = h.size[a]
           /\ g.size[b] = h.size[b] + h.size[c]
           /\ b # c /\ Blocks(g) = Blocks(h) \ {c} /\ g.endinitted = h.endinitted
<1>1. /\ HeapType(h) /\ c \in Blocks(h) /\ h.next[c] = c /\ c \in Nat /\ b \in Nat
      /\ h.size[b] \in Nat \ {0} /\ h.size[c] \in Nat \ {0} /\ NULL \notin Blocks(h)
      /\ c = b + h.size[b]
  BY NotNull, SMT DEF Sound, HeapType, Allocated, FreeBlocks, After
<1>2. b # c
  BY <1>1, SMT
<1>3. /\ g.size = [a \in Blocks(h) \ {c} |->
                    IF a = b THEN h.size[b] + h.size[c] ELSE h.size[a]]
      /\ g.next = [a \in Blocks(h) \ {c} |-> h.next[a]]
      /\ g.freeblocks = h.freeblocks /\ g.endinitted = h.endinitted
  BY DEF Absorb, Heap
<1>4. Blocks(g) = Blocks(h) \ {c}
  BY <1>3 DEF Blocks
<1>5. /\ \A a \in Blocks(h) \ {b, c} : g.size[a] = h.size[a]
      /\ g.size[b] = h.size[b] + h.size[c]
      /\ \A a \in Blocks(g) : g.next[a] = h.next[a]
  BY <1>2, <1>3, <1>4
<1>6. HeapType(g)
  BY <1>1, <1>3, <1>4, SMT DEF HeapType
<1>7. FreeBlocks(g) = FreeBlocks(h) /\ Allocated(g) = Allocated(h) \ {c}
  BY <1>1, <1>4, <1>5 DEF FreeBlocks, Allocated
<1>8. \A z \in Links(h) : Link(g, z) = Link(h, z)
  BY <1>1, <1>3, <1>5, <1>7 DEF Link, Links, FreeBlocks
<1>9. Chained(g)
  BY <1>1, <1>6, <1>7, <1>8, ChainedIs DEF Sound, Links
<1>10. Tiled(g)
  <2>1. Tiled(h) /\ roundedendrw \in Nat \ {0}
    BY EndRwAboveNull DEF Sound
  <2>2. After(g, b) = After(h, c) /\ \A a \in Blocks(h) \ {b, c} : After(g, a) = After(h, a)
    BY <1>1, <1>5, SMT DEF After
  <2>3. b >= roundedendrw /\ roundedendrw \in Blocks(h) /\ h.endinitted # NULL
    BY <2>1 DEF Tiled
  <2>4. roundedendrw # c
    BY <1>1, <2>1, <2>3, SMT
  <2>5. ASSUME NEW a \in Blocks(g)
        PROVE  /\ a >= roundedendrw
               /\ After(g, a) = h.endinitted \/ After(g, a) \in Blocks(g)
               /\ After(g, a) <= h.endinitted
               /\ \A d \in Blocks(g) : a < d => After(g, a) <= d
    <3>1. a \in Blocks(h) /\ a # c
      BY <1>4
    <3>2. CASE a = b
      <4>1. After(h, c) > c
        BY <1>1, SMT DEF After
      <4>2. After(h, c) # c
        BY <1>1, SMT DEF After
      <4>3. ASSUME NEW d \in Blocks(g), b < d PROVE After(h, c) <= d
        <5>1. d \in Blocks(h) /\ d # c /\ d \in Nat
          BY <1>1, <1>4, SMT DEF HeapType
        <5>2. c <= d
          BY <1>1, <2>1, <4>3, <5>1 DEF Tiled
        <5>3. c < d
          BY <1>1, <5>1, <5>2, SMT
        <5>4. QED
          BY <1>1, <2>1, <5>1, <5>3 DEF Tiled
      <4>4. QED
        BY <1>1, <1>4, <2>1, <2>2, <3>2, <4>2, <4>3 DEF Tiled
    <3>3. CASE a # b
      <4>1. After(g, a) = After(h, a)
        BY <2>2, <3>1, <3>3
      <4>2. After(h, a) # c
        <5>1. a \in Nat /\ h.size[a] \in Nat \ {0} /\ After(h, a) = a + h.size[a]
          BY <1>1, <3>1, SMT DEF HeapType, After
        <5>2. a < b => After(h, a) <= b
          BY <2>1, <3>1 DEF Tiled
        <5>3. b < a => c <= a
          BY <2>1, <3>1 DEF Tiled
        <5>4. QED
          BY <1>1, <3>3, <5>1, <5>2, <5>3, SMT
      <4>3. QED
        BY <1>4, <2>1, <3>1, <4>1, <4>2 DEF Tiled
    <3>4. QED
      BY <3>2, <3>3
  <2>6. QED
    BY <1>3, <1>4, <2>3, <2>4, <2>5 DEF Tiled
<1>11. QED
  BY <1>2, <1>3, <1>4, <1>5, <1>6, <1>7, <1>8, <1>9, <1>10 DEF Sound

(* The tail of an allocated block becomes an allocated block. *)
LEMMA SplitOff ==
    ASSUME NEW h, Sound(h), NEW b \in Allocated(h), NEW s \in Nat \ {0}, s < h.size[b],
           NEW g, g = Split(h, b, s, b + s)
    PROVE  /\ Sound(g) /\ Allocated(g) = Allocated(h) \union {b + s}
           /\ b + s \notin Blocks(h)
           /\ FreeBlocks(g) = FreeBlocks(h)
           /\ \A z \in Links(h) : Link(g, z) = Link(h, z)
           /\ \A a \in Blocks(h) \ {b} : g.size[a] = h.size[a]
           /\ g.size[b] = s
           /\ Blocks(g) = Blocks(h) \union {b + s} /\ g.endinitted = h.endinitted
<1> DEFINE c == b + s
<1>1. /\ HeapType(h) /\ Tiled(h) /\ b \in Blocks(h) /\ h.next[b] = b /\ b \in Nat
      /\ h.size[b] \in Nat \ {0} /\ NULL \notin Blocks(h) /\ c \in Nat /\ c > b /\ c # NULL
      /\ After(h, b) = b + h.size[b] /\ c < After(h, b)
  BY NotNull, SMT DEF Sound, HeapType, Allocated, FreeBlocks, After, NULL
<1> HIDE DEF c
<1>2. c \notin Blocks(h)
  <2>1. c \in Blocks(h) => After(h, b) <= c
    BY <1>1, SMT DEF Tiled
  <2>2. QED
    BY <1>1, <2>1, SMT
<1>3. /\ g.size = [a \in Blocks(h) \union {c} |->
                    IF a = b THEN s ELSE IF a = c THEN h.size[b] - s ELSE h.size[a]]
      /\ g.next = [a \in Blocks(h) \union {c} |-> IF a = c THEN c ELSE h.next[a]]
      /\ g.freeblocks = h.freeblocks /\ g.endinitted = h.endinitted
  BY DEF Split, Heap, c
<1>4. Blocks(g) = Blocks(h) \union {c}
  BY <1>3 DEF Blocks
<1>5. /\ \A a \in Blocks(h) \ {b} : g.size[a] = h.size[a] /\ g.next[a] = h.next[a]
      /\ g.size[b] = s /\ g.next[b] = b
      /\ g.size[c] = h.size[b] - s /\ g.next[c] = c
  BY <1>1, <1>2, <1>3
<1>6. HeapType(g)
  <2>1. h.size[b] - s \in Nat \ {0}
    BY <1>1, SMT
  <2>2. Blocks(g) \subseteq Nat \ {0}
    BY <1>1, <1>4 DEF HeapType, NULL
  <2>3. g.size \in [Blocks(g) -> Nat \ {0}]
    BY <1>1, <1>3, <1>4, <2>1 DEF HeapType
  <2>4. g.next \in [Blocks(g) -> Nat]
    BY <1>1, <1>3, <1>4 DEF HeapType
  <2>5. QED
    BY <1>1, <1>3, <2>2, <2>3, <2>4 DEF HeapType
<1>7. FreeBlocks(g) = FreeBlocks(h) /\ Allocated(g) = Allocated(h) \union {c}
  <2>1. \A a \in Blocks(g) : a \in FreeBlocks(g) <=> a \in FreeBlocks(h)
    BY <1>1, <1>2, <1>4, <1>5 DEF FreeBlocks
  <2>2. FreeBlocks(g) \subseteq Blocks(g) /\ FreeBlocks(h) \subseteq Blocks(h)
    BY DEF FreeBlocks
  <2>3. FreeBlocks(g) = FreeBlocks(h)
    BY <1>4, <2>1, <2>2
  <2>4. QED
    BY <1>2, <1>4, <2>2, <2>3 DEF Allocated
<1>8. \A z \in Links(h) : Link(g, z) = Link(h, z)
  BY <1>1, <1>3, <1>5, <1>7 DEF Link, Links, FreeBlocks
<1>9. Chained(g)
  BY <1>1, <1>6, <1>7, <1>8, ChainedIs DEF Sound, Links
<1>10. Tiled(g)
  <2>1. roundedendrw \in Nat \ {0}
    BY EndRwAboveNull
  <2>2. /\ After(g, b) = c /\ After(g, c) = After(h, b)
        /\ \A a \in Blocks(h) \ {b} : After(g, a) = After(h, a)
    BY <1>1, <1>5, SMT DEF After, c
  <2>3. /\ b >= roundedendrw /\ roundedendrw \in Blocks(h) /\ h.endinitted # NULL
        /\ After(h, b) <= h.endinitted /\ h.endinitted \in Nat
    BY <1>1 DEF Tiled, HeapType
  <2>4. ASSUME NEW a \in Blocks(g)
        PROVE  /\ a >= roundedendrw
               /\ After(g, a) = h.endinitted \/ After(g, a) \in Blocks(g)
               /\ After(g, a) <= h.endinitted
               /\ \A d \in Blocks(g) : a < d => After(g, a) <= d
    <3>1. CASE a = b
      <4>1. ASSUME NEW d \in Blocks(h), b < d PROVE c <= d
        <5>1. d \in Nat /\ After(h, b) <= d
          BY <1>1, <4>1, SMT DEF HeapType, Tiled
        <5>2. QED
          BY <1>1, <5>1, SMT
      <4>2. c <= h.endinitted /\ c <= c
        BY <1>1, <2>3, SMT
      <4>3. QED
        BY <1>4, <2>2, <2>3, <3>1, <4>1, <4>2
    <3>2. CASE a = c
      <4>1. ASSUME NEW d \in Blocks(h), c < d PROVE After(h, b) <= d
        <5>1. d \in Nat
          BY <1>1, SMT DEF HeapType
        <5>2. b < d
          BY <1>1, <4>1, <5>1, SMT
        <5>3. QED
          BY <1>1, <5>2 DEF Tiled
      <4>2. c >= roundedendrw /\ ~(c < c)
        BY <1>1, <2>1, <2>3, SMT
      <4>3. After(h, b) = h.endinitted \/ After(h, b) \in Blocks(h)
        BY <1>1 DEF Tiled
      <4>4. QED
        BY <1>4, <2>2, <2>3, <3>2, <4>1, <4>2, <4>3
    <3>3. CASE a \in Blocks(h) /\ a # b
      <4>1. After(g, a) = After(h, a)
        BY <2>2, <3>3
      <4>2. a < c => After(h, a) <= c
        <5>1. a \in Nat /\ h.size[a] \in Nat \ {0} /\ After(h, a) = a + h.size[a]
          BY <1>1, <3>3, SMT DEF HeapType, After
        <5>2. a < b => After(h, a) <= b
          BY <1>1, <3>3 DEF Tiled
        <5>3. b < a => After(h, b) <= a
          BY <1>1, <3>3 DEF Tiled
        <5>4. QED
          BY <1>1, <3>3, <5>1, <5>2, <5>3, SMT
      <4>3. QED
        BY <1>1, <1>4, <3>3, <4>1, <4>2 DEF Tiled
    <3>4. QED
      BY <1>4, <3>1, <3>2, <3>3
  <2>5. QED
    BY <1>3, <1>4, <2>3, <2>4 DEF Tiled
<1>11. QED
  BY <1>2, <1>3, <1>4, <1>5, <1>6, <1>7, <1>8, <1>9, <1>10 DEF Sound, c

(* An allocated block is laid out behind the last. *)
LEMMA GrownBy ==
    ASSUME NEW h, Sound(h), NEW by \in Nat \ {0}, NEW g, g = Grown(h, by)
    PROVE  /\ Sound(g) /\ Allocated(g) = Allocated(h) \union {EndOf(h)}
           /\ EndOf(h) \notin Blocks(h)
           /\ FreeBlocks(g) = FreeBlocks(h)
           /\ \A z \in Links(h) : Link(g, z) = Link(h, z)
           /\ \A a \in Blocks(h) : g.size[a] = h.size[a]
<1> DEFINE e == EndOf(h)
<1>1. HeapType(h) /\ Tiled(h) /\ NULL \notin Blocks(h) /\ roundedendrw \in Nat \ {0}
  BY NotNull, EndRwAboveNull DEF Sound
<1>2. e \in Nat \ {0} /\ e # NULL /\ e >= roundedendrw
  <2>1. CASE h.endinitted = NULL
    BY <1>1, <2>1, SMT DEF EndOf, NULL
  <2>2. CASE h.endinitted # NULL
    <3>1. roundedendrw \in Blocks(h)
      BY <1>1, <2>2 DEF Tiled
    <3>2. After(h, roundedendrw) <= h.endinitted /\ h.size[roundedendrw] \in Nat
      BY <1>1, <3>1 DEF Tiled, HeapType
    <3>3. QED
      BY <1>1, <2>2, <3>2, SMT DEF EndOf, NULL, HeapType, After
  <2>3. QED
    BY <2>1, <2>2
<1>3. \A a \in Blocks(h) : a < e /\ After(h, a) <= e /\ (After(h, a) = e \/ After(h, a) \in Blocks(h))
  <2> SUFFICES ASSUME NEW a \in Blocks(h)
               PROVE  a < e /\ After(h, a) <= e /\ (After(h, a) = e \/ After(h, a) \in Blocks(h))
    OBVIOUS
  <2>1. h.endinitted # NULL /\ After(h, a) <= h.endinitted
        /\ (After(h, a) = h.endinitted \/ After(h, a) \in Blocks(h))
    BY <1>1 DEF Tiled
  <2>2. a \in Nat /\ h.size[a] \in Nat \ {0} /\ h.endinitted \in Nat
    BY <1>1 DEF HeapType
  <2>3. e = h.endinitted
    BY <2>1 DEF EndOf
  <2>4. QED
    BY <2>1, <2>2, <2>3, SMT DEF After
<1> HIDE DEF e
<1>4. e \notin Blocks(h)
  BY <1>2, <1>3, SMT
<1>5. /\ g.size = [a \in Blocks(h) \union {e} |-> IF a = e THEN by ELSE h.size[a]]
      /\ g.next = [a \in Blocks(h) \union {e} |-> IF a = e THEN a ELSE h.next[a]]
      /\ g.freeblocks = h.freeblocks /\ g.endinitted = e + by
  BY DEF Grown, Heap, e
<1>6. Blocks(g) = Blocks(h) \union {e}
  BY <1>5 DEF Blocks
<1>7. /\ \A a \in Blocks(h) : g.size[a] = h.size[a] /\ g.next[a] = h.next[a]
      /\ g.size[e] = by /\ g.next[e] = e
  BY <1>4, <1>5
<1>8. HeapType(g)
  BY <1>1, <1>2, <1>5, <1>6, SMT DEF HeapType
<1>9. FreeBlocks(g) = FreeBlocks(h) /\ Allocated(g) = Allocated(h) \union {e}
  <2>1. \A a \in Blocks(g) : a \in FreeBlocks(g) <=> a \in FreeBlocks(h)
    BY <1>4, <1>6, <1>7 DEF FreeBlocks
  <2>2. FreeBlocks(g) \subseteq Blocks(g) /\ FreeBlocks(h) \subseteq Blocks(h)
    BY DEF FreeBlocks
  <2>3. FreeBlocks(g) = FreeBlocks(h)
    BY <1>6, <2>1, <2>2
  <2>4. QED
    BY <1>4, <1>6, <2>2, <2>3 DEF Allocated
<1>10. \A z \in Links(h) : Link(g, z) = Link(h, z)
  BY <1>1, <1>5, <1>7, <1>9 DEF Link, Links, FreeBlocks
<1>11. Chained(g)
  BY <1>1, <1>8, <1>9, <1>10, ChainedIs DEF Sound, Links
<1>12. Tiled(g)
  <2>1. /\ \A a \in Blocks(h) : After(g, a) = After(h, a)
        /\ After(g, e) = e + by /\ g.endinitted = e + by
    BY <1>5, <1>7 DEF After
  <2>2. e + by \in Nat /\ e + by > e /\ e + by # NULL
    BY <1>2, SMT DEF NULL
  <2>3. roundedendrw \in Blocks(g)
    <3>1. CASE h.endinitted = NULL
      BY <1>6, <3>1 DEF EndOf, e
    <3>2. CASE h.endinitted # NULL
      BY <1>1, <1>6, <3>2 DEF Tiled
    <3>3. QED
      BY <3>1, <3>2
  <2>4. ASSUME NEW a \in Blocks(g)
        PROVE  /\ a >= roundedendrw
               /\ After(g, a) = g.endinitted \/ After(g, a) \in Blocks(g)
               /\ After(g, a) <= g.endinitted
               /\ \A d \in Blocks(g) : a < d => After(g, a) <= d
    <3>1. CASE a = e
      <4>1. \A d \in Blocks(g) : ~(e < d)
        BY <1>1, <1>2, <1>3, <1>6, SMT DEF HeapType
      <4>2. e + by <= e + by
        BY <2>2, SMT
      <4>3. QED
        BY <1>2, <2>1, <3>1, <4>1, <4>2
    <3>2. CASE a \in Blocks(h)
      <4>1. a >= roundedendrw /\ After(h, a) \in Nat
        BY <1>1, <3>2, SMT DEF Tiled, HeapType, After
      <4>2. After(h, a) <= e /\ After(h, a) <= e + by
        BY <1>2, <1>3, <2>2, <3>2, <4>1, SMT
      <4>3. \A d \in Blocks(h) : a < d => After(h, a) <= d
        BY <1>1, <3>2 DEF Tiled
      <4>4. QED
        BY <1>3, <1>6, <2>1, <3>2, <4>1, <4>2, <4>3
    <3>3. QED
      BY <1>6, <3>1, <3>2
  <2>5. QED
    BY <2>1, <2>2, <2>3, <2>4 DEF Tiled
<1>13. QED
  BY <1>4, <1>7, <1>8, <1>9, <1>10, <1>11, <1>12 DEF Sound, e
-----------------------------------------------------------------------------
(* A block takes in the free block after it, which link x points to. *)
LEMMA TakenOffList ==
    ASSUME NEW h, Sound(h), NEW c \in FreeBlocks(h), NEW x \in Links(h), Link(h, x) = c,
           NEW b \in Blocks(h), After(h, b) = c,
           NEW g, g = Absorb(SetLink(h, x, h.next[c]), b, c)
    PROVE  /\ Sound(g) /\ Allocated(g) = Allocated(h)
           /\ \A a \in Blocks(h) \ {b, c} : g.size[a] = h.size[a]
           /\ g.size[b] = h.size[b] + h.size[c]
           /\ b # c /\ Blocks(g) = Blocks(h) \ {c}
<1> DEFINE m == SetLink(h, x, h.next[c])
           u == SetLink(m, c, c)
<1>1. /\ Sound(u) /\ SameBlocks(u, h) /\ Allocated(u) = Allocated(h) \union {c}
  BY Unlinked
<1>2. c \in Allocated(u) /\ b \in Blocks(u) /\ After(u, b) = c
  BY <1>1 DEF SameBlocks
<1>3. g = Absorb(u, b, c)
  <2>1. c # NULL
    BY NotNull DEF Sound, FreeBlocks
  <2>2. /\ u.size = m.size /\ u.endinitted = m.endinitted /\ u.freeblocks = m.freeblocks
        /\ u.next = [a \in Blocks(m) |-> IF a = c THEN c ELSE m.next[a]]
    BY <2>1 DEF SetLink, Heap
  <2>3. Blocks(u) = Blocks(m)
    BY <2>2 DEF Blocks
  <2> HIDE DEF u, m
  <2>4. [a \in Blocks(u) \ {c} |-> u.next[a]] = [a \in Blocks(m) \ {c} |-> m.next[a]]
    BY <2>2, <2>3
  <2>5. g = Absorb(m, b, c)
    BY DEF m
  <2>6. QED
    BY <2>2, <2>3, <2>4, <2>5 DEF Absorb
<1> HIDE DEF u, m
<1>4. /\ Sound(g) /\ Allocated(g) = Allocated(u) \ {c}
      /\ \A a \in Blocks(u) \ {b, c} : g.size[a] = u.size[a]
      /\ g.size[b] = u.size[b] + u.size[c]
      /\ b # c /\ Blocks(g) = Blocks(u) \ {c}
  BY <1>1, <1>2, <1>3, TakenIn
<1>5. c \notin Allocated(h)
  BY DEF Allocated
<1>6. QED
  BY <1>1, <1>4, <1>5 DEF SameBlocks

(* freeablock: an allocated block is free afterwards, no other changes hands. *)
LEMMA FreedIsSound ==
    ASSUME NEW h, Sound(h), NEW block \in Allocated(h), NEW g \in Freed(h, block)
    PROVE  /\ Sound(g) /\ Allocated(g) = Allocated(h) \ {block}
           /\ \A a \in Allocated(g) : g.size[a] = h.size[a]
<1>1. PICK x \in Links(h) : StopsAt(h, block, x) /\ g = FreedAt(h, block, x)
  BY DEF Freed
<1> DEFINE y      == Link(h, x)
           joins  == x # NULL /\ After(h, x) = block
           b      == IF joins THEN x ELSE block
           linked == Linked(h, block, x)
<1>2. block \in Blocks(h) /\ HeapType(h) /\ Allocated(h) \subseteq Blocks(h)
  BY DEF Allocated, Sound
<1>3. /\ Sound(linked) /\ Allocated(linked) = Allocated(h) \ {block}
      /\ \A a \in Allocated(linked) : linked.size[a] = h.size[a]
      /\ b \in FreeBlocks(linked) /\ Link(linked, b) = y
  <2>1. CASE joins
    <3>1. linked = Absorb(h, x, block) /\ b = x /\ x \in FreeBlocks(h)
      BY <2>1 DEF Linked, Links
    <3>2. x \in Blocks(h) /\ After(h, x) = block /\ x \notin Allocated(h)
      BY <2>1, <3>1 DEF FreeBlocks, Allocated
    <3> HIDE DEF linked, b, joins
    <3>3. /\ Sound(linked) /\ Allocated(linked) = Allocated(h) \ {block}
          /\ FreeBlocks(linked) = FreeBlocks(h)
          /\ \A z \in Links(h) : Link(linked, z) = Link(h, z)
          /\ \A a \in Blocks(h) \ {x, block} : linked.size[a] = h.size[a]
      BY <3>1, <3>2, TakenIn
    <3>4. QED
      BY <1>2, <3>1, <3>2, <3>3
  <2>2. CASE ~joins
    <3>1. linked = SetLink(SetLink(h, x, block), block, Link(h, x)) /\ b = block
      BY <2>2 DEF Linked
    <3> HIDE DEF linked, b, joins
    <3>2. /\ Sound(linked) /\ SameBlocks(linked, h)
          /\ Allocated(linked) = Allocated(h) \ {block} /\ Link(linked, block) = y
      BY <1>1, <3>1, LinkedIn
    <3>3. block \in FreeBlocks(linked)
      BY <1>2, <3>2 DEF SameBlocks, Allocated
    <3>4. QED
      BY <3>1, <3>2, <3>3 DEF SameBlocks
  <2>3. QED
    BY <2>1, <2>2
<1>4. g = IF y # NULL /\ After(linked, b) = y
          THEN Absorb(SetLink(linked, b, linked.next[y]), b, y) ELSE linked
  BY <1>1 DEF FreedAt
<1> HIDE DEF y, joins, b, linked
<1>5. CASE y # NULL /\ After(linked, b) = y
  <2>1. b \in Links(linked) /\ b \in Blocks(linked) /\ b \notin Allocated(linked)
    BY <1>3 DEF Links, FreeBlocks, Allocated
  <2>2. y \in FreeBlocks(linked)
    BY <1>3, <1>5, <2>1, ChainedIs DEF Sound, Above
  <2>3. g = Absorb(SetLink(linked, b, linked.next[y]), b, y)
    BY <1>4, <1>5
  <2>4. /\ Sound(g) /\ Allocated(g) = Allocated(linked)
        /\ \A a \in Blocks(linked) \ {b, y} : g.size[a] = linked.size[a]
    BY <1>3, <1>5, <2>1, <2>2, <2>3, TakenOffList
  <2>5. y \notin Allocated(linked) /\ Allocated(linked) \subseteq Blocks(linked)
    BY <2>2 DEF Allocated
  <2>6. QED
    BY <1>3, <2>1, <2>4, <2>5
<1>6. CASE ~(y # NULL /\ After(linked, b) = y)
  BY <1>3, <1>4, <1>6
<1>7. QED
  BY <1>5, <1>6
-----------------------------------------------------------------------------
(* SetLink of any record. *)
LEMMA SetLinkFields ==
    ASSUME NEW h, NEW x, NEW to
    PROVE  LET g == SetLink(h, x, to) IN
           /\ g.size = h.size /\ g.endinitted = h.endinitted /\ Blocks(g) = Blocks(h)
           /\ g.next = [a \in Blocks(h) |-> IF a = x THEN to ELSE h.next[a]]
           /\ g.freeblocks = IF x = NULL THEN to ELSE h.freeblocks
           /\ g = Heap(g.size, g.next, g.freeblocks, g.endinitted)
BY DEF SetLink, Heap, Blocks

(* malloc: the block found is allocated afterwards and as big as was needed. *)
LEMMA CarvedIsSound ==
    ASSUME NEW h, Sound(h), NEW block \in FreeBlocks(h), NEW x \in Links(h),
           Link(h, x) = block, NEW need \in Nat \ {0}, h.size[block] >= need,
           NEW g, g = Carved(h, x, block, need)
    PROVE  /\ Sound(g) /\ Allocated(g) = Allocated(h) \union {block}
           /\ \A a \in Allocated(h) : g.size[a] = h.size[a]
           /\ g.size[block] >= need
<1> DEFINE n == h.next[block]
           c == block + need
           u == SetLink(SetLink(h, x, n), block, block)
<1>1. /\ Sound(u) /\ SameBlocks(u, h) /\ Allocated(u) = Allocated(h) \union {block}
      /\ x < block /\ x \in Links(u) /\ Link(u, x) = n
      /\ n = NULL \/ (n > block /\ n \in FreeBlocks(h))
  BY Unlinked
<1>2. /\ HeapType(h) /\ Tiled(h) /\ block \in Blocks(h) /\ block \in Nat /\ c \in Nat /\ n \in Nat
      /\ h.size[block] \in Nat \ {0} /\ c > block /\ MINSIZE \in Nat \ {0}
      /\ x \in Nat /\ x \in Blocks(h) \union {NULL} /\ block # NULL /\ need \in Nat
  BY NotNull, MallocAssumption, SMT DEF Sound, HeapType, FreeBlocks, Links, NULL
<1>3. CASE ~(h.size[block] - need >= MINSIZE)
  <2>1. g = u
    BY <1>3 DEF Carved
  <2>2. QED
    BY <1>1, <1>2, <2>1 DEF SameBlocks, Allocated
<1>4. CASE h.size[block] - need >= MINSIZE
  <2> DEFINE p == Split(u, block, need, c)
             l == SetLink(SetLink(p, x, c), c, Link(p, x))
  <2>1. need < h.size[block] /\ u.size[block] = h.size[block] /\ block \in Allocated(u)
    BY <1>1, <1>2, <1>4, SMT DEF SameBlocks
  <2>2. /\ Sound(p) /\ Allocated(p) = Allocated(u) \union {c} /\ c \notin Blocks(u)
        /\ FreeBlocks(p) = FreeBlocks(u)
        /\ \A z \in Links(u) : Link(p, z) = Link(u, z)
        /\ \A a \in Blocks(u) \ {block} : p.size[a] = u.size[a]
        /\ p.size[block] = need
    <3> HIDE DEF u
    <3>1. QED
      BY <1>1, <2>1, SplitOff
  <2>3. Link(p, x) = n /\ x \in Links(p)
    BY <1>1, <2>2 DEF Links
  <2>4. StopsAt(p, c, x)
    <3>1. n # NULL => After(h, block) <= n
      BY <1>1, <1>2 DEF Tiled, FreeBlocks
    <3>2. x < c /\ (n = NULL \/ n > c)
      BY <1>1, <1>2, <2>1, <3>1, SMT DEF After
    <3>3. QED
      BY <2>3, <3>2 DEF StopsAt
  <2>5. /\ Sound(l) /\ SameBlocks(l, p) /\ Allocated(l) = Allocated(p) \ {c}
    <3> HIDE DEF p
    <3>1. QED
      BY <2>2, <2>3, <2>4, LinkedIn
  <2>6. g = l
    <3>1. x # block /\ x # c /\ c # block /\ c # NULL /\ c \notin Blocks(h)
      BY <1>1, <1>2, <2>2, SMT DEF SameBlocks, NULL
    <3> DEFINE q  == Split(h, block, need, n)
               q1 == SetLink(q, x, c)
               u0 == SetLink(h, x, n)
               l1 == SetLink(p, x, c)
               B  == Blocks(h) \union {c}
    <3>2. g = SetLink(q1, block, block)
      BY <1>4 DEF Carved
    <3>3. l = SetLink(l1, c, n) /\ u = SetLink(u0, block, block)
      BY <2>3
    <3>4. /\ q.size = [a \in B |-> IF a = block THEN need
                                  ELSE IF a = c THEN h.size[block] - need ELSE h.size[a]]
          /\ q.next = [a \in B |-> IF a = c THEN n ELSE h.next[a]]
          /\ q.freeblocks = h.freeblocks /\ q.endinitted = h.endinitted /\ Blocks(q) = B
      BY DEF Split, Heap, Blocks
    <3>5. /\ p.size = [a \in Blocks(u) \union {c} |-> IF a = block THEN need
                                  ELSE IF a = c THEN u.size[block] - need ELSE u.size[a]]
          /\ p.next = [a \in Blocks(u) \union {c} |-> IF a = c THEN c ELSE u.next[a]]
          /\ p.freeblocks = u.freeblocks /\ p.endinitted = u.endinitted
          /\ Blocks(p) = Blocks(u) \union {c}
      <4> HIDE DEF u
      <4>1. QED
        BY DEF Split, Heap, Blocks
    <3> HIDE DEF q, p, n, c, B
    <3>6. /\ q1.size = q.size /\ q1.endinitted = q.endinitted /\ Blocks(q1) = Blocks(q)
          /\ q1.next = [a \in Blocks(q) |-> IF a = x THEN c ELSE q.next[a]]
          /\ q1.freeblocks = IF x = NULL THEN c ELSE q.freeblocks
      BY SetLinkFields
    <3>7. /\ u0.size = h.size /\ u0.endinitted = h.endinitted /\ Blocks(u0) = Blocks(h)
          /\ u0.next = [a \in Blocks(h) |-> IF a = x THEN n ELSE h.next[a]]
          /\ u0.freeblocks = IF x = NULL THEN n ELSE h.freeblocks
      BY SetLinkFields
    <3>8. /\ l1.size = p.size /\ l1.endinitted = p.endinitted /\ Blocks(l1) = Blocks(p)
          /\ l1.next = [a \in Blocks(p) |-> IF a = x THEN c ELSE p.next[a]]
          /\ l1.freeblocks = IF x = NULL THEN c ELSE p.freeblocks
      BY SetLinkFields
    <3> HIDE DEF q1, u0, l1, u, l
    <3>9. /\ g.size = q1.size /\ g.endinitted = q1.endinitted
          /\ g.next = [a \in Blocks(q1) |-> IF a = block THEN block ELSE q1.next[a]]
          /\ g.freeblocks = q1.freeblocks
          /\ g = Heap(g.size, g.next, g.freeblocks, g.endinitted)
      BY <3>1, <3>2, SetLinkFields, <1>2
    <3>10. /\ u.size = u0.size /\ u.endinitted = u0.endinitted /\ Blocks(u) = Blocks(u0)
           /\ u.next = [a \in Blocks(u0) |-> IF a = block THEN block ELSE u0.next[a]]
           /\ u.freeblocks = u0.freeblocks
      BY <1>2, <3>3, SetLinkFields
    <3>11. /\ l.size = l1.size /\ l.endinitted = l1.endinitted
           /\ l.next = [a \in Blocks(l1) |-> IF a = c THEN n ELSE l1.next[a]]
           /\ l.freeblocks = l1.freeblocks
           /\ l = Heap(l.size, l.next, l.freeblocks, l.endinitted)
      BY <3>1, <3>3, SetLinkFields
    <3>12. g.size = l.size
      <4>1. g.size = q.size /\ l.size = p.size /\ u.size = h.size /\ Blocks(u) = Blocks(h)
        BY <3>6, <3>7, <3>8, <3>9, <3>10, <3>11
      <4>2. QED
        BY <3>4, <3>5, <4>1 DEF B
    <3>13. g.next = l.next
      <4>1. g.next = [a \in B |-> IF a = block THEN block ELSE IF a = x THEN c
                                  ELSE IF a = c THEN n ELSE h.next[a]]
        BY <3>4, <3>6, <3>9
      <4>2. l.next = [a \in B |-> IF a = c THEN n ELSE IF a = x THEN c
                                  ELSE IF a = c THEN c ELSE IF a = block THEN block
                                  ELSE IF a = x THEN n ELSE h.next[a]]
        <5>1. Blocks(p) = B /\ Blocks(u) = Blocks(h)
          BY <3>5, <3>7, <3>10 DEF B
        <5>2. \A a \in Blocks(h) : u.next[a] = IF a = block THEN block
                                               ELSE IF a = x THEN n ELSE h.next[a]
          BY <3>7, <3>10
        <5>3. \A a \in B : p.next[a] = IF a = c THEN c ELSE u.next[a]
          BY <3>5, <5>1
        <5>4. \A a \in B : l1.next[a] = IF a = x THEN c ELSE p.next[a]
          BY <3>8, <5>1
        <5>5. l.next = [a \in B |-> IF a = c THEN n ELSE l1.next[a]]
          BY <3>8, <3>11, <5>1
        <5>6. QED
          BY <5>2, <5>3, <5>4, <5>5 DEF B
      <4>3. QED
        BY <3>1, <4>1, <4>2
    <3>14. g.freeblocks = l.freeblocks /\ g.endinitted = l.endinitted
      BY <3>4, <3>5, <3>6, <3>7, <3>8, <3>9, <3>10, <3>11
    <3>15. QED
      BY <3>9, <3>11, <3>12, <3>13, <3>14
  <2>7. QED
    BY <1>1, <1>2, <2>1, <2>2, <2>5, <2>6, SMT DEF SameBlocks, Allocated, FreeBlocks
<1>5. QED
  BY <1>3, <1>4

(* What realloc does to a block in place: b keeps its pointer and has at least
   the size needed, the other allocated blocks are left alone. *)
KeptInPlace(g, h, b, need) ==
    /\ Sound(g) /\ Allocated(g) = Allocated(h)
    /\ \A a \in Allocated(h) \ {b} : g.size[a] = h.size[a]
    /\ g.size[b] >= need

LEMMA TrimmedIsSound ==
    ASSUME NEW h, Sound(h), NEW b \in Allocated(h), NEW need \in Nat \ {0},
           h.size[b] >= need, NEW g \in Trimmed(h, b, need)
    PROVE  KeptInPlace(g, h, b, need)
<1>1. h.size[b] \in Nat /\ b \in Nat /\ MINSIZE \in Nat \ {0} /\ b \in Blocks(h)
  BY MallocAssumption DEF Sound, HeapType, Allocated
<1>2. CASE ~(h.size[b] - need >= MINSIZE)
  BY <1>2 DEF Trimmed, KeptInPlace
<1>3. CASE h.size[b] - need >= MINSIZE
  <2> DEFINE c == b + need
             p == Split(h, b, need, c)
  <2>1. need < h.size[b]
    BY <1>1, <1>3, SMT
  <2>2. /\ Sound(p) /\ Allocated(p) = Allocated(h) \union {c} /\ c \notin Blocks(h)
        /\ \A a \in Blocks(h) \ {b} : p.size[a] = h.size[a]
        /\ p.size[b] = need
    BY <2>1, SplitOff
  <2>3. g \in Freed(p, c)
    BY <1>3 DEF Trimmed
  <2> HIDE DEF p, c
  <2>4. /\ Sound(g) /\ Allocated(g) = Allocated(p) \ {c}
        /\ \A a \in Allocated(g) : g.size[a] = p.size[a]
    BY <2>2, <2>3, FreedIsSound
  <2>5. Allocated(g) = Allocated(h) /\ Allocated(h) \subseteq Blocks(h)
    BY <2>2, <2>4 DEF Allocated
  <2>6. need >= need
    BY SMT
  <2>7. QED
    BY <2>2, <2>4, <2>5, <2>6 DEF KeptInPlace
<1>4. QED
  BY <1>2, <1>3

LEMMA MergedIsSound ==
    ASSUME NEW h, Sound(h), NEW b \in Allocated(h), NEW need \in Nat \ {0},
           Room(h, b, need), NEW g \in Merged(h, b, need)
    PROVE  KeptInPlace(g, h, b, need)
<1> DEFINE c == After(h, b)
<1>1. HeapType(h) /\ Tiled(h) /\ b \in Blocks(h) /\ h.endinitted \in Nat
  BY DEF Sound, HeapType, Allocated
<1>2. c \in FreeBlocks(h) /\ h.size[b] + h.size[c] >= need
  <2>1. c < h.endinitted /\ h.next[c] # c /\ h.size[b] + h.size[c] >= need
    BY DEF Room
  <2>2. c # h.endinitted
    BY <1>1, <2>1, SMT DEF HeapType, After
  <2>3. QED
    BY <1>1, <2>1, <2>2 DEF Tiled, FreeBlocks
<1>3. PICK x \in Links(h) :
        Link(h, x) = c /\ g \in Trimmed(Absorb(SetLink(h, x, h.next[c]), b, c), b, need)
  BY DEF Merged
<1> DEFINE m == Absorb(SetLink(h, x, h.next[c]), b, c)
<1>4. /\ Sound(m) /\ Allocated(m) = Allocated(h)
      /\ \A a \in Blocks(h) \ {b, c} : m.size[a] = h.size[a]
      /\ m.size[b] = h.size[b] + h.size[c]
  BY <1>1, <1>2, <1>3, TakenOffList
<1>5. m.size[b] >= need /\ g \in Trimmed(m, b, need)
  BY <1>2, <1>3, <1>4
<1> HIDE DEF m
<1>6. KeptInPlace(g, m, b, need)
  BY <1>4, <1>5, TrimmedIsSound
<1>7. c \notin Allocated(h) /\ Allocated(h) \subseteq Blocks(h)
  BY <1>2 DEF Allocated
<1>8. QED
  BY <1>4, <1>6, <1>7 DEF KeptInPlace

(* Extending memory leaves the allocated blocks alone. *)
LEMMA ExtensionIsSound ==
    ASSUME NEW h, Sound(h), NEW by, Rounded(h, by) \in Nat \ {0}, NEW g \in Extension(h, by)
    PROVE  /\ Sound(g) /\ Allocated(g) = Allocated(h)
           /\ \A a \in Allocated(h) : g.size[a] = h.size[a]
<1> DEFINE e == EndOf(h)
           m == Grown(h, Rounded(h, by))
<1>1. /\ Sound(m) /\ Allocated(m) = Allocated(h) \union {e} /\ e \notin Blocks(h)
      /\ \A a \in Blocks(h) : m.size[a] = h.size[a]
  BY GrownBy
<1>2. g \in Freed(m, e)
  BY DEF Extension
<1> HIDE DEF m, e
<1>3. /\ Sound(g) /\ Allocated(g) = Allocated(m) \ {e}
      /\ \A a \in Allocated(g) : g.size[a] = m.size[a]
  BY <1>1, <1>2, FreedIsSound
<1>4. Allocated(g) = Allocated(h) /\ Allocated(h) \subseteq Blocks(h)
  BY <1>1, <1>3 DEF Allocated
<1>5. QED
  BY <1>1, <1>3, <1>4

(* Memory is extended by something, when something is asked for. *)
LEMMA RoundedUp ==
    ASSUME NEW h, NEW by \in Nat
    PROVE  Rounded(h, by) \in Int /\ Rounded(h, by) >= by
<1>1. EXTENDSIZE \in Nat \ {0} /\ roundedendrw \in Nat
  BY MallocAssumption, EndRwAboveNull
<1>2. roundedendrw % EXTENDSIZE \in 0 .. EXTENDSIZE - 1
  BY <1>1, SMT
<1>3. by + EXTENDSIZE - 1 \in Nat
  BY <1>1, SMT
<1> DEFINE r == RoundDown(by + EXTENDSIZE - 1, EXTENDSIZE)
<1>4. r \in Int /\ r >= by + EXTENDSIZE - 1 - (EXTENDSIZE - 1)
  BY <1>1, <1>3, Rounding
<1> HIDE DEF r
<1>5. QED
  BY <1>1, <1>2, <1>4, SMT DEF Rounded, r
-----------------------------------------------------------------------------
(* The sizes a program asks for are natural numbers. *)
LEMMA SizesAreNat ==
    /\ Sizes \subseteq Nat /\ AddrSpace \in Nat \ {0} /\ OVERHEAD \in Nat \ {0}
    /\ Counts \subseteq Nat \ {0} /\ ElementSizes \subseteq Nat
BY MallocAssumption, SMT

(* The calls that malloc serves leave the heap to Take and Grow. *)
LEMMA CallBegun ==
    ASSUME Inv, NEW asked \in Nat, NEW size \in Nat, NEW old \in DOMAIN live \union {NULL},
           call' = [asked |-> asked, need |-> BlockSize(size), old |-> old],
           NoWrap => asked = size /\ size + 2 * OVERHEAD <= AddrSpace,
           UNCHANGED <<heap, live>>
    PROVE  Inv'
<1>1. BlockSize(size) \in Nat \ {0}
  BY BlockSizePositive
<1>2. NoWrap => asked + OVERHEAD <= BlockSize(size)
  BY BlockSizeSuffices
<1>3. HeapInv'
  BY DEF Inv, HeapInv, Sound, HeapType, Tiled, Chained, Allocated, FreeBlocks, Blocks,
         Links, Link, After
<1>4. CallInv'
  BY <1>1 DEF Inv, CallInv
<1>5. Lengths'
  BY <1>2 DEF Inv, Lengths, NoWrap, Unwrapped
<1>6. QED
  BY <1>3, <1>4, <1>5 DEF Inv

LEMMA MallocKeepsInv ==
    ASSUME Inv, NEW s \in Sizes, Malloc(s)
    PROVE  Inv'
<1>1. s \in Nat /\ (NoWrap => s + 2 * OVERHEAD <= AddrSpace)
  BY SizesAreNat DEF NoWrap
<1>2. QED
  BY <1>1, CallBegun DEF Malloc

LEMMA ArrayKeepsInv ==
    ASSUME Inv, NEW n \in Counts, NEW s \in ElementSizes, Array(n, s)
    PROVE  Inv'
<1> DEFINE total == n * s
<1>1. n \in Nat \ {0} /\ s \in Nat /\ AddrSpace \in Nat \ {0} /\ OVERHEAD \in Nat \ {0}
  BY SizesAreNat
<1>2. total \in Nat
  BY <1>1, SMT
<1> HIDE DEF total
<1>3. total % AddrSpace \in Nat
  BY <1>1, <1>2, SMT
<1>4. CASE Unwrapped(n, s)
  <2>1. /\ call' = [asked |-> total, need |-> BlockSize(total % AddrSpace), old |-> NULL]
        /\ UNCHANGED <<heap, live>>
    BY <1>4 DEF Array, total
  <2>2. ASSUME NoWrap PROVE total = total % AddrSpace /\ (total % AddrSpace) + 2 * OVERHEAD <= AddrSpace
    <3>1. total + 2 * OVERHEAD <= AddrSpace
      BY <1>4, <2>2 DEF NoWrap, total
    <3>2. total < AddrSpace
      BY <1>1, <1>2, <3>1, SMT
    <3>3. total % AddrSpace = total
      BY <1>1, <1>2, <3>2, SMT
    <3>4. QED
      BY <3>1, <3>3
  <2>3. QED
    BY <1>2, <1>3, <2>1, <2>2, CallBegun
<1>5. CASE ~Unwrapped(n, s)
  <2>1. UNCHANGED <<heap, live, call>>
    BY <1>5 DEF Array
  <2>2. QED
    BY <2>1 DEF Inv, HeapInv, CallInv, Lengths, Sound, HeapType, Tiled, Chained, Allocated,
                FreeBlocks, Blocks, Links, Link, After
<1>6. QED
  BY <1>4, <1>5

(* malloc returns: between the carving and the freeing of the old block, both
   are allocated. *)
LEMMA TakeIsSound ==
    ASSUME Inv, NEW block \in FreeBlocks(heap), NEW x \in Links(heap), call # Idle,
           FirstFit(heap, block, call.need), Link(heap, x) = block
    PROVE  LET h == Carved(heap, x, block, call.need) IN
           /\ Sound(h) /\ Allocated(h) = DOMAIN live \union {block}
           /\ block \notin DOMAIN live
           /\ \A a \in DOMAIN live : h.size[a] = heap.size[a]
           /\ h.size[block] >= call.need
<1>1. /\ Sound(heap) /\ DOMAIN live = Allocated(heap) /\ call.need \in Nat \ {0}
      /\ heap.size[block] >= call.need
  BY DEF Inv, HeapInv, CallInv, FirstFit, IsFit
<1>2. block \notin Allocated(heap)
  BY DEF Allocated
<1>3. QED
  BY <1>1, <1>2, CarvedIsSound

LEMMA TakeKeepsInv ==
    ASSUME Inv, Take
    PROVE  Inv'
<1>1. call # Idle /\ call' = Idle
  BY DEF Take
<1>2. PICK block \in FreeBlocks(heap), x \in Links(heap) :
        /\ FirstFit(heap, block, call.need)
        /\ Link(heap, x) = block
        /\ LET h == Carved(heap, x, block, call.need) IN
           heap' \in IF call.old = NULL THEN {h} ELSE Freed(h, call.old)
        /\ live' = [b \in (DOMAIN live \ {call.old}) \union {block} |->
                       IF b = block THEN call.asked ELSE live[b]]
  BY DEF Take
<1> DEFINE h == Carved(heap, x, block, call.need)
<1>3. /\ Sound(h) /\ Allocated(h) = DOMAIN live \union {block} /\ block \notin DOMAIN live
      /\ \A a \in DOMAIN live : h.size[a] = heap.size[a]
      /\ h.size[block] >= call.need
  BY <1>1, <1>2, TakeIsSound
<1>4. heap' \in IF call.old = NULL THEN {h} ELSE Freed(h, call.old)
  BY <1>2
<1> HIDE DEF h
<1>5. DOMAIN live' = (DOMAIN live \ {call.old}) \union {block}
  BY <1>2
<1>6. call.old \in DOMAIN live \union {NULL} /\ NULL \notin DOMAIN live
  BY NotNull DEF Inv, CallInv, HeapInv, Sound, Allocated
<1>7. /\ Sound(heap') /\ Allocated(heap') = DOMAIN live'
      /\ \A a \in DOMAIN live' : heap'.size[a] = h.size[a]
  <2>1. CASE call.old = NULL
    BY <1>3, <1>4, <1>5, <1>6, <2>1
  <2>2. CASE call.old # NULL
    <3>1. call.old \in Allocated(h) /\ call.old # block /\ heap' \in Freed(h, call.old)
      BY <1>3, <1>4, <1>6, <2>2
    <3>2. /\ Sound(heap') /\ Allocated(heap') = Allocated(h) \ {call.old}
          /\ \A a \in Allocated(heap') : heap'.size[a] = h.size[a]
      BY <1>3, <3>1, FreedIsSound
    <3>3. QED
      BY <1>3, <1>5, <3>1, <3>2
  <2>3. QED
    BY <2>1, <2>2
<1>8. HeapInv'
  BY <1>7 DEF HeapInv, Sound, HeapType, Tiled, Chained, Allocated, FreeBlocks, Blocks,
              Links, Link, After
<1>9. CallInv'
  BY <1>1 DEF CallInv, Idle
<1>10. Lengths'
  <2>1. SUFFICES ASSUME NoWrap, NEW b \in DOMAIN live'
                 PROVE  live'[b] \in Nat /\ live'[b] + OVERHEAD <= heap'.size[b]
    BY <1>1 DEF Lengths, NoWrap, Unwrapped
  <2>2. CASE b = block
    <3>1. live'[b] = call.asked /\ call.asked \in Nat /\ call.need \in Nat
          /\ call.asked + OVERHEAD <= call.need
      BY <1>1, <1>2, <2>1, <2>2 DEF Inv, CallInv, Lengths
    <3>2. heap'.size[b] >= call.need /\ heap'.size[b] \in Nat
      BY <1>3, <1>7, <2>2 DEF Sound, HeapType, Allocated
    <3>3. OVERHEAD \in Nat
      BY SizesAreNat
    <3>4. QED
      BY <3>1, <3>2, <3>3, SMT
  <2>3. CASE b # block
    <3>1. b \in DOMAIN live /\ live'[b] = live[b]
      BY <1>2, <1>5, <2>3
    <3>2. heap'.size[b] = heap.size[b]
      BY <1>3, <1>7, <3>1
    <3>3. QED
      BY <2>1, <3>1, <3>2 DEF Inv, Lengths
  <2>4. QED
    BY <2>2, <2>3
<1>11. QED
  BY <1>8, <1>9, <1>10 DEF Inv

(* Where only the heap changes and the allocated blocks keep their sizes. *)
LEMMA HeapChanged ==
    ASSUME Inv, UNCHANGED <<live, call>>, Sound(heap'), Allocated(heap') = Allocated(heap),
           \A a \in Allocated(heap) : heap'.size[a] = heap.size[a]
    PROVE  Inv'
<1>1. HeapInv'
  BY DEF Inv, HeapInv, Sound, HeapType, Tiled, Chained, Allocated, FreeBlocks, Blocks,
         Links, Link, After
<1>2. CallInv'
  BY DEF Inv, CallInv
<1>3. Lengths'
  BY DEF Inv, HeapInv, Lengths, NoWrap, Unwrapped
<1>4. QED
  BY <1>1, <1>2, <1>3 DEF Inv

LEMMA NothingChanged ==
    ASSUME Inv, UNCHANGED <<heap, live, call>>
    PROVE  Inv'
BY HeapChanged DEF Inv, HeapInv

(* malloc never extends memory by nothing. *)
LEMMA LackingPositive ==
    ASSUME Inv, call # Idle, \A b \in FreeBlocks(heap) : ~IsFit(heap, b, call.need),
           NEW last \in Links(heap)
    PROVE  Rounded(heap, Lacking(heap, last, call.need)) \in Nat \ {0}
<1> DEFINE by == Lacking(heap, last, call.need)
<1>1. by \in Nat \ {0}
  <2>1. call.need \in Nat \ {0} /\ HeapType(heap)
    BY DEF Inv, CallInv, HeapInv, Sound
  <2>2. CASE last = NULL
    BY <2>1, <2>2, SMT DEF Lacking
  <2>3. CASE last # NULL
    <3>1. last \in FreeBlocks(heap) /\ ~(heap.size[last] >= call.need)
      BY <2>3 DEF Links, IsFit
    <3>2. heap.size[last] \in Nat
      BY <2>1, <3>1 DEF HeapType, FreeBlocks
    <3>3. QED
      BY <2>1, <2>3, <3>1, <3>2, SMT DEF Lacking
  <2>4. QED
    BY <2>2, <2>3
<1> HIDE DEF by
<1>2. Rounded(heap, by) \in Int /\ Rounded(heap, by) >= by
  BY <1>1, RoundedUp
<1>3. Rounded(heap, by) \in Nat \ {0}
  BY <1>1, <1>2, SMT
<1>4. QED
  BY <1>3 DEF by

(* Nor does realloc, where the extension is a block at all. *)
LEMMA ExtendingPositive ==
    ASSUME Inv, NEW b \in DOMAIN live, NEW need \in Nat \ {0},
           NEW by, by = (b + need - heap.endinitted) % AddrSpace,
           Rounded(heap, by) >= MINSIZE
    PROVE  Rounded(heap, by) \in Nat \ {0}
<1>1. by \in Nat
  <2>1. b \in Nat /\ heap.endinitted \in Nat /\ AddrSpace \in Nat \ {0}
    BY SizesAreNat DEF Inv, HeapInv, Sound, HeapType, Allocated
  <2>2. b + need - heap.endinitted \in Int
    BY <2>1, SMT
  <2>3. QED
    BY <2>1, <2>2, SMT
<1>2. MINSIZE \in Nat \ {0} /\ Rounded(heap, by) \in Int
  BY <1>1, RoundedUp, MallocAssumption
<1>3. QED
  BY <1>2, SMT

LEMMA GrowKeepsInv ==
    ASSUME Inv, Grow
    PROVE  Inv'
<1>1. /\ call # Idle /\ UNCHANGED <<live, call>>
      /\ \A b \in FreeBlocks(heap) : ~IsFit(heap, b, call.need)
  BY DEF Grow
<1>2. PICK last \in Links(heap), sp \in StackAts :
        LET by == Lacking(heap, last, call.need) IN
        IF Fits(heap, by, sp)
        THEN heap' \in Extension(heap, by) /\ UNCHANGED outcome
        ELSE outcome' = "oom" /\ UNCHANGED heap
  BY DEF Grow
<1> DEFINE by == Lacking(heap, last, call.need)
<1>3. Rounded(heap, by) \in Nat \ {0}
  BY <1>1, LackingPositive
<1> HIDE DEF by
<1>4. CASE heap' \in Extension(heap, by)
  <2>1. /\ Sound(heap') /\ Allocated(heap') = Allocated(heap)
        /\ \A a \in Allocated(heap) : heap'.size[a] = heap.size[a]
    BY <1>3, <1>4, ExtensionIsSound DEF Inv, HeapInv
  <2>2. QED
    BY <1>1, <2>1, HeapChanged
<1>5. CASE UNCHANGED heap
  BY <1>1, <1>5, NothingChanged
<1>6. QED
  BY <1>2, <1>4, <1>5 DEF by

LEMMA FreeKeepsInv ==
    ASSUME Inv, NEW b \in DOMAIN live, Free(b)
    PROVE  Inv'
<1>1. /\ heap' \in Freed(heap, b) /\ call = Idle /\ call' = call
      /\ live' = [a \in DOMAIN live \ {b} |-> live[a]]
  BY DEF Free, Ready
<1>2. Sound(heap) /\ b \in Allocated(heap) /\ DOMAIN live = Allocated(heap)
  BY DEF Inv, HeapInv
<1>3. /\ Sound(heap') /\ Allocated(heap') = Allocated(heap) \ {b}
      /\ \A a \in Allocated(heap') : heap'.size[a] = heap.size[a]
  BY <1>1, <1>2, FreedIsSound
<1>4. HeapInv'
  BY <1>1, <1>2, <1>3 DEF HeapInv, Sound, HeapType, Tiled, Chained, Allocated, FreeBlocks,
                          Blocks, Links, Link, After
<1>5. CallInv'
  BY <1>1 DEF CallInv, Idle
<1>6. Lengths'
  BY <1>1, <1>2, <1>3 DEF Inv, Lengths, NoWrap, Unwrapped
<1>7. QED
  BY <1>4, <1>5, <1>6 DEF Inv

(* A block kept in its place by realloc. *)
LEMMA ResizedKeepsInv ==
    ASSUME Inv, Ready, NEW b \in DOMAIN live, NEW s \in Sizes,
           KeptInPlace(heap', heap, b, BlockSize(s)), Resized(b, s)
    PROVE  Inv'
<1>1. /\ live' = [live EXCEPT ![b] = s] /\ call = Idle /\ call' = call
      /\ DOMAIN live = Allocated(heap) /\ s \in Nat
  BY SizesAreNat DEF Resized, Ready, Inv, HeapInv
<1>2. /\ Sound(heap') /\ Allocated(heap') = Allocated(heap)
      /\ \A a \in Allocated(heap) \ {b} : heap'.size[a] = heap.size[a]
      /\ heap'.size[b] >= BlockSize(s)
  BY DEF KeptInPlace
<1>3. HeapInv'
  BY <1>1, <1>2 DEF HeapInv, Sound, HeapType, Tiled, Chained, Allocated, FreeBlocks,
                    Blocks, Links, Link, After
<1>4. CallInv'
  BY <1>1 DEF CallInv, Idle
<1>5. Lengths'
  <2>1. SUFFICES ASSUME NoWrap, NEW a \in DOMAIN live'
                 PROVE  live'[a] \in Nat /\ live'[a] + OVERHEAD <= heap'.size[a]
    BY <1>1 DEF Lengths, NoWrap, Unwrapped
  <2>2. CASE a = b
    <3>1. s + OVERHEAD <= BlockSize(s) /\ BlockSize(s) \in Nat
      BY <1>1, <2>1, BlockSizeSuffices, BlockSizePositive DEF NoWrap
    <3>2. heap'.size[b] \in Nat /\ OVERHEAD \in Nat
      BY <1>1, <1>2, SizesAreNat DEF Sound, HeapType, Allocated
    <3>3. s + OVERHEAD <= heap'.size[b]
      BY <1>1, <1>2, <3>1, <3>2, SMT
    <3>4. QED
      BY <1>1, <2>2, <3>3
  <2>3. CASE a # b
    BY <1>1, <1>2, <2>1, <2>3 DEF Inv, Lengths
  <2>4. QED
    BY <2>2, <2>3
<1>6. QED
  BY <1>3, <1>4, <1>5 DEF Inv

(* A block kept in its place by ReallocFits, ReallocExtends or ReallocMerges. *)
LEMMA ReallocInPlace ==
    ASSUME Inv, NEW b \in DOMAIN live, NEW s \in Sizes,
           ReallocFits(b, s) \/ ReallocExtends(b, s) \/ ReallocMerges(b, s)
    PROVE  \/ UNCHANGED <<heap, live, call>>
           \/ Ready /\ KeptInPlace(heap', heap, b, BlockSize(s)) /\ Resized(b, s)
<1> DEFINE need == BlockSize(s)
<1>1. Sound(heap) /\ b \in Allocated(heap) /\ need \in Nat \ {0}
  BY BlockSizePositive, SizesAreNat DEF Inv, HeapInv
<1> HIDE DEF need
<1>2. CASE ReallocFits(b, s)
  <2>1. Ready /\ heap.size[b] >= need /\ heap' \in Trimmed(heap, b, need) /\ Resized(b, s)
    BY <1>2 DEF ReallocFits, need
  <2>2. QED
    BY <1>1, <2>1, TrimmedIsSound DEF need
<1>3. CASE ReallocMerges(b, s)
  <2>1. Ready /\ Room(heap, b, need) /\ heap' \in Merged(heap, b, need) /\ Resized(b, s)
    BY <1>3 DEF ReallocMerges, need
  <2>2. QED
    BY <1>1, <2>1, MergedIsSound DEF need
<1>4. CASE ReallocExtends(b, s)
  <2> DEFINE by == (b + need - heap.endinitted) % AddrSpace
  <2>1. PICK sp \in StackAts :
          IF Fits(heap, by, sp)
          THEN \E h \in Extension(heap, by) :
                 IF Rounded(heap, by) >= MINSIZE /\ Room(h, b, need)
                 THEN heap' \in Merged(h, b, need) /\ Resized(b, s)
                 ELSE outcome' = "assert" /\ UNCHANGED <<heap, live, call>>
          ELSE outcome' = "oom" /\ UNCHANGED <<heap, live, call>>
    BY <1>4 DEF ReallocExtends, need
  <2> HIDE DEF by
  <2>2. CASE UNCHANGED <<heap, live, call>>
    BY <2>2
  <2>3. CASE ~UNCHANGED <<heap, live, call>>
    <3>1. PICK h \in Extension(heap, by) :
            /\ Rounded(heap, by) >= MINSIZE /\ Room(h, b, need)
            /\ heap' \in Merged(h, b, need) /\ Resized(b, s)
      BY <2>1, <2>3
    <3>2. Rounded(heap, by) \in Nat \ {0}
      BY <1>1, <3>1, ExtendingPositive DEF by
    <3>3. /\ Sound(h) /\ Allocated(h) = Allocated(heap)
          /\ \A a \in Allocated(heap) : h.size[a] = heap.size[a]
      BY <1>1, <3>1, <3>2, ExtensionIsSound
    <3>4. KeptInPlace(heap', h, b, need)
      BY <1>1, <3>1, <3>3, MergedIsSound
    <3>5. KeptInPlace(heap', heap, b, need)
      BY <3>3, <3>4 DEF KeptInPlace
    <3>6. Ready
      BY <1>4 DEF ReallocExtends
    <3>7. QED
      BY <3>1, <3>5, <3>6 DEF need
  <2>4. QED
    BY <2>2, <2>3
<1>5. QED
  BY <1>2, <1>3, <1>4

LEMMA ReallocKeepsInv ==
    ASSUME Inv, NEW b \in DOMAIN live, NEW s \in Sizes, Realloc(b, s)
    PROVE  Inv'
<1>1. CASE ReallocFits(b, s) \/ ReallocExtends(b, s) \/ ReallocMerges(b, s)
  BY <1>1, ReallocInPlace, ResizedKeepsInv, NothingChanged
<1>2. CASE ReallocMoves(b, s)
  <2>1. s \in Nat /\ (NoWrap => s + 2 * OVERHEAD <= AddrSpace)
    BY SizesAreNat DEF NoWrap
  <2>2. QED
    BY <1>2, <2>1, CallBegun DEF ReallocMoves
<1>3. QED
  BY <1>1, <1>2 DEF Realloc
-----------------------------------------------------------------------------
LEMMA InitInv == Init => Inv
<1> SUFFICES ASSUME Init PROVE Inv
  OBVIOUS
<1>1. /\ heap.size = << >> /\ heap.next = << >> /\ heap.freeblocks = NULL
      /\ heap.endinitted = NULL /\ live = << >> /\ call = Idle
  BY DEF Init, Heap
<1>2. Blocks(heap) = {} /\ FreeBlocks(heap) = {} /\ Allocated(heap) = {} /\ DOMAIN live = {}
  BY <1>1 DEF Blocks, FreeBlocks, Allocated
<1>3. HeapType(heap)
  BY <1>1, <1>2, SMT DEF HeapType, NULL
<1>4. Tiled(heap) /\ Chained(heap)
  BY <1>1, <1>2 DEF Tiled, Chained, Links, Link
<1>5. QED
  BY <1>1, <1>2, <1>3, <1>4 DEF Inv, HeapInv, CallInv, Lengths, Sound, Idle

LEMMA NextInv == Inv /\ [Next]_vars => Inv'
<1> SUFFICES ASSUME Inv, [Next]_vars PROVE Inv'
  OBVIOUS
<1>1. CASE \E s \in Sizes : Malloc(s)
  BY <1>1, MallocKeepsInv
<1>2. CASE \E n \in Counts, s \in ElementSizes : Array(n, s)
  BY <1>2, ArrayKeepsInv
<1>3. CASE Take
  BY <1>3, TakeKeepsInv
<1>4. CASE Grow
  BY <1>4, GrowKeepsInv
<1>5. CASE \E b \in DOMAIN live : Free(b)
  BY <1>5, FreeKeepsInv
<1>6. CASE \E b \in DOMAIN live, s \in Sizes : Realloc(b, s)
  BY <1>6, ReallocKeepsInv
<1>7. CASE UNCHANGED vars
  BY <1>7, NothingChanged DEF vars
<1>8. QED
  BY <1>1, <1>2, <1>3, <1>4, <1>5, <1>6, <1>7 DEF Next

LEMMA InvAlways == Spec => []Inv
BY InitInv, NextInv, PTL DEF Spec

(* The heap stays intact (verifyblocks never finds fault, malloc.c:339-387),
   whatever is asked for and in whatever order, wrapped sizes included. *)
THEOREM WellFormedAlways == Spec => []WellFormed
<1>1. Inv => WellFormed
  BY DEF Inv, HeapInv, Sound, WellFormed
<1>2. QED
  BY <1>1, InvAlways, PTL

(* As long as no size comes near the end of the address space, a block is
   allocated exactly while the program holds its pointer, and is long enough
   (crtl/library/malloc.c:66-188). *)
THEOREM OwnedAlways ==
    ASSUME NoWrap
    PROVE  Spec => []Owned
<1>1. Inv => Owned
  BY DEF Inv, HeapInv, Lengths, Owned, Allocated
<1>2. QED
  BY <1>1, InvAlways, PTL
-----------------------------------------------------------------------------
(* No two free blocks lie side by side. *)
Apart(h) == \A b \in FreeBlocks(h) : After(h, b) \notin FreeBlocks(h)

LEMMA FreeIs ==
    ASSUME NEW h
    PROVE  FreeBlocks(h) = Blocks(h) \ Allocated(h)
BY DEF FreeBlocks, Allocated

(* Each block ends where the next begins. *)
LEMMA Tiles ==
    ASSUME NEW h, Sound(h), NEW b \in Blocks(h)
    PROVE  /\ b \in Nat \ {0} /\ h.size[b] \in Nat \ {0} /\ h.endinitted \in Nat
           /\ After(h, b) = b + h.size[b] /\ After(h, b) \in Nat /\ After(h, b) > b
           /\ After(h, b) <= h.endinitted
           /\ \A c \in Blocks(h) : b < c => After(h, b) <= c
           /\ After(h, b) = h.endinitted \/ After(h, b) \in Blocks(h)
<1>1. b \in Nat \ {0} /\ h.size[b] \in Nat \ {0} /\ h.endinitted \in Nat
  BY DEF Sound, HeapType
<1>2. After(h, b) = b + h.size[b] /\ After(h, b) \in Nat /\ After(h, b) > b
  BY <1>1 DEF After
<1>3. QED
  BY <1>1, <1>2 DEF Sound, Tiled

(* freeablock up to where it has merged the block with the one before it. *)
LEMMA LinkedParts ==
    ASSUME NEW h, Sound(h), NEW block \in Allocated(h), NEW x \in Links(h),
           StopsAt(h, block, x), NEW l, l = Linked(h, block, x),
           NEW b, b = IF x # NULL /\ After(h, x) = block THEN x ELSE block
    PROVE  /\ Sound(l) /\ FreeBlocks(l) = FreeBlocks(h) \union {b}
           /\ Link(l, b) = Link(h, x) /\ b <= block /\ b \in Nat
           /\ After(l, b) = After(h, block)
           /\ \A a \in FreeBlocks(h) \ {b} : After(l, a) = After(h, a)
<1>1. block \in Blocks(h) /\ HeapType(h) /\ FreeBlocks(h) \subseteq Blocks(h) /\ block \in Nat
  BY Tiles DEF Allocated, Sound, FreeBlocks
<1>2. CASE x # NULL /\ After(h, x) = block
  <2>1. l = Absorb(h, x, block) /\ b = x /\ x \in FreeBlocks(h)
    BY <1>2 DEF Linked, Links
  <2>2. x \in Blocks(h) /\ x < block /\ block \notin FreeBlocks(h)
    BY <1>1, <2>1 DEF StopsAt, Allocated
  <2>3. /\ Sound(l) /\ FreeBlocks(l) = FreeBlocks(h)
        /\ \A z \in Links(h) : Link(l, z) = Link(h, z)
        /\ \A a \in Blocks(h) \ {x, block} : l.size[a] = h.size[a]
        /\ l.size[x] = h.size[x] + h.size[block]
    BY <1>2, <2>1, <2>2, TakenIn
  <2>4. After(l, x) = After(h, block)
    <3>1. x + h.size[x] = block /\ x \in Nat /\ h.size[x] \in Nat /\ h.size[block] \in Nat
      BY <1>1, <1>2, <2>2, Tiles DEF After
    <3>2. QED
      BY <2>3, <3>1 DEF After
  <2>5. \A a \in FreeBlocks(h) \ {x} : After(l, a) = After(h, a)
    BY <1>1, <2>2, <2>3 DEF After
  <2>6. x \in Nat /\ x <= block
    <3>1. x \in Nat
      BY <1>1, <2>2 DEF HeapType
    <3>2. QED
      BY <1>1, <2>2, <3>1
  <2>7. QED
    BY <2>1, <2>3, <2>4, <2>5, <2>6
<1>3. CASE ~(x # NULL /\ After(h, x) = block)
  <2>1. l = SetLink(SetLink(h, x, block), block, Link(h, x)) /\ b = block
    BY <1>3 DEF Linked
  <2>2. /\ Sound(l) /\ SameBlocks(l, h)
        /\ Allocated(l) = Allocated(h) \ {block} /\ Link(l, block) = Link(h, x)
    BY <2>1, LinkedIn
  <2>3. FreeBlocks(l) = FreeBlocks(h) \union {block}
    BY <1>1, <2>2, FreeIs DEF SameBlocks
  <2>4. \A a \in FreeBlocks(h) \union {block} : After(l, a) = After(h, a)
    BY <1>1, <2>2 DEF SameBlocks
  <2>5. block <= block
    BY <1>1
  <2>6. QED
    BY <1>1, <2>1, <2>2, <2>3, <2>4, <2>5
<1>4. QED
  BY <1>2, <1>3

(* freeablock merges whatever would lie side by side. *)
LEMMA FreedIsApart ==
    ASSUME NEW h, Sound(h), Apart(h), NEW block \in Allocated(h), NEW g \in Freed(h, block)
    PROVE  Apart(g)
<1>1. PICK x \in Links(h) : StopsAt(h, block, x) /\ g = FreedAt(h, block, x)
  BY DEF Freed
<1>2. PICK y, b, l : /\ y = Link(h, x) /\ l = Linked(h, block, x)
                     /\ b = IF x # NULL /\ After(h, x) = block THEN x ELSE block
  OBVIOUS
<1>3. /\ Sound(l) /\ FreeBlocks(l) = FreeBlocks(h) \union {b}
      /\ Link(l, b) = y /\ b <= block /\ b \in Nat
      /\ After(l, b) = After(h, block)
      /\ \A a \in FreeBlocks(h) \ {b} : After(l, a) = After(h, a)
  BY <1>1, <1>2, LinkedParts
<1>4. g = IF y # NULL /\ After(l, b) = y
          THEN Absorb(SetLink(l, b, l.next[y]), b, y) ELSE l
  BY <1>1, <1>2 DEF FreedAt
<1>5. /\ block \in Blocks(h) /\ block \notin FreeBlocks(h) /\ block \in Nat
      /\ FreeBlocks(h) \subseteq Blocks(h) /\ Blocks(h) \subseteq Nat \ {0}
      /\ x \in Nat /\ x < block /\ (x = NULL \/ x \in FreeBlocks(h))
      /\ y = NULL \/ y > block
  BY <1>1, <1>2 DEF Allocated, FreeBlocks, Sound, HeapType, Links, NULL, StopsAt
<1>6. Above(FreeBlocks(h), x, y)
  BY <1>2, ChainedIs DEF Sound
<1>7. \A a \in FreeBlocks(h) : a <= x \/ (y \in FreeBlocks(h) /\ y > block /\ y <= a)
  BY <1>5, <1>6 DEF Above, NULL
<1>8. ASSUME NEW a \in FreeBlocks(h) \ {b} PROVE After(l, a) \notin FreeBlocks(l)
  <2>1. After(l, a) = After(h, a) /\ After(h, a) \notin FreeBlocks(h)
    BY <1>3 DEF Apart
  <2>2. SUFFICES ASSUME After(h, a) = b PROVE FALSE
    BY <1>3, <2>1
  <2>3. b = block /\ ~(x # NULL /\ After(h, x) = block)
    BY <1>2, <1>5, <2>1, <2>2
  <2>4. a \in Nat \ {0} /\ After(h, a) > a /\ \A c \in Blocks(h) : a < c => After(h, a) <= c
    BY <1>5, Tiles
  <2>5. a <= x
    BY <1>5, <1>7, <2>2, <2>3, <2>4
  <2>6. x # NULL /\ x \in Blocks(h)
    BY <1>5, <2>4, <2>5 DEF NULL
  <2>7. a = x
    BY <1>5, <2>2, <2>3, <2>4, <2>5, <2>6
  <2>8. QED
    BY <2>2, <2>3, <2>6, <2>7
<1>9. After(l, b) \in FreeBlocks(l) => y # NULL /\ After(l, b) = y
  <2>1. After(h, block) \in Nat /\ After(h, block) > block /\ After(h, block) # b
        /\ \A c \in Blocks(h) : block < c => After(h, block) <= c
    BY <1>3, <1>5, Tiles
  <2>2. SUFFICES ASSUME After(h, block) \in FreeBlocks(h)
                 PROVE  y # NULL /\ After(h, block) = y
    BY <1>3, <2>1
  <2>3. y \in FreeBlocks(h) /\ y > block /\ y <= After(h, block)
    BY <1>5, <1>7, <2>1, <2>2
  <2>4. QED
    BY <1>5, <2>1, <2>3 DEF NULL
<1>10. CASE ~(y # NULL /\ After(l, b) = y)
  <2>1. g = l
    BY <1>4, <1>10
  <2>2. QED
    BY <1>3, <1>8, <1>9, <1>10, <2>1 DEF Apart
<1>11. CASE y # NULL /\ After(l, b) = y
  <2>1. /\ b \in Links(l) /\ b \in Blocks(l) /\ b \notin Allocated(l)
    BY <1>3 DEF Links, FreeBlocks, Allocated
  <2>2. y \in FreeBlocks(l) /\ y \in FreeBlocks(h) /\ y > block /\ y # b
    BY <1>3, <1>5, <1>6, <1>11 DEF Above
  <2>3. g = Absorb(SetLink(l, b, l.next[y]), b, y)
    BY <1>4, <1>11
  <2>4. /\ Sound(g) /\ Allocated(g) = Allocated(l)
        /\ \A a \in Blocks(l) \ {b, y} : g.size[a] = l.size[a]
        /\ g.size[b] = l.size[b] + l.size[y] /\ Blocks(g) = Blocks(l) \ {y}
    BY <1>3, <1>11, <2>1, <2>2, <2>3, TakenOffList
  <2>5. FreeBlocks(g) = FreeBlocks(l) \ {y}
    BY <2>2, <2>4, FreeIs
  <2>6. After(g, b) = After(l, y)
    <3>1. b + l.size[b] = y /\ b \in Nat /\ l.size[b] \in Nat /\ l.size[y] \in Nat
      BY <1>3, <1>11, <2>1, <2>2, Tiles DEF After, FreeBlocks
    <3>2. QED
      BY <2>4, <3>1 DEF After
  <2>7. After(l, y) \notin FreeBlocks(l)
    BY <1>8, <2>2
  <2>8. ASSUME NEW a \in FreeBlocks(g), a # b PROVE After(g, a) \notin FreeBlocks(g)
    <3>1. a \in FreeBlocks(h) \ {b} /\ a \in Blocks(l) \ {b, y}
      BY <1>3, <2>5, <2>8 DEF FreeBlocks
    <3>2. After(g, a) = After(l, a)
      BY <2>4, <3>1 DEF After
    <3>3. QED
      BY <1>8, <2>5, <3>1, <3>2
  <2>9. QED
    BY <2>5, <2>6, <2>7, <2>8 DEF Apart
<1>12. QED
  BY <1>10, <1>11

(* malloc puts what is left in the place of the block it takes. *)
LEMMA CarvedIsApart ==
    ASSUME NEW h, Sound(h), Apart(h), NEW block \in FreeBlocks(h), NEW x \in Links(h),
           Link(h, x) = block, NEW need \in Nat \ {0}, h.size[block] >= need,
           NEW g, g = Carved(h, x, block, need)
    PROVE  Apart(g)
<1>1. Allocated(g) = Allocated(h) \union {block}
  BY CarvedIsSound
<1>2. PICK c : c = block + need
  OBVIOUS
<1>3. /\ FreeBlocks(h) \subseteq Blocks(h) /\ block \in Blocks(h)
      /\ block \in Nat /\ h.size[block] \in Nat /\ c \in Nat /\ c > block
      /\ MINSIZE \in Nat \ {0}
  BY <1>2, Tiles, MallocAssumption DEF FreeBlocks
<1>4. CASE ~(h.size[block] - need >= MINSIZE)
  <2>1. PICK m : m = SetLink(h, x, h.next[block])
    OBVIOUS
  <2>2. g.size = h.size /\ Blocks(g) = Blocks(h)
    <3>1. g = SetLink(m, block, block)
      BY <1>4, <2>1 DEF Carved
    <3>2. g.size = m.size /\ Blocks(g) = Blocks(m)
      BY <3>1 DEF SetLink, Heap, Blocks
    <3>3. m.size = h.size /\ Blocks(m) = Blocks(h)
      BY <2>1 DEF SetLink, Heap, Blocks
    <3>4. QED
      BY <3>2, <3>3
  <2>3. FreeBlocks(g) \subseteq FreeBlocks(h)
    BY <1>1, <2>2, FreeIs
  <2>4. \A a : After(g, a) = After(h, a)
    BY <2>2 DEF After
  <2>5. QED
    BY <2>3, <2>4 DEF Apart
<1>5. CASE h.size[block] - need >= MINSIZE
  <2>1. PICK p, m : p = Split(h, block, need, h.next[block]) /\ m = SetLink(p, x, c)
    OBVIOUS
  <2>2. g.size = Split(h, block, need, h.next[block]).size
    <3>1. g = SetLink(m, block, block)
      BY <1>2, <1>5, <2>1 DEF Carved
    <3>2. g.size = m.size
      BY <3>1 DEF SetLink, Heap
    <3>3. m.size = p.size
      BY <2>1 DEF SetLink, Heap
    <3>4. QED
      BY <2>1, <3>2, <3>3
  <2>3. g.size = [a \in Blocks(h) \union {c} |->
                    IF a = block THEN need ELSE IF a = c THEN h.size[block] - need ELSE h.size[a]]
    BY <1>2, <2>2 DEF Split, Heap
  <2>4. Blocks(g) = Blocks(h) \union {c}
    BY <2>3 DEF Blocks
  <2>5. FreeBlocks(g) = (FreeBlocks(h) \ {block}) \union ({c} \ Allocated(g))
    BY <1>1, <1>3, <2>4, FreeIs
  <2>6. c < After(h, block) /\ After(h, block) <= h.endinitted /\ After(h, block) \in Nat
        /\ \A d \in Blocks(h) : block < d => After(h, block) <= d
    BY <1>2, <1>3, <1>5, Tiles
  <2>7. c \notin Blocks(h)
    BY <1>3, <2>6, Tiles
  <2>8. After(g, c) = After(h, block)
    BY <1>2, <1>3, <2>3 DEF After
  <2>9. ASSUME NEW a \in FreeBlocks(h) \ {block}
        PROVE  After(g, a) \notin FreeBlocks(h) /\ After(g, a) # c
    <3>1. a \in Blocks(h) /\ a # c
      BY <1>3, <2>7
    <3>2. After(g, a) = After(h, a)
      BY <2>3, <2>9, <3>1 DEF After
    <3>3. h.endinitted \in Nat /\ (After(h, a) = h.endinitted \/ After(h, a) \in Blocks(h))
      BY <3>1, Tiles
    <3>4. h.endinitted # c
      BY <1>3, <2>6, <3>3
    <3>5. QED
      BY <2>7, <3>2, <3>3, <3>4 DEF Apart
  <2>10. After(g, c) \notin FreeBlocks(h) /\ After(g, c) # c
    BY <1>3, <2>6, <2>8 DEF Apart
  <2>11. QED
    BY <2>5, <2>9, <2>10 DEF Apart
<1>6. QED
  BY <1>4, <1>5

LEMMA TrimmedIsApart ==
    ASSUME NEW h, Sound(h), Apart(h), NEW b \in Allocated(h), NEW need \in Nat \ {0},
           h.size[b] >= need, NEW g \in Trimmed(h, b, need)
    PROVE  Apart(g)
<1>1. h.size[b] \in Nat /\ MINSIZE \in Nat \ {0} /\ b \notin FreeBlocks(h)
  BY MallocAssumption DEF Sound, HeapType, Allocated
<1>2. CASE ~(h.size[b] - need >= MINSIZE)
  BY <1>2 DEF Trimmed
<1>3. CASE h.size[b] - need >= MINSIZE
  <2>1. PICK p : p = Split(h, b, need, b + need)
    OBVIOUS
  <2>2. need < h.size[b]
    BY <1>1, <1>3
  <2>3. /\ Sound(p) /\ b + need \in Allocated(p) /\ FreeBlocks(p) = FreeBlocks(h)
        /\ \A a \in Blocks(h) \ {b} : p.size[a] = h.size[a]
    BY <2>1, <2>2, SplitOff
  <2>4. Apart(p)
    BY <1>1, <2>3 DEF Apart, After, FreeBlocks
  <2>5. g \in Freed(p, b + need)
    BY <1>3, <2>1 DEF Trimmed
  <2>6. QED
    BY <2>3, <2>4, <2>5, FreedIsApart
<1>4. QED
  BY <1>2, <1>3

LEMMA MergedIsApart ==
    ASSUME NEW h, Sound(h), Apart(h), NEW b \in Allocated(h), NEW need \in Nat \ {0},
           Room(h, b, need), NEW g \in Merged(h, b, need)
    PROVE  Apart(g)
<1>1. PICK c : c = After(h, b)
  OBVIOUS
<1>2. b \in Blocks(h) /\ b \notin FreeBlocks(h) /\ h.endinitted \in Nat
  BY Tiles DEF Allocated
<1>3. c \in FreeBlocks(h) /\ h.size[b] + h.size[c] >= need
  <2>1. c < h.endinitted /\ h.next[c] # c /\ h.size[b] + h.size[c] >= need
    BY <1>1 DEF Room
  <2>2. c \in Blocks(h)
    BY <1>1, <1>2, <2>1, Tiles
  <2>3. QED
    BY <2>1, <2>2 DEF FreeBlocks
<1>4. PICK x \in Links(h) :
        Link(h, x) = c /\ g \in Trimmed(Absorb(SetLink(h, x, h.next[c]), b, c), b, need)
  BY <1>1 DEF Merged
<1>5. PICK m : m = Absorb(SetLink(h, x, h.next[c]), b, c)
  OBVIOUS
<1>6. /\ Sound(m) /\ Allocated(m) = Allocated(h)
      /\ \A a \in Blocks(h) \ {b, c} : m.size[a] = h.size[a]
      /\ m.size[b] = h.size[b] + h.size[c] /\ Blocks(m) = Blocks(h) \ {c}
  BY <1>1, <1>2, <1>3, <1>4, <1>5, TakenOffList
<1>7. FreeBlocks(m) = FreeBlocks(h) \ {c}
  BY <1>6, FreeIs
<1>8. \A a \in FreeBlocks(m) : After(m, a) = After(h, a)
  BY <1>2, <1>6, <1>7 DEF After, FreeBlocks
<1>9. Apart(m)
  BY <1>7, <1>8 DEF Apart
<1>10. b \in Allocated(m) /\ m.size[b] >= need /\ g \in Trimmed(m, b, need)
  BY <1>3, <1>4, <1>5, <1>6
<1>11. QED
  BY <1>6, <1>9, <1>10, TrimmedIsApart

LEMMA ExtensionIsApart ==
    ASSUME NEW h, Sound(h), Apart(h), NEW by, Rounded(h, by) \in Nat \ {0},
           NEW g \in Extension(h, by)
    PROVE  Apart(g)
<1>1. PICK m : m = Grown(h, Rounded(h, by))
  OBVIOUS
<1>2. /\ Sound(m) /\ EndOf(h) \in Allocated(m) /\ FreeBlocks(m) = FreeBlocks(h)
      /\ \A a \in Blocks(h) : m.size[a] = h.size[a]
  BY <1>1, GrownBy
<1>3. Apart(m)
  BY <1>2 DEF Apart, After, FreeBlocks
<1>4. g \in Freed(m, EndOf(h))
  BY <1>1 DEF Extension
<1>5. QED
  BY <1>2, <1>3, <1>4, FreedIsApart

(* A step that puts one of these in the place of the heap. *)
LEMMA StepApart ==
    ASSUME Inv, Apart(heap), [Next]_vars
    PROVE  Apart(heap')
<1>1. Sound(heap) /\ DOMAIN live = Allocated(heap)
  BY DEF Inv, HeapInv
<1>2. CASE UNCHANGED heap
  BY <1>2
<1>3. CASE Take
  <2>1. call # Idle
    BY <1>3 DEF Take
  <2>2. PICK block \in FreeBlocks(heap), x \in Links(heap) :
          /\ FirstFit(heap, block, call.need)
          /\ Link(heap, x) = block
          /\ heap' \in IF call.old = NULL THEN {Carved(heap, x, block, call.need)}
                       ELSE Freed(Carved(heap, x, block, call.need), call.old)
    BY <1>3 DEF Take
  <2>3. PICK h : h = Carved(heap, x, block, call.need)
    OBVIOUS
  <2>4. Sound(h) /\ Allocated(h) = DOMAIN live \union {block}
    BY <2>1, <2>2, <2>3, TakeIsSound
  <2>5. Apart(h)
    <3>1. call.need \in Nat \ {0} /\ heap.size[block] >= call.need
      BY <2>1, <2>2 DEF Inv, CallInv, FirstFit, IsFit
    <3>2. QED
      BY <1>1, <2>2, <2>3, <3>1, CarvedIsApart
  <2>6. CASE call.old = NULL
    BY <2>2, <2>3, <2>5, <2>6
  <2>7. CASE call.old # NULL
    <3>1. call.old \in Allocated(h) /\ heap' \in Freed(h, call.old)
      BY <2>2, <2>3, <2>4, <2>7 DEF Inv, CallInv
    <3>2. QED
      BY <2>4, <2>5, <3>1, FreedIsApart
  <2>8. QED
    BY <2>6, <2>7
<1>4. CASE Grow
  <2>1. PICK last \in Links(heap), sp \in StackAts :
          IF Fits(heap, Lacking(heap, last, call.need), sp)
          THEN heap' \in Extension(heap, Lacking(heap, last, call.need)) /\ UNCHANGED outcome
          ELSE outcome' = "oom" /\ UNCHANGED heap
    BY <1>4 DEF Grow
  <2>2. PICK by : by = Lacking(heap, last, call.need)
    OBVIOUS
  <2>3. Rounded(heap, by) \in Nat \ {0}
    BY <1>4, <2>2, LackingPositive DEF Grow
  <2>4. CASE heap' \in Extension(heap, by)
    BY <1>1, <2>3, <2>4, ExtensionIsApart
  <2>5. QED
    BY <1>2, <2>1, <2>2, <2>4
<1>5. ASSUME NEW b \in DOMAIN live, Free(b) PROVE Apart(heap')
  BY <1>1, <1>5, FreedIsApart DEF Free
<1>6. ASSUME NEW b \in DOMAIN live, NEW s \in Sizes, Realloc(b, s) PROVE Apart(heap')
  <2>1. PICK need \in Nat \ {0} : need = BlockSize(s)
    BY BlockSizePositive, SizesAreNat
  <2>2. b \in Allocated(heap)
    BY <1>1
  <2>3. CASE ReallocFits(b, s)
    <3>1. heap.size[b] >= need /\ heap' \in Trimmed(heap, b, need)
      BY <2>1, <2>3 DEF ReallocFits
    <3>2. QED
      BY <1>1, <2>2, <3>1, TrimmedIsApart
  <2>4. CASE ReallocMerges(b, s)
    <3>1. Room(heap, b, need) /\ heap' \in Merged(heap, b, need)
      BY <2>1, <2>4 DEF ReallocMerges
    <3>2. QED
      BY <1>1, <2>2, <3>1, MergedIsApart
  <2>5. CASE ReallocMoves(b, s)
    BY <1>2, <2>5 DEF ReallocMoves
  <2>6. CASE ReallocExtends(b, s)
    <3>1. PICK by : by = (b + need - heap.endinitted) % AddrSpace
      OBVIOUS
    <3>2. CASE UNCHANGED heap
      BY <1>2, <3>2
    <3>3. CASE ~UNCHANGED heap
      <4>1. PICK h \in Extension(heap, by) :
              Rounded(heap, by) >= MINSIZE /\ Room(h, b, need) /\ heap' \in Merged(h, b, need)
        BY <2>1, <2>6, <3>1, <3>3 DEF ReallocExtends
      <4>2. Rounded(heap, by) \in Nat \ {0}
        BY <2>2, <3>1, <4>1, ExtendingPositive, <1>1
      <4>3. Sound(h) /\ Allocated(h) = Allocated(heap) /\ Apart(h)
        BY <1>1, <4>1, <4>2, ExtensionIsSound, ExtensionIsApart
      <4>4. QED
        BY <2>2, <4>1, <4>3, MergedIsApart
    <3>4. QED
      BY <3>2, <3>3
  <2>7. QED
    BY <1>6, <2>3, <2>4, <2>5, <2>6 DEF Realloc
<1>7. CASE \E s \in Sizes : Malloc(s)
  BY <1>2, <1>7 DEF Malloc
<1>8. CASE \E n \in Counts, s \in ElementSizes : Array(n, s)
  BY <1>2, <1>8 DEF Array
<1>9. QED
  BY <1>2, <1>3, <1>4, <1>5, <1>6, <1>7, <1>8 DEF Next, vars

(* Free memory is never left in pieces: in whatever order blocks are freed,
   extended, split and merged, no two free blocks lie side by side
   (crtl/library/malloc.c:307-320). *)
THEOREM CoalescedAlways == Spec => []Coalesced
<1>1. Init => Inv /\ Coalesced
  <2>1. Init => FreeBlocks(heap) = {}
    BY DEF Init, Heap, FreeBlocks, Blocks
  <2>2. QED
    BY <2>1, InitInv DEF Coalesced
<1>2. (Inv /\ Coalesced) /\ [Next]_vars => (Inv /\ Coalesced)'
  <2>1. SUFFICES ASSUME Inv, Coalesced, [Next]_vars PROVE Inv' /\ Coalesced'
    OBVIOUS
  <2>2. Inv'
    BY <2>1, NextInv
  <2>3. Apart(heap')
    BY <2>1, StepApart DEF Coalesced, Apart
  <2>4. Coalesced'
    BY <2>3 DEF Coalesced, Apart, FreeBlocks, Blocks, After
  <2>5. QED
    BY <2>2, <2>4
<1>3. QED
  BY <1>1, <1>2, PTL DEF Spec

(* Both: the heap is a partition into blocks, its free list is whole, and no
   two free blocks lie side by side. *)
THEOREM HeapIntactAlways == Spec => []HeapIntact
BY WellFormedAlways, CoalescedAlways, PTL DEF HeapIntact
-----------------------------------------------------------------------------
(* One block is dropped, if it is there, and one added or given another length;
   a block is dropped; the regions of the blocks in f. *)
Changed(f, old, new, n) ==
    [b \in (DOMAIN f \ {old}) \union {new} |-> IF b = new THEN n ELSE f[b]]
Dropped(f, old) == [b \in DOMAIN f \ {old} |-> f[b]]

RegionsOf(f) == [p \in {b + OVERHEAD : b \in DOMAIN f} |-> f[p - OVERHEAD]]

LEMMA RegionFacts ==
    ASSUME NEW f, DOMAIN f \subseteq Nat
    PROVE  /\ DOMAIN RegionsOf(f) = {b + OVERHEAD : b \in DOMAIN f}
           /\ \A b \in DOMAIN f : RegionsOf(f)[b + OVERHEAD] = f[b]
<1>1. DOMAIN RegionsOf(f) = {b + OVERHEAD : b \in DOMAIN f}
  BY DEF RegionsOf
<1>2. ASSUME NEW b \in DOMAIN f, NEW r, r = b + OVERHEAD PROVE RegionsOf(f)[r] = f[b]
  <2>1. r - OVERHEAD = b
    BY <1>2, SizesAreNat, SMT
  <2>2. r \in {a + OVERHEAD : a \in DOMAIN f}
    BY <1>2
  <2>3. \A p \in {a + OVERHEAD : a \in DOMAIN f} : RegionsOf(f)[p] = f[p - OVERHEAD]
    BY DEF RegionsOf
  <2>4. QED
    BY <2>1, <2>2, <2>3
<1>3. QED
  BY <1>1, <1>2

(* The regions change as the blocks do. *)
LEMMA RegionsChange ==
    ASSUME NEW f, DOMAIN f \subseteq Nat, NEW old \in Nat, NEW block \in Nat, NEW n
    PROVE  RegionsOf(Changed(f, old, block, n)) =
             Changed(RegionsOf(f), old + OVERHEAD, block + OVERHEAD, n)
<1> DEFINE g == Changed(f, old, block, n)
           D == (DOMAIN RegionsOf(f) \ {old + OVERHEAD}) \union {block + OVERHEAD}
<1>1. /\ DOMAIN g = (DOMAIN f \ {old}) \union {block} /\ DOMAIN g \subseteq Nat
      /\ \A b \in DOMAIN g : g[b] = IF b = block THEN n ELSE f[b]
  BY DEF Changed
<1> HIDE DEF g
<1>2. OVERHEAD \in Nat
  BY SizesAreNat
<1>3. {b + OVERHEAD : b \in DOMAIN g} = D
  <2>1. DOMAIN RegionsOf(f) = {b + OVERHEAD : b \in DOMAIN f}
    BY RegionFacts
  <2>2. \A b \in DOMAIN f : b + OVERHEAD = old + OVERHEAD <=> b = old
    BY <1>2, SMT
  <2>3. ASSUME NEW b \in DOMAIN g PROVE b + OVERHEAD \in D
    BY <1>1, <2>1, <2>2
  <2>4. ASSUME NEW q \in D PROVE \E b \in DOMAIN g : q = b + OVERHEAD
    <3>1. CASE q = block + OVERHEAD
      BY <1>1, <3>1
    <3>2. CASE q # block + OVERHEAD
      <4>1. PICK b \in DOMAIN f : q = b + OVERHEAD
        BY <2>1, <3>2
      <4>2. b # old
        BY <3>2, <4>1
      <4>3. QED
        BY <1>1, <4>1, <4>2
    <3>3. QED
      BY <3>1, <3>2
  <2> HIDE DEF D
  <2>5. QED
    BY <2>3, <2>4
<1>4. ASSUME NEW q \in D
      PROVE  g[q - OVERHEAD] = IF q = block + OVERHEAD THEN n ELSE RegionsOf(f)[q]
  <2>1. PICK b \in DOMAIN g : q = b + OVERHEAD
    BY <1>3
  <2>2. b \in Nat /\ q - OVERHEAD = b /\ (q = block + OVERHEAD <=> b = block)
    BY <1>1, <1>2, <2>1, SMT
  <2>3. b # block => RegionsOf(f)[q] = f[b]
    BY <1>1, <2>1, RegionFacts
  <2>4. QED
    BY <1>1, <2>2, <2>3
<1> HIDE DEF D
<1>5. RegionsOf(g) = [q \in D |-> g[q - OVERHEAD]]
  BY <1>3 DEF RegionsOf
<1>6. QED
  BY <1>4, <1>5 DEF D, g, Changed

(* The regions of two blocks are apart: tiles do not overlap. *)
LEMMA BlocksApart ==
    ASSUME NEW h, Sound(h), NEW a \in Blocks(h), NEW b \in Blocks(h), a # b,
           NEW m \in Nat, NEW n \in Nat,
           m + OVERHEAD <= h.size[a], n + OVERHEAD <= h.size[b]
    PROVE  A!Apart(a + OVERHEAD, m, b + OVERHEAD, n)
<1>1. /\ a \in Nat /\ b \in Nat /\ h.size[a] \in Nat /\ h.size[b] \in Nat /\ OVERHEAD \in Nat
      /\ a < b => a + h.size[a] <= b
      /\ b < a => b + h.size[b] <= a
  BY SizesAreNat DEF Sound, HeapType, Tiled, After
<1>2. QED
  BY <1>1, SMT DEF A!Apart

LEMMA RegionsDrop ==
    ASSUME NEW f, DOMAIN f \subseteq Nat, NEW old \in DOMAIN f
    PROVE  RegionsOf(Dropped(f, old)) = Dropped(RegionsOf(f), old + OVERHEAD)
<1> DEFINE g == Dropped(f, old)
           D == DOMAIN RegionsOf(f) \ {old + OVERHEAD}
<1>1. /\ DOMAIN g = DOMAIN f \ {old} /\ DOMAIN g \subseteq Nat /\ old \in Nat
      /\ \A b \in DOMAIN g : g[b] = f[b]
  BY DEF Dropped
<1> HIDE DEF g
<1>2. /\ DOMAIN RegionsOf(f) = {b + OVERHEAD : b \in DOMAIN f}
      /\ \A b \in DOMAIN f : b + OVERHEAD = old + OVERHEAD <=> b = old
  <2>1. OVERHEAD \in Nat
    BY SizesAreNat
  <2>2. \A b \in DOMAIN f : b + OVERHEAD = old + OVERHEAD <=> b = old
    BY <1>1, <2>1, SMT
  <2>3. QED
    BY <2>2, RegionFacts
<1>3. DOMAIN RegionsOf(g) = D
  <2>1. DOMAIN RegionsOf(g) = {b + OVERHEAD : b \in DOMAIN g}
    BY <1>1, RegionFacts
  <2>2. \A q \in DOMAIN RegionsOf(g) : q \in D
    BY <1>1, <1>2, <2>1
  <2>3. \A q \in D : q \in DOMAIN RegionsOf(g)
    BY <1>1, <1>2, <2>1
  <2> HIDE DEF D
  <2>4. QED
    BY <2>2, <2>3
<1>4. ASSUME NEW q \in D PROVE g[q - OVERHEAD] = RegionsOf(f)[q]
  <2>1. PICK b \in DOMAIN f \ {old} : q = b + OVERHEAD
    BY <1>2
  <2>2. q - OVERHEAD = b
    BY <2>1, SizesAreNat, SMT
  <2>3. RegionsOf(f)[q] = f[b] /\ g[b] = f[b]
    BY <1>1, <2>1, RegionFacts
  <2>4. QED
    BY <2>2, <2>3
<1>5. D = {b + OVERHEAD : b \in DOMAIN g}
  BY <1>1, <1>3, RegionFacts
<1> HIDE DEF D
<1>6. RegionsOf(g) = [q \in D |-> g[q - OVERHEAD]]
  BY <1>5 DEF RegionsOf
<1>7. QED
  BY <1>4, <1>6 DEF D, g, Dropped

(* Under the invariant, blocks and regions are what they should be. *)
LEMMA RegionsHeld ==
    ASSUME Inv
    PROVE  /\ DOMAIN live \subseteq Nat /\ NULL \notin DOMAIN live
           /\ DOMAIN live \subseteq Blocks(heap) /\ Sound(heap)
           /\ Regions = RegionsOf(live)
           /\ DOMAIN Regions = {b + OVERHEAD : b \in DOMAIN live}
           /\ \A b \in DOMAIN live : Regions[b + OVERHEAD] = live[b]
<1>1. /\ Sound(heap) /\ DOMAIN live \subseteq Blocks(heap)
      /\ DOMAIN live \subseteq Nat /\ NULL \notin DOMAIN live
  BY NotNull DEF Inv, HeapInv, Sound, HeapType, Allocated
<1>2. Regions = RegionsOf(live)
  BY DEF Regions, RegionsOf
<1>3. QED
  BY <1>1, <1>2, RegionFacts

LEMMA TakeRefines ==
    ASSUME NoWrap, Inv, Take
    PROVE  A!Next
<1>1. PICK block \in FreeBlocks(heap), x \in Links(heap) :
        /\ FirstFit(heap, block, call.need)
        /\ Link(heap, x) = block
        /\ live' = [b \in (DOMAIN live \ {call.old}) \union {block} |->
                       IF b = block THEN call.asked ELSE live[b]]
  BY DEF Take
<1> DEFINE h == Carved(heap, x, block, call.need)
           r == block + OVERHEAD
<1>2. call # Idle
  BY DEF Take
<1>3. /\ Sound(h) /\ Allocated(h) = DOMAIN live \union {block} /\ block \notin DOMAIN live
      /\ \A a \in DOMAIN live : h.size[a] = heap.size[a]
      /\ h.size[block] >= call.need
  BY <1>1, <1>2, TakeIsSound
<1> HIDE DEF h
<1>4. /\ call.asked \in Nat /\ call.need \in Nat /\ call.asked + OVERHEAD <= call.need
      /\ call.old \in DOMAIN live \union {NULL} /\ call.old \in Nat
      /\ \A b \in DOMAIN live : live[b] \in Nat /\ live[b] + OVERHEAD <= heap.size[b]
      /\ block \in Nat /\ OVERHEAD \in Nat
  BY <1>2, RegionsHeld, SizesAreNat, SMT
     DEF Inv, HeapInv, CallInv, Lengths, Sound, HeapType, FreeBlocks, NULL
<1>5. call.asked + OVERHEAD <= h.size[block]
  <2>1. h.size[block] \in Nat
    BY <1>3 DEF Sound, HeapType, Allocated
  <2>2. QED
    BY <1>3, <1>4, <2>1, SMT
<1>6. ASSUME NEW q \in DOMAIN Regions
      PROVE  r # q /\ A!Apart(r, call.asked, q, Regions[q])
  <2>1. PICK b \in DOMAIN live : q = b + OVERHEAD
    BY RegionsHeld
  <2>2. Regions[q] = live[b] /\ b # block /\ b \in Blocks(h) /\ block \in Blocks(h)
    BY <1>3, <2>1, RegionsHeld DEF Allocated
  <2>3. live[b] \in Nat /\ live[b] + OVERHEAD <= h.size[b]
    BY <1>3, <1>4
  <2>4. A!Apart(r, call.asked, q, live[b])
    BY <1>3, <1>4, <1>5, <2>1, <2>2, <2>3, BlocksApart
  <2>5. r # q
    BY <1>4, <2>1, <2>2, RegionsHeld, SMT
  <2>6. QED
    BY <2>2, <2>4, <2>5
<1>7. Regions' = Changed(Regions, call.old + OVERHEAD, r, call.asked)
  <2>1. live' = Changed(live, call.old, block, call.asked)
    BY <1>1 DEF Changed
  <2>2. Regions' = RegionsOf(live')
    BY DEF Regions, RegionsOf
  <2>3. QED
    BY <1>4, <2>1, <2>2, RegionsHeld, RegionsChange
<1>8. r \in DOMAIN Regions' /\ Regions'[r] = call.asked
  BY <1>7 DEF Changed
<1> HIDE DEF r
<1>9. CASE call.old = NULL
  <2>1. call.old + OVERHEAD \notin DOMAIN Regions
    <3>1. ASSUME NEW b \in DOMAIN live PROVE b + OVERHEAD # NULL + OVERHEAD
      <4>1. b \in Nat /\ b # NULL /\ NULL \in Nat
        BY RegionsHeld DEF NULL
      <4>2. QED
        BY <1>4, <4>1, SMT
    <3>2. QED
      BY <1>9, <3>1, RegionsHeld
  <2>2. DOMAIN Regions \ {call.old + OVERHEAD} = DOMAIN Regions
    BY <2>1
  <2>3. A!Holding(r, call.asked)
    BY <1>7, <2>2 DEF A!Holding, Changed
  <2>4. A!Malloc(r, Regions'[r])
    BY <1>6, <1>8, <2>3 DEF A!Malloc
  <2>5. QED
    BY <1>8, <2>4 DEF A!Next
<1>10. CASE call.old # NULL
  <2>1. call.old + OVERHEAD \in DOMAIN Regions
    BY <1>4, <1>10, RegionsHeld
  <2>2. A!Move(call.old + OVERHEAD, r, Regions'[r])
    BY <1>6, <1>7, <1>8, <2>1 DEF A!Move, Changed
  <2>3. QED
    BY <1>8, <2>1, <2>2 DEF A!Next
<1>11. QED
  BY <1>9, <1>10

LEMMA FreeRefines ==
    ASSUME Inv, NEW b \in DOMAIN live, Free(b)
    PROVE  A!Next
<1>1. live' = Dropped(live, b)
  BY DEF Free, Dropped
<1>2. Regions' = Dropped(Regions, b + OVERHEAD)
  <2>1. Regions' = RegionsOf(live')
    BY DEF Regions, RegionsOf
  <2>2. QED
    BY <1>1, <2>1, RegionsHeld, RegionsDrop
<1>3. b + OVERHEAD \in DOMAIN Regions
  BY RegionsHeld
<1>4. A!Free(b + OVERHEAD)
  BY <1>2, <1>3 DEF A!Free, A!Dropping, Dropped
<1>5. QED
  BY <1>3, <1>4 DEF A!Next

LEMMA ResizedRefines ==
    ASSUME NoWrap, Inv, Inv', NEW b \in DOMAIN live, NEW s, Resized(b, s)
    PROVE  A!Next
<1> DEFINE r == b + OVERHEAD
<1>1. live' = [live EXCEPT ![b] = s]
  BY DEF Resized
<1>2. live' = Changed(live, b, b, s) /\ DOMAIN live' = DOMAIN live
  BY <1>1 DEF Changed
<1>3. Regions' = Changed(Regions, r, r, s)
  <2>1. Regions' = RegionsOf(live') /\ b \in Nat
    BY RegionsHeld DEF Regions, RegionsOf
  <2>2. QED
    BY <1>2, <2>1, RegionsHeld, RegionsChange
<1>4. r \in DOMAIN Regions
  BY RegionsHeld
<1>5. r \in DOMAIN Regions' /\ Regions'[r] = s
  BY <1>3 DEF Changed
<1>6. /\ Sound(heap') /\ DOMAIN live \subseteq Blocks(heap')
      /\ \A a \in DOMAIN live : live'[a] \in Nat /\ live'[a] + OVERHEAD <= heap'.size[a]
  <2>1. HeapInv' /\ Lengths' /\ NoWrap'
    BY DEF Inv, NoWrap, Unwrapped
  <2>2. Sound(heap') /\ DOMAIN live \subseteq Blocks(heap')
    BY <1>2, <2>1 DEF HeapInv, Sound, HeapType, Tiled, Chained, Allocated, FreeBlocks,
                      Blocks, Links, Link, After
  <2>3. QED
    BY <1>2, <2>1, <2>2 DEF Lengths
<1>7. ASSUME NEW q \in DOMAIN Regions \ {r}
      PROVE  A!Apart(r, s, q, Regions[q])
  <2>1. PICK a \in DOMAIN live : q = a + OVERHEAD
    BY RegionsHeld
  <2>2. a # b /\ Regions[q] = live'[a] /\ live'[b] = s
    BY <1>1, <2>1, RegionsHeld
  <2>3. QED
    BY <1>6, <2>1, <2>2, BlocksApart
<1> HIDE DEF r
<1>8. A!Holding(r, s)
  <2>1. (DOMAIN Regions \ {r}) \union {r} = DOMAIN Regions \union {r}
    OBVIOUS
  <2>2. QED
    BY <1>3, <2>1 DEF A!Holding, Changed
<1>9. A!Resize(r, Regions'[r])
  BY <1>4, <1>5, <1>7, <1>8 DEF A!Resize
<1>10. QED
  BY <1>4, <1>5, <1>9 DEF A!Next

LEMMA StepRefines ==
    ASSUME NoWrap, Inv, Inv', [Next]_vars
    PROVE  [A!Next]_Regions
<1>1. CASE UNCHANGED live
  BY <1>1 DEF Regions
<1>2. CASE Take
  BY <1>2, TakeRefines
<1>3. CASE \E b \in DOMAIN live : Free(b)
  BY <1>3, FreeRefines
<1>4. CASE \E b \in DOMAIN live, s \in Sizes : Realloc(b, s)
  <2>1. PICK b \in DOMAIN live, s \in Sizes : Realloc(b, s)
    BY <1>4
  <2>2. UNCHANGED live \/ Resized(b, s)
    BY <2>1, ReallocInPlace DEF Realloc, ReallocMoves
  <2>3. QED
    BY <1>1, <2>2, ResizedRefines
<1>5. ((\E s \in Sizes : Malloc(s)) \/ (\E n \in Counts, s \in ElementSizes : Array(n, s)) \/ Grow
        \/ UNCHANGED vars) => UNCHANGED live
  BY DEF Malloc, Array, Grow, vars
<1>6. QED
  BY <1>1, <1>2, <1>3, <1>4, <1>5 DEF Next

(* As long as no size comes near the end of the address space, the heap is an
   allocator: the regions a program holds never overlap, nor does the new place
   of a block that moves overlap the old (crtl/library/malloc.c:66-208). *)
THEOREM HeapImplementsAllocator ==
    ASSUME NoWrap
    PROVE  Spec => ImplementsAllocator
<1>1. Init => A!Init
  <2> SUFFICES ASSUME Init PROVE Regions = << >>
    BY DEF A!Init
  <2>1. {b + OVERHEAD : b \in DOMAIN live} = {}
    BY DEF Init
  <2>2. QED
    BY <2>1 DEF Regions
<1>2. Inv /\ Inv' /\ [Next]_vars => [A!Next]_Regions
  BY StepRefines
<1>3. QED
  BY <1>1, <1>2, InvAlways, PTL DEF Spec, ImplementsAllocator, A!Spec
=============================================================================
