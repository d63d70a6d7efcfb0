------------------------------- MODULE Malloc -------------------------------
(***************************************************************************)
(* The heap of the C library (crtl/library/malloc.c): blocks laid end to   *)
(* end, each with a header that holds its size and a pointer.  The pointer *)
(* of an allocated block is its own address; those of the free blocks link *)
(* them in the order of their addresses.                                   *)
(*                                                                         *)
(* A loop over the free list is the choice of the block it stops at, which *)
(* its exit condition determines while the list is in order.  The loop of  *)
(* malloc around extendmemory goes round in steps; every other call is one *)
(* step.  The host is told the stack limit, heap.endinitted, after each    *)
(* extension: what it does with it is in module Raspictl.                  *)
(***************************************************************************)
EXTENDS Integers

CONSTANTS
    OVERHEAD, MINSIZE, EXTENDSIZE,   \* 8, 16 and 1024 in the code
    AddrSpace,                       \* 65536: addresses and sizes wrap there
    EndRw,                           \* __endrw, where the program's data ends
    StackAts,                        \* where the stack may be when memory is extended
    Sizes,                           \* sizes the program asks for
    Counts, ElementSizes             \* how many of what length it asks of calloc and __malloc2

ASSUME MallocAssumption ==
    /\ OVERHEAD \in Nat \ {0} /\ MINSIZE \in Nat \ {0} /\ EXTENDSIZE \in Nat \ {0}
    /\ AddrSpace \in Nat \ {0} /\ EndRw \in Nat \ {0}
    /\ StackAts \subseteq EXTENDSIZE .. AddrSpace - 1
    /\ Sizes \subseteq 0 .. AddrSpace - 1
    /\ Counts \subseteq 1 .. AddrSpace - 1 /\ ElementSizes \subseteq 0 .. AddrSpace - 1

VARIABLES
    heap,      \* sizes and pointers of the headers, freeblocks, endinitted
    live,      \* the blocks whose pointers the program holds, with the lengths asked for
    call,      \* the malloc in progress, for realloc with the block to be moved
    outcome    \* "running", or how the program was ended: "oom", "assert"

vars == <<heap, live, call, outcome>>

NULL == 0
Idle == [asked |-> 0, need |-> 0, old |-> NULL]

RoundDown(x, n) == x - (x % n)

(* Mutant: the header is forgotten. *)
RNDSIZE_bare(s) == RoundDown((s + OVERHEAD - 1) % AddrSpace, OVERHEAD)
RNDSIZE(s) == RoundDown((s + 2 * OVERHEAD - 1) % AddrSpace, OVERHEAD)
BlockSize(s) == IF RNDSIZE(s) < MINSIZE THEN MINSIZE ELSE RNDSIZE(s)
roundedendrw == RoundDown(EndRw + OVERHEAD - 1, OVERHEAD)
-----------------------------------------------------------------------------
(* Heaps.  A link is the place of a pointer: NULL stands for freeblocks, the
   address of a free block for the pointer in its header. *)
Heap(size, next, first, end) ==
    [size |-> size, next |-> next, freeblocks |-> first, endinitted |-> end]

Blocks(h)     == DOMAIN h.size
FreeBlocks(h) == {b \in Blocks(h) : h.next[b] # b}
After(h, b)   == b + h.size[b]

Links(h)          == FreeBlocks(h) \union {NULL}
Link(h, x)        == IF x = NULL THEN h.freeblocks ELSE h.next[x]

(* The pointer of link x becomes to. *)
SetLink(h, x, to) ==
    Heap(h.size, [a \in Blocks(h) |-> IF a = x THEN to ELSE h.next[a]],
         IF x = NULL THEN to ELSE h.freeblocks, h.endinitted)

(* b takes in c, the block after it. *)
Absorb(h, b, c) ==
    Heap([a \in Blocks(h) \ {c} |-> IF a = b THEN h.size[b] + h.size[c] ELSE h.size[a]],
         [a \in Blocks(h) \ {c} |-> h.next[a]], h.freeblocks, h.endinitted)

(* b shrinks to s bytes, the rest becomes a block whose pointer is to. *)
Split(h, b, s, to) ==
    Heap([a \in Blocks(h) \union {b + s} |->
             IF a = b THEN s ELSE IF a = b + s THEN h.size[b] - s ELSE h.size[a]],
         [a \in Blocks(h) \union {b + s} |-> IF a = b + s THEN to ELSE h.next[a]],
         h.freeblocks, h.endinitted)

(* freeablock, with x the link the loop stops at: the block is merged with the
   one before it or linked in, then merged with the one after it.  Mutant: the
   last is left out. *)
Linked(h, block, x) ==
    IF x # NULL /\ After(h, x) = block THEN Absorb(h, x, block)
    ELSE SetLink(SetLink(h, x, block), block, Link(h, x))
FreedAt_apart(h, block, x) == Linked(h, block, x)
FreedAt(h, block, x) ==
    LET y      == Link(h, x)
        b      == IF x # NULL /\ After(h, x) = block THEN x ELSE block
        linked == Linked(h, block, x)
    IN  IF y # NULL /\ After(linked, b) = y
        THEN Absorb(SetLink(linked, b, linked.next[y]), b, y)
        ELSE linked

StopsAt(h, block, x) == x < block /\ (Link(h, x) = NULL \/ Link(h, x) > block)
Freed(h, block) == {FreedAt(h, block, x) : x \in {x \in Links(h) : StopsAt(h, block, x)}}
-----------------------------------------------------------------------------
(* extendmemory.  The first extension reaches up to a multiple of EXTENDSIZE.
   Sums that wrap around are above every stack pointer. *)
EndOf(h) == IF h.endinitted = NULL THEN roundedendrw ELSE h.endinitted

Rounded(h, extendby) ==
    RoundDown(extendby + EXTENDSIZE - 1, EXTENDSIZE)
      + IF h.endinitted = NULL /\ roundedendrw % EXTENDSIZE # 0
        THEN EXTENDSIZE - (roundedendrw % EXTENDSIZE) ELSE 0

Fits(h, extendby, sp) ==
    /\ extendby < AddrSpace - 1 - EXTENDSIZE
    /\ EndOf(h) + Rounded(h, extendby) <= sp - EXTENDSIZE

(* The extension is laid out as an allocated block and freed. *)
Grown(h, by) ==
    Heap([a \in Blocks(h) \union {EndOf(h)} |-> IF a = EndOf(h) THEN by ELSE h.size[a]],
         [a \in Blocks(h) \union {EndOf(h)} |-> IF a = EndOf(h) THEN a ELSE h.next[a]],
         h.freeblocks, EndOf(h) + by)
Extension(h, extendby) == Freed(Grown(h, Rounded(h, extendby)), EndOf(h))
-----------------------------------------------------------------------------
Ready == outcome = "running" /\ call = Idle

Malloc(s) ==
    /\ Ready
    /\ call' = [asked |-> s, need |-> BlockSize(s), old |-> NULL]
    /\ UNCHANGED <<heap, live, outcome>>

(* calloc and __malloc2: the product must not have wrapped around.  Mutant: it
   is not looked at. *)
Unwrapped_any(n, s) == TRUE
Unwrapped(n, s) == ((n * s) % AddrSpace) \div n = s

Array(n, s) ==
    /\ Ready
    /\ IF Unwrapped(n, s)
       THEN /\ call' = [asked |-> n * s, need |-> BlockSize((n * s) % AddrSpace),
                        old |-> NULL]
            /\ UNCHANGED outcome
       ELSE outcome' = "assert" /\ UNCHANGED call
    /\ UNCHANGED <<heap, live>>

(* The first free block that is big enough.  Mutant: one of just the right size
   is passed over. *)
IsFit_strict(h, block, need) == block \in FreeBlocks(h) /\ h.size[block] > need
IsFit(h, block, need) == block \in FreeBlocks(h) /\ h.size[block] >= need
FirstFit(h, block, need) ==
    /\ IsFit(h, block, need)
    /\ \A b \in FreeBlocks(h) : IsFit(h, b, need) => block <= b

(* It leaves link x to its rest, or to the block after it if the rest is too
   small for a block, and is marked allocated. *)
Carved(h, x, block, need) ==
    SetLink(IF h.size[block] - need >= MINSIZE
            THEN SetLink(Split(h, block, need, h.next[block]), x, block + need)
            ELSE SetLink(h, x, h.next[block]), block, block)

(* malloc returns, to the program or to realloc, which frees the old block once
   it has copied it. *)
Take ==
    /\ outcome = "running" /\ call # Idle
    /\ \E block \in FreeBlocks(heap), x \in Links(heap) :
        /\ FirstFit(heap, block, call.need)
        /\ Link(heap, x) = block
        /\ LET h == Carved(heap, x, block, call.need) IN
           heap' \in IF call.old = NULL THEN {h} ELSE Freed(h, call.old)
        /\ live' = [b \in (DOMAIN live \ {call.old}) \union {block} |->
                       IF b = block THEN call.asked ELSE live[b]]
    /\ call' = Idle
    /\ UNCHANGED outcome

(* Nothing is big enough: malloc extends memory by what the last free block
   lacks, and looks again. *)
Lacking(h, last, need) == need - IF last = NULL THEN 0 ELSE h.size[last]

Grow ==
    /\ outcome = "running" /\ call # Idle
    /\ \A b \in FreeBlocks(heap) : ~IsFit(heap, b, call.need)
    /\ \E last \in Links(heap), sp \in StackAts :
        /\ Link(heap, last) = NULL
        /\ LET by == Lacking(heap, last, call.need) IN
           IF Fits(heap, by, sp)
           THEN heap' \in Extension(heap, by) /\ UNCHANGED outcome
           ELSE outcome' = "oom" /\ UNCHANGED heap
    /\ UNCHANGED <<live, call>>

Free(b) ==
    /\ Ready
    /\ heap' \in Freed(heap, b)
    /\ live' = [a \in DOMAIN live \ {b} |-> live[a]]
    /\ UNCHANGED <<call, outcome>>
-----------------------------------------------------------------------------
(* realloc.  The block is or has become big enough: free what is left over. *)
Trimmed(h, b, need) ==
    IF h.size[b] - need >= MINSIZE
    THEN Freed(Split(h, b, need, b + need), b + need)
    ELSE {h}

(* There is room behind b: the block after it is free and makes up the rest. *)
Room(h, b, need) ==
    LET after == After(h, b) IN
    after < h.endinitted /\ h.next[after] # after /\ h.size[b] + h.size[after] >= need

(* Mutant: the block taken in stays on the free list. *)
Merged_linked(h, b, need) == Trimmed(Absorb(h, b, After(h, b)), b, need)
Merged(h, b, need) ==
    LET after == After(h, b) IN
    UNION { Trimmed(Absorb(SetLink(h, x, h.next[after]), b, after), b, need) :
              x \in {x \in Links(h) : Link(h, x) = after} }

(* Memory is extended to make room: b is the last block, or the one after it
   is the last free block and too small.  freeablock does not take an extension
   of nothing. *)
Extends(h, b, need) ==
    LET after == After(h, b) IN
    after # h.endinitted => h.next[after] = NULL /\ h.size[b] + h.size[after] < need

Resized(b, s) == live' = [live EXCEPT ![b] = s] /\ UNCHANGED <<call, outcome>>

ReallocFits(b, s) ==
    /\ Ready
    /\ heap.size[b] >= BlockSize(s)
    /\ heap' \in Trimmed(heap, b, BlockSize(s))
    /\ Resized(b, s)

ReallocExtends(b, s) ==
    LET need     == BlockSize(s)
        extendby == (b + need - heap.endinitted) % AddrSpace
    IN
    /\ Ready
    /\ heap.size[b] < need
    /\ Extends(heap, b, need)
    /\ \E sp \in StackAts :
         IF Fits(heap, extendby, sp)
         THEN \E h \in Extension(heap, extendby) :
                IF Rounded(heap, extendby) >= MINSIZE /\ Room(h, b, need)
                THEN heap' \in Merged(h, b, need) /\ Resized(b, s)
                ELSE outcome' = "assert" /\ UNCHANGED <<heap, live, call>>
         ELSE outcome' = "oom" /\ UNCHANGED <<heap, live, call>>

ReallocMerges(b, s) ==
    /\ Ready
    /\ heap.size[b] < BlockSize(s)
    /\ ~Extends(heap, b, BlockSize(s))
    /\ Room(heap, b, BlockSize(s))
    /\ heap' \in Merged(heap, b, BlockSize(s))
    /\ Resized(b, s)

ReallocMoves(b, s) ==
    /\ Ready
    /\ heap.size[b] < BlockSize(s)
    /\ ~Extends(heap, b, BlockSize(s))
    /\ ~Room(heap, b, BlockSize(s))
    /\ call' = [asked |-> s, need |-> BlockSize(s), old |-> b]
    /\ UNCHANGED <<heap, live, outcome>>

Realloc(b, s) ==
    ReallocFits(b, s) \/ ReallocExtends(b, s) \/ ReallocMerges(b, s) \/ ReallocMoves(b, s)
-----------------------------------------------------------------------------
Init ==
    /\ heap = Heap(<< >>, << >>, NULL, NULL)
    /\ live = << >>
    /\ call = Idle
    /\ outcome = "running"

Next ==
    \/ \E s \in Sizes : Malloc(s)
    \/ \E n \in Counts, s \in ElementSizes : Array(n, s)
    \/ Take
    \/ Grow
    \/ \E b \in DOMAIN live : Free(b)
    \/ \E b \in DOMAIN live, s \in Sizes : Realloc(b, s)

Spec == Init /\ [][Next]_vars
FairSpec == Spec /\ WF_vars(Take) /\ WF_vars(Grow)
-----------------------------------------------------------------------------
TypeOK ==
    /\ heap.size \in [Blocks(heap) -> MINSIZE .. AddrSpace - 1]
    /\ heap.next \in [Blocks(heap) -> 0 .. AddrSpace - 1]
    /\ <<heap.freeblocks, heap.endinitted>> \in (0 .. AddrSpace - 1) \X (0 .. AddrSpace - 1)
    /\ \A b \in Blocks(heap) : b % OVERHEAD = 0 /\ heap.size[b] % OVERHEAD = 0
    /\ live \in [DOMAIN live -> 0 .. AddrSpace - 1] /\ DOMAIN live \subseteq Blocks(heap)
    /\ call \in [asked : 0 .. AddrSpace - 1, need : 0 .. AddrSpace - 1,
                 old : DOMAIN live \union {NULL}]
    /\ outcome \in {"running", "oom", "assert"}

(* The blocks lie end to end from the end of the program's data up to
   endinitted: verifyblocks walks over all of them and nothing else
   (crtl/library/malloc.c:339-387). *)
Tiled(h) ==
    /\ h.endinitted = NULL <=> Blocks(h) = {}
    /\ Blocks(h) # {} => roundedendrw \in Blocks(h)
    /\ \A b \in Blocks(h) :
        /\ b >= roundedendrw
        /\ After(h, b) = h.endinitted \/ After(h, b) \in Blocks(h)
        /\ After(h, b) <= h.endinitted
        /\ \A c \in Blocks(h) : b < c => After(h, b) <= c

(* The free list goes through the free blocks in the order of their addresses
   and misses none (crtl/library/malloc.c:293-314, 339-387). *)
Chained(h) ==
    \A x \in Links(h) :
        LET later == {b \in FreeBlocks(h) : b > x} IN
        \/ Link(h, x) = NULL /\ later = {}
        \/ Link(h, x) \in later /\ \A b \in later : Link(h, x) <= b

WellFormed == Tiled(heap) /\ Chained(heap)

(* Two free blocks never lie side by side, in whatever order blocks are freed,
   extended, split and merged, so that no request is refused or memory
   extended because a free stretch is in pieces
   (crtl/library/malloc.c:307-320). *)
Coalesced ==
    \A b \in FreeBlocks(heap) : After(heap, b) \notin FreeBlocks(heap)

(* Both together. *)
HeapIntact == WellFormed /\ Coalesced

(* Nothing leaks and nothing is given away twice: a block is allocated exactly
   while the program holds its pointer, and it has room for the length asked
   for beside its header (crtl/library/malloc.c:66-188). *)
Owned ==
    /\ DOMAIN live = Blocks(heap) \ FreeBlocks(heap)
    /\ \A b \in DOMAIN live : live[b] + OVERHEAD <= heap.size[b]

(* The loop of malloc comes to an end: extending memory at most twice, it finds
   a block or runs out of memory (crtl/library/malloc.c:153-187). *)
MallocReturns == call # Idle ~> call = Idle \/ outcome # "running"

(* The regions a program holds, BLK2PTR of the blocks with the lengths asked
   for, are those of an allocator: no two ever overlap, nor does the new place
   of a block that moves overlap the old (crtl/library/malloc.c:66-208). *)
Regions == [p \in {b + OVERHEAD : b \in DOMAIN live} |-> live[p - OVERHEAD]]

A == INSTANCE Allocator WITH live <- Regions
ImplementsAllocator == A!Spec

(* What the assertion at crtl/library/malloc.c:92 says: once memory has been
   extended for a realloc, the block after is free and big enough. *)
ReallocFindsRoom == outcome # "assert"
=============================================================================
