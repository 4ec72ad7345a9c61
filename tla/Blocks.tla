------------------------------- MODULE Blocks --------------------------------
(***************************************************************************)
(* Geometry of the memory managed by the buddy system: pages are numbered  *)
(* from BUDDY_SYSTEM_BASE, and a block is named by its first page.         *)
(***************************************************************************)
EXTENDS Integers

CONSTANTS
    MaxOrder,   \* BUDDY_MAX_ORDER
    NBlobs,     \* BUDDY_BLOB_NUM
    Size        \* Size[o]: pages in a block of order o, i.e. 1 << o

ASSUME RegionAssumption == MaxOrder \in Nat /\ NBlobs \in Nat \ {0}

\* MaxOrder + 1 is the order written into pages that head no block.
ASSUME SizeAssumption ==
    /\ Size \in [0..(MaxOrder + 1) -> Nat \ {0}]
    /\ Size[0] = 1
    /\ \A o \in 0..MaxOrder : /\ Size[o + 1] = 2 * Size[o]
                              /\ \E k \in 1..Size[MaxOrder] : Size[MaxOrder] = k * Size[o]

Orders  == 0..MaxOrder
NPages  == NBlobs * Size[MaxOrder]
PageIdx == 0..(NPages - 1)

Span(b, o)     == b..(b + Size[o] - 1)
Aligned(b, o)  == \E k \in 0..b : b = k * Size[o]
Fits(b, o)     == o \in Orders /\ Aligned(b, o) /\ b + Size[o] <= NPages
Overlap(x, y)  == Span(x[1], x[2]) \cap Span(y[1], y[2]) # {}
Disjoint(S)    == \A x, y \in S : x # y => ~Overlap(x, y)

\* get_buddy_addr: the exclusive or with 1 << o flips bit o of the index.
get_buddy_addr(b, o) ==
    IF Aligned(b, o + 1) THEN b + Size[o] ELSE b - Size[o]

\* size2order: the smallest order whose block holds n pages.
IsOrderOf(o, n) == n <= Size[o] /\ \A q \in Orders : q < o => Size[q] < n
size2order(n)   == CHOOSE o \in Orders : IsOrderOf(o, n)
==============================================================================
