---------------------------- MODULE PageAllocator ----------------------------
(***************************************************************************)
(* What a caller of buddy_alloc and buddy_free relies on, whatever lists,  *)
(* page descriptors and locks the buddy system keeps: a block handed out   *)
(* is a naturally aligned run of pages of the managed region and shares no *)
(* page with any other block that is still out.                            *)
(***************************************************************************)
EXTENDS Blocks

VARIABLE held   \* blocks <<first page, order>> that are out with callers

Init == held = {}

Alloc(b, o) ==
    /\ Aligned(b, o)
    /\ Span(b, o) \subseteq PageIdx
    /\ \A h \in held : ~Overlap(<<b, o>>, h)
    /\ held' = held \cup {<<b, o>>}

Free(b, o) ==
    /\ <<b, o>> \in held
    /\ held' = held \ {<<b, o>>}

Next == \E b \in PageIdx, o \in Orders : Alloc(b, o) \/ Free(b, o)

Spec == Init /\ [][Next]_held
==============================================================================
