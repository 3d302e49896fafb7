--------------------------- MODULE ConnectionSlot ---------------------------
(***************************************************************************)
(* What the owner of a Socket may count on: it holds at most one link, a    *)
(* link comes into it at most once, in the order in which the daemon        *)
(* delivered the links, and leaves it by being dropped or by being replaced *)
(* by a newer one.                                                         *)
(***************************************************************************)
EXTENDS Naturals

CONSTANT MaxLink       \* links are numbered 1..MaxLink in order of delivery

VARIABLES link,        \* the link in the slot, 0 for none
          newest       \* the newest link that was ever in the slot

slotVars == <<link, newest>>

SlotInit == link = 0 /\ newest = 0

Adopt(l) == l > newest /\ link' = l /\ newest' = l

Drop == link # 0 /\ link' = 0 /\ UNCHANGED newest

SlotNext == Drop \/ \E l \in 1..MaxLink : Adopt(l)

SlotSpec == SlotInit /\ [][SlotNext]_slotVars
=============================================================================
