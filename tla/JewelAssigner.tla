---------------------------- MODULE JewelAssigner ----------------------------
(***************************************************************************)
(* class JewelAssigner of cpp/utils/jewels_query.h, driven as Finalizer    *)
(* drives it: first every part is added, then the jewels of the plan, then *)
(* Pop places one jewel after the other until it returns false.            *)
(* A jewel is represented by its size: Pop looks at nothing else of it.    *)
(***************************************************************************)
EXTENDS Assigning, Slots, FiniteSets

CONSTANT Parts \* number of armor parts

ASSUME PartsAreCounted == Parts \in Nat

VARIABLES
  slots_part_,  \* size -> stack of parts with a free slot of that size
  slots_jewel_, \* size -> stack of jewels to place
  slots_,       \* the size Pop is at
  capacity,     \* the slots of the parts added so far, in order
  placed,       \* <<part, size>> of every jewel Pop has returned, in order
  phase         \* "parts", "jewels", "pop", "done"

vars == <<slots_part_, slots_jewel_, slots_, capacity, placed, phase>>

Lens(stacks) == <<Len(stacks[1]), Len(stacks[2]), Len(stacks[3])>>
Empty == [s \in Sizes |-> <<>>]

Init ==
  /\ slots_part_ = Empty
  /\ slots_jewel_ = Empty
  /\ slots_ = 3
  /\ capacity = <<>>
  /\ placed = <<>>
  /\ phase = "parts"

(* AddPart, for an armor with the given number of slots.                    *)
AddPart(free) ==
  /\ phase = "parts"
  /\ Len(capacity) < Parts
  /\ slots_part_' = [s \in Sizes |->
                       IF s = free THEN Append(slots_part_[s], Len(capacity) + 1)
                       ELSE slots_part_[s]]
  /\ capacity' = Append(capacity, free)
  /\ UNCHANGED <<slots_jewel_, slots_, placed, phase>>

PartsAdded ==
  /\ phase = "parts"
  /\ phase' = "jewels"
  /\ UNCHANGED <<slots_part_, slots_jewel_, slots_, capacity, placed>>

(* AddJewel.                                                                *)
PushJewel(size) ==
  /\ phase = "jewels"
  /\ slots_jewel_' = [slots_jewel_ EXCEPT ![size] = Append(@, size)]
  /\ UNCHANGED <<slots_part_, slots_, capacity, placed, phase>>

(* What the assigner relies on: the jewels it is given fit the parts.  That  *)
(* the search gives it no others is what JewelPlacing is about.             *)
AddJewel(size) ==
  /\ PushJewel(size)
  /\ Fits(Lens(slots_jewel_'), Lens(slots_part_))

JewelsAdded ==
  /\ phase = "jewels"
  /\ phase' = "pop"
  /\ UNCHANGED <<slots_part_, slots_jewel_, slots_, capacity, placed>>

Pop ==
  /\ phase = "pop"
  /\ CanPop(slots_part_, slots_jewel_, slots_)
  /\ LET size == NextSize(slots_jewel_, slots_)
         used == UsedSize(slots_part_, size)
     IN  /\ slots_' = size
         /\ slots_part_' = TakeSlot(slots_part_, used, size)
         /\ slots_jewel_' = TakeJewel(slots_jewel_, size)
         /\ placed' = Append(placed, <<Top(slots_part_[used]), size>>)
  /\ UNCHANGED <<capacity, phase>>

(* Pop returns false.                                                       *)
PopFails ==
  /\ phase = "pop"
  /\ ~CanPop(slots_part_, slots_jewel_, slots_)
  /\ slots_' = NextSize(slots_jewel_, slots_)
  /\ phase' = "done"
  /\ UNCHANGED <<slots_part_, slots_jewel_, capacity, placed>>

Next ==
  \/ \E free \in 0..3 : AddPart(free)
  \/ PartsAdded
  \/ \E size \in Sizes : AddJewel(size)
  \/ JewelsAdded
  \/ Pop
  \/ PopFails

Spec == Init /\ [][Next]_vars

-----------------------------------------------------------------------------
TypeOK ==
  /\ slots_part_ \in [Sizes -> Seq(1..Parts)]
  /\ slots_jewel_ \in [Sizes -> Seq(Sizes)]
  /\ slots_ \in 0..3
  /\ capacity \in Seq(0..3)
  /\ Len(capacity) <= Parts
  /\ placed \in Seq((1..Parts) \X Sizes)
  /\ phase \in {"parts", "jewels", "pop", "done"}

(* Finalizer ends the loop at the first false and shows the set as it is:  *)
(* the greedy choice of slots must not have left a jewel of the plan       *)
(* without a slot.                                                         *)
NoJewelDropped == phase = "done" => slots_jewel_ = Empty

(* What is still to be placed fits the slots that are still free, after    *)
(* every choice of a slot.                                                 *)
RestAlwaysFits ==
  phase # "parts" => Fits(Lens(slots_jewel_), Lens(slots_part_))

(* No slot is used twice: what a part holds and what it has left make up   *)
(* the slots of its armor.                                                 *)
Times(x, list) == Cardinality({ n \in DOMAIN list : list[n] = x })
HeldBy(part) == Times(<<part, 1>>, placed) + 2 * Times(<<part, 2>>, placed)
                                           + 3 * Times(<<part, 3>>, placed)

Has(stack, part) == \E n \in DOMAIN stack : stack[n] = part
FreeOf(part) == (IF Has(slots_part_[1], part) THEN 1 ELSE 0)
                + (IF Has(slots_part_[2], part) THEN 2 ELSE 0)
                + (IF Has(slots_part_[3], part) THEN 3 ELSE 0)

PartsKeepTheirSlots ==
  \A part \in DOMAIN capacity : HeldBy(part) + FreeOf(part) = capacity[part]
=============================================================================
