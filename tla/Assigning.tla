----------------------------- MODULE Assigning -----------------------------
(***************************************************************************)
(* One call of JewelAssigner::Pop as operators on its two tables:          *)
(* parts[s], the stack of the parts that have a free slot of size s, and   *)
(* jewels[s], the stack of the size-s jewels still to be placed.           *)
(***************************************************************************)
EXTENDS Integers, Sequences

Sizes == 1..3

(* The loop of Pop that lowers slots_ to the largest size with jewels left;*)
(* 0 when there is none at or below slots.                                 *)
NextSize(jewels, slots) ==
  IF slots >= 3 /\ jewels[3] # <<>> THEN 3
  ELSE IF slots >= 2 /\ jewels[2] # <<>> THEN 2
  ELSE IF slots >= 1 /\ jewels[1] # <<>> THEN 1
  ELSE 0

(* A mutant: only a slot of the size of the jewel will do.                 *)
UsedSize_Exact(parts, size) == IF parts[size] # <<>> THEN size ELSE 4

(* The smallest slot that is free and takes a jewel of the size; 4 if none.*)
UsedSize(parts, size) ==
  IF size <= 1 /\ parts[1] # <<>> THEN 1
  ELSE IF size <= 2 /\ parts[2] # <<>> THEN 2
  ELSE IF parts[3] # <<>> THEN 3
  ELSE 4

CanPop(parts, jewels, slots) ==
  /\ NextSize(jewels, slots) > 0
  /\ UsedSize(parts, NextSize(jewels, slots)) < 4

Top(stack) == stack[Len(stack)]
Rest(stack) == SubSeq(stack, 1, Len(stack) - 1)

(* Mutants: what is left of a larger slot is lost; the slot is not taken.   *)
TakeSlot_LosesRest(parts, used, size) == [parts EXCEPT ![used] = Rest(@)]
TakeSlot_KeepsSlot(parts, used, size) ==
  [s \in Sizes |-> IF s = used - size THEN Append(parts[s], Top(parts[used]))
                   ELSE parts[s]]

(* The part gives its slot of size `used` and keeps the difference.        *)
TakeSlot(parts, used, size) ==
  [s \in Sizes |->
     IF s = used THEN Rest(parts[s])
     ELSE IF s = used - size THEN Append(parts[s], Top(parts[used]))
     ELSE parts[s]]

TakeJewel(jewels, size) == [jewels EXCEPT ![size] = Rest(@)]
=============================================================================
