----------------------------- MODULE Unpacking -----------------------------
(***************************************************************************)
(* The stack of class Unpacker (cpp/core/pruners.h) as pure operators.  A  *)
(* frame stands on one armor of one part: [or_id, and_id, armor_or, seq]   *)
(* is armor number seq of node armor_or, the left of AND node number       *)
(* and_id of node or_id.  The last frame has no AND node: or_id and and_id *)
(* are 0.  The stack is shorter than PART_NUM only when it is empty.       *)
(***************************************************************************)
EXTENDS Forest

(* The loop that restores the stack: the first armor of every part below.  *)
Descend(pool, or_id) ==
  LET down[id \in 1..Len(pool.ors)] ==
        LET or  == pool.ors[id]
            and == pool.ands[Head(or.daughters)]
        IN  IF or.tag = "ARMORS"
            THEN << [or_id |-> 0, and_id |-> 0, armor_or |-> id, seq |-> 1] >>
            ELSE << [or_id |-> id, and_id |-> 1, armor_or |-> and.left, seq |-> 1] >>
                 \o down[and.right]
  IN  down[or_id]

AndOf(pool, frame) == pool.ands[pool.ors[frame.or_id].daughters[frame.and_id]]

(* Mutants: the last armor of a node, or its last AND node, is not reached. *)
HasArmor_OffByOne(pool, frame) ==
  frame.seq + 1 < Len(pool.ors[frame.armor_or].daughters)

HasAnd_OffByOne(pool, frame) ==
  /\ frame.or_id # 0
  /\ frame.and_id + 1 < Len(pool.ors[frame.or_id].daughters)

HasArmor(pool, frame) ==
  frame.seq < Len(pool.ors[frame.armor_or].daughters)

HasAnd(pool, frame) ==
  /\ frame.or_id # 0
  /\ frame.and_id < Len(pool.ors[frame.or_id].daughters)

CanMove(pool, frame) == HasArmor(pool, frame) \/ HasAnd(pool, frame)

(* The next armor of the node, else the first one of the next AND node.    *)
Move(pool, frame) ==
  IF HasArmor(pool, frame) THEN [frame EXCEPT !.seq = @ + 1]
  ELSE LET next == [frame EXCEPT !.and_id = @ + 1, !.seq = 1]
       IN  [next EXCEPT !.armor_or = AndOf(pool, next).left]

(* The deepest frame that can move does, and what was above it is restored;*)
(* the empty stack asks for another tree.                                  *)
Advance(pool, stack) ==
  LET movable == { level \in DOMAIN stack : CanMove(pool, stack[level]) }
      top     == Max(movable)
      moved   == Move(pool, stack[top])
  IN  IF movable = {} THEN <<>>
      ELSE SubSeq(stack, 1, top - 1) \o << moved >>
           \o (IF moved.or_id = 0 THEN <<>>
               ELSE Descend(pool, AndOf(pool, moved).right))

(* armor_set_.ids: every assignment to a frame sets the id of its level.   *)
RawIds(pool, stack) ==
  [level \in DOMAIN stack |->
     pool.ors[stack[level].armor_or].daughters[stack[level].seq]]
=============================================================================
