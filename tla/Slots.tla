-------------------------------- MODULE Slots --------------------------------
(***************************************************************************)
(* The arithmetic of decoration slots (cpp/utils/jewels_query.h): what is  *)
(* left of an alignment of slots once jewels have been put in, and when a  *)
(* set of jewels fits.  An alignment or a jewel count is a triple          *)
(* <<ones, twos, threes>>; a size-s jewel takes one slot of size >= s and  *)
(* leaves the difference free.                                             *)
(***************************************************************************)
EXTENDS Integers

Counts == Nat \X Nat \X Nat

Holes(c) == c[1] + 2 * c[2] + 3 * c[3]

Plus(c, d) == <<c[1] + d[1], c[2] + d[2], c[3] + d[3]>>

(* The jewels counted by c fit into slots s: the size-3 ones need size-3   *)
(* slots, the size-2 ones what is left of the larger slots, and the size-1 *)
(* ones any hole.                                                          *)
Fits(c, s) ==
  /\ c[3] <= s[3]
  /\ c[2] + c[3] <= s[2] + s[3]
  /\ Holes(c) <= Holes(s)

(* Every jewel count that fits into the slots s. *)
Fitting(s) ==
  { c \in (0..Holes(s)) \X (0 .. s[2] + s[3]) \X (0..s[3]) : Fits(c, s) }

(* The three stages of SlotClient::GetResidual for the non-body slots.     *)
AfterThrees(s, three) == <<s[1], s[2], s[3] - three>>

(* A mutant: the hole left of a 3-slot that takes a 2-jewel is forgotten.  *)
AfterTwos_LosesRest(s, two) ==
  IF two <= s[2]
  THEN <<s[1], s[2] - two, s[3]>>
  ELSE <<s[1], 0, s[3] - (two - s[2])>>

AfterTwos(s, two) ==
  IF two <= s[2]
  THEN <<s[1], s[2] - two, s[3]>>
  ELSE <<s[1] + (two - s[2]), 0, s[3] - (two - s[2])>>

(* A mutant: an odd number of 1-jewels in 2-slots is rounded down.         *)
AfterOnes_RoundsDown(s, one) ==
  IF one <= s[1] THEN <<s[1] - one, s[2], s[3]>>
  ELSE LET rest == one - s[1]
       IN  IF rest <= 2 * s[2]
           THEN <<rest % 2, s[2] - (rest \div 2), s[3]>>
           ELSE <<0, 0, s[3] - ((rest - 2 * s[2]) \div 3)>>

AfterOnes(s, one) ==
  IF one <= s[1] THEN <<s[1] - one, s[2], s[3]>>
  ELSE LET rest == one - s[1]
       IN  IF rest <= 2 * s[2]
           THEN <<rest % 2, s[2] - ((rest + 1) \div 2), s[3]>>
           ELSE LET last == rest - 2 * s[2]
                IN  << IF last % 3 = 2 THEN 1 ELSE 0,
                       IF last % 3 = 1 THEN 1 ELSE 0,
                       s[3] - ((last + 2) \div 3) >>

Residual(s, stuffed) ==
  AfterOnes(AfterTwos(AfterThrees(s, stuffed[3]), stuffed[2]), stuffed[1])

(* The residual test cases of jewels_query_test.cc.                        *)
ResidualTestCases ==
  { << <<1, 2, 2>>, <<0, 2, 0>>, <<1, 0, 2>> >>,
    << <<0, 0, 2>>, <<0, 2, 0>>, <<2, 0, 0>> >>,
    << <<0, 0, 2>>, <<1, 1, 1>>, <<0, 0, 0>> >>,
    << <<2, 2, 1>>, <<4, 2, 0>>, <<1, 0, 0>> >>,
    << <<2, 2, 1>>, <<4, 1, 1>>, <<0, 0, 0>> >>,
    << <<1, 2, 2>>, <<8, 0, 0>>, <<0, 0, 1>> >> }
=============================================================================
