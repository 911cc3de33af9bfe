---------------------------- MODULE MCWinBinding ----------------------------
(* A dataset of three skill systems, two jewels and six armors, and three  *)
(* queries, one of which cannot be read.                                   *)
EXTENDS WinBinding

Skills3 == <<25, 1, 4>>
Jewels2 == <<8, 3>>
Armor(external_id, part) == [id |-> external_id, part |-> part]
Armors6 ==
  <<Armor(901, "HEAD"), Armor(117, "BODY"), Armor(12, "ARMS"),
    Armor(40, "WAIST"), Armor(902, "HEAD"), Armor(5, "LEGS")>>
JewelLists == {<< >>, <<0, 1>>}
TwoAmulets ==
  [readable |-> TRUE, slots |-> 2, amulets |-> <<<<4, 3, 1, -2, 25, 6>>, <<1, 5>>>>]
OneAmulet == [readable |-> TRUE, slots |-> 0, amulets |-> <<<<25, 1, 4, 4, 9>>>>]
Misspelt == [readable |-> FALSE, slots |-> 0, amulets |-> << >>]
ThreeQueries == {TwoAmulets, OneAmulet, Misspelt}
=============================================================================
