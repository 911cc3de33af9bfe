--------------------------- MODULE MCArmorSearch ---------------------------
(* Three parts, one of them amulets that come with the query; a torso-up   *)
(* helmet; jewels of two sizes; points of either sign; a query of no       *)
(* effects at all, and one with an effect for each kind of pruner.         *)
EXTENDS ArmorSearch

MCPartSeq == <<"HEAD", "AMULET", "BODY">>
MCActivation ==
  [s \in {"atk", "def", "eye", "torso_up"} |-> IF s = "def" THEN -2 ELSE 0]
(* The queries are shared by TLC's workers: their records list the fields   *)
(* in the order TLC keeps them in, so that no worker has to sort them.      *)
MCArmor(where, slots, defense, effects) ==
  [slots |-> slots, effects |-> effects, part |-> where, rare |-> 1,
   weapon_type |-> "both", gender |-> "both", max_defense |-> defense]
MCArmorData ==
  << MCArmor("HEAD", 1, 1, [atk |-> 1, eye |-> 1]),
     MCArmor("HEAD", 0, 2, [torso_up |-> 1]),
     MCArmor("BODY", 3, 2, [atk |-> 1, def |-> -2]),
     MCArmor("BODY", 3, 2, [atk |-> 1, def |-> -1]),
     MCArmor("BODY", 2, 1, [eye |-> 1, def |-> 1]),
     MCArmor("HEAD", 1, 3, [eye |-> 2]),
     MCArmor("BODY", 2, 2, [atk |-> 1]) >>
MCJewelData ==
  << [slots |-> 1, effects |-> [atk |-> 1, def |-> -1]],
     [slots |-> 1, effects |-> [def |-> 1]],
     [slots |-> 2, effects |-> [atk |-> 3]],
     [slots |-> 1, effects |-> [atk |-> 1, def |-> 1]],
     [slots |-> 1, effects |-> [eye |-> 1]] >>
MCQuery(effects, amulets, negative, defense, most, armors, jewels) ==
  [defense |-> defense, effects |-> effects, amulets |-> amulets,
   armor_filter |-> [weapon_type |-> "melee", gender |-> "male",
                     blacklist |-> armors, whitelist |-> {},
                     min_rare |-> 1, max_rare |-> 10, weapon_slots |-> 0],
   jewel_filter |-> [blacklist |-> jewels],
   avoid_negative |-> negative, max_results |-> most]
(* What takes two slots or points away is for one kind of query, what adds  *)
(* answers for the other.                                                   *)
MCMixed(effects, amulets, negative, defense, most, jewels) ==
  MCQuery(effects, amulets, negative, defense, most, {6, 7}, jewels \union {4, 5})
MCPlain(effects, amulets, defense, most) ==
  MCQuery(effects, amulets, FALSE, defense, most, {3, 4}, {1, 3})
Want(skill, points) == [points |-> points, id |-> skill]
MCQueries ==
  { MCMixed(<<Want("atk", 4)>>, <<MCArmor("AMULET", 1, 0, [atk |-> 1])>>,
            TRUE, 0, -1, {}),
    MCMixed(<<Want("atk", 2), Want("def", 2)>>,
            <<MCArmor("AMULET", 2, 0, [def |-> 1]),
              MCArmor("AMULET", 0, 0, [atk |-> 2])>>, FALSE, 3, -1, {}),
    MCMixed(<<Want("def", 1), Want("atk", 3)>>,
            <<MCArmor("AMULET", 3, 0, [def |-> 2])>>, FALSE, 0, 2, {3}),
    MCMixed(<<Want("atk", 1), Want("def", 1), Want("eye", 1)>>,
            <<MCArmor("AMULET", 2, 0, [eye |-> 1, def |-> 1])>>,
            FALSE, 0, -1, {}),
    MCMixed(<<>>, <<MCArmor("AMULET", 0, 0, [def |-> 1])>>, FALSE, 0, 1, {}),
    MCPlain(<<Want("atk", 3), Want("def", 2), Want("eye", 1)>>,
            <<MCArmor("AMULET", 1, 0, [def |-> 1]),
              MCArmor("AMULET", 0, 0, [atk |-> 2])>>, 0, -1),
    MCPlain(<<Want("eye", 3), Want("atk", 2), Want("def", 2)>>,
            <<MCArmor("AMULET", 2, 0, [def |-> 1])>>, 0, 3),
    MCPlain(<<Want("def", 4), Want("atk", 3)>>,
            <<MCArmor("AMULET", 1, 0, [atk |-> 1]),
              MCArmor("AMULET", 1, 0, [def |-> 1])>>, 3, -1) }
-----------------------------------------------------------------------------
(* One set of armors: the helmet costs a point of the second effect, which  *)
(* two jewels of the second effect would more than make up for.             *)
NegativeParts == <<"HEAD", "BODY">>
NegativeArmors ==
  << MCArmor("HEAD", 1, 1, [atk |-> 2, def |-> -1]),
     MCArmor("BODY", 1, 1, [atk |-> 1]) >>
NegativeJewels == << [slots |-> 1, effects |-> [def |-> 1]] >>
NegativeQueries ==
  { MCQuery(<<Want("atk", 3), Want("def", 1)>>, <<>>, FALSE, 0, 10, {}, {}) }
=============================================================================
