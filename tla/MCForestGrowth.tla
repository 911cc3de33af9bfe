--------------------------- MODULE MCForestGrowth ---------------------------
(* Three parts; the waist offers a torso-up piece, so that the same body    *)
(* counts once or twice; points of either sign.                             *)
EXTENDS ForestGrowth

MCPartSeq == <<"HEAD", "WAIST", "BODY">>
MCActivation == [s \in {"atk", "def", "eye", "torso_up"} |-> 0]
MCArmor(where, slots, rare, effects) ==
  [part |-> where, slots |-> slots, rare |-> rare, effects |-> effects,
   weapon_type |-> "both", gender |-> "both", max_defense |-> 1]
MCArmorData ==
  << MCArmor("HEAD", 1, 1, [atk |-> 1, def |-> 2]),
     MCArmor("HEAD", 1, 1, [atk |-> 1, eye |-> -1]),
     MCArmor("HEAD", 2, 2, [def |-> 1]),
     MCArmor("WAIST", 0, 1, [torso_up |-> 1]),
     MCArmor("WAIST", 3, 1, [atk |-> 1, def |-> 1, eye |-> 2]),
     MCArmor("BODY", 3, 1, [atk |-> 2, eye |-> 1]),
     MCArmor("BODY", 2, 1, [atk |-> 2, def |-> -1]) >>
MCJewelData == <<>>
MCQuery(effects, max_rare) ==
  [effects |-> effects, amulets |-> <<>>,
   armor_filter |-> [blacklist |-> {}, whitelist |-> {},
                     weapon_type |-> "melee", gender |-> "male",
                     min_rare |-> 1, max_rare |-> max_rare,
                     weapon_slots |-> 0]]
MCQueries ==
  { MCQuery(<< [id |-> a, points |-> 3], [id |-> b, points |-> 3],
               [id |-> c, points |-> 3] >>, r) :
      <<a, b, c, r>> \in { <<"atk", "def", "eye", 2>>, <<"eye", "def", "atk", 2>>,
                           <<"def", "atk", "eye", 1>> } }
MCSubMins == {-1, 2}
=============================================================================
