----------------------------- MODULE MCUnpacker -----------------------------
(* Four parts, so that a frame in the middle of the stack moves; nodes with *)
(* several armors and with several AND daughters.                           *)
EXTENDS Unpacker

MCPartSeq == <<"HEAD", "HANDS", "WAIST", "BODY">>
MCActivation == [s \in {"atk", "def", "torso_up"} |-> 0]
MCArmor(where, slots, effects) ==
  [part |-> where, slots |-> slots, rare |-> 1, effects |-> effects,
   weapon_type |-> "both", gender |-> "both", max_defense |-> 1]
MCArmorData ==
  << MCArmor("HEAD", 0, [atk |-> 1]), MCArmor("HEAD", 0, [atk |-> 1]),
     MCArmor("HEAD", 0, [def |-> 1]),
     MCArmor("HANDS", 0, [atk |-> 1]), MCArmor("HANDS", 0, [def |-> 1]),
     MCArmor("WAIST", 0, [atk |-> 1]), MCArmor("WAIST", 0, [atk |-> 1]),
     MCArmor("BODY", 0, [atk |-> 1]), MCArmor("BODY", 0, [def |-> 1]) >>
MCJewelData == <<>>
MCQuery(effects) ==
  [effects |-> effects, amulets |-> <<>>,
   armor_filter |-> [blacklist |-> {}, whitelist |-> {},
                     weapon_type |-> "melee", gender |-> "male",
                     min_rare |-> 1, max_rare |-> 10, weapon_slots |-> 0]]
MCQueries == { MCQuery(<< [id |-> "atk", points |-> 1] >>) }
=============================================================================
