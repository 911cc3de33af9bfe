---------------------------- MODULE MCPostServer ----------------------------
(* Queries with a list at the end, a number at the end, and an amulet and   *)
(* numbers of up to three digits in the middle; a query without an effect,  *)
(* a body without a query, and one without a value.                         *)
EXTENDS PostServer

MCSkills == [id \in {1, 5, 30} |-> id - 1]
MCArmors == [id \in {1, 12} |-> id - 1]
MCJewels == [id \in {1} |-> id - 1]
Command(name, args) == <<Open, Keyword(name)>> \o args \o <<Close>>
Body(key, value) == [key |-> key, value |-> value]
MCBodies ==
  { Body("query", Command("skill", <<Number(5), Number(100)>>)
                  \o Command("blacklist", <<Open, Number(1), Number(12), Close>>)),
    Body("query",
         Command("amulet", <<Number(2), Open, Number(30), Number(-12), Close>>)
         \o Command("skill", <<Number(30), Number(-15)>>)
         \o Command("max-rare", <<Number(10)>>)),
    Body("query", Command("gender", <<String("female")>>)
                  \o Command("avoid-negative", <<Nil>>)),
    Body("query", Command("weapon-holes", <<Number(0)>>)),
    Body("name", Command("skill", <<Number(5), Number(10)>>)),
    Body("query", <<>>) }

(* The query of query_test.cc is read as the test expects.                 *)
ASSUME QueryTest ==
  LET text == Command("weapon-type", <<String("range")>>)
              \o Command("weapon-slots", <<Number(2)>>)
              \o Command("skill", <<Number(30), Number(10)>>)
              \o Command("skill", <<Number(1), Number(10)>>)
              \o Command("max-results", <<Number(20)>>)
              \o Command("amulet", <<Number(2), Open, Number(1), Number(4),
                                     Number(30), Number(10), Close>>)
              \o Command("gender", <<String("female")>>)
      query == Parse(text, NewQuery).query
  IN  /\ Parse(text, NewQuery).status = "SUCCESS"
      /\ query.effects = << [id |-> Skills[30], points |-> 10],
                            [id |-> Skills[1], points |-> 10] >>
      /\ query.max_results = 20 /\ query.defense = 0
      /\ query.armor_filter.weapon_type = "range"
      /\ query.armor_filter.weapon_slots = 2
      /\ query.armor_filter.gender = "female"
      /\ query.amulets =
           << [slots |-> 2, effects |-> << [id |-> Skills[1], points |-> 4],
                                           [id |-> Skills[30], points |-> 10] >>] >>
=============================================================================
