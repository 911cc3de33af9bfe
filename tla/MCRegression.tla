---------------------------- MODULE MCRegression ----------------------------
(* The shape of cpp/testing/queries/mh4g: one query avoids negative skills, *)
(* others do not speak of them; one is corrupted.                          *)
EXTENDS Regression

MCSkills == [id \in {5, 30} |-> id - 1]
MCArmors == [id \in {1, 2} |-> id - 1]
MCJewels == [id \in {1} |-> id - 1]
Command(name, args) == <<Open, Keyword(name)>> \o args \o <<Close>>
Simple == Command("rare", <<Number(8)>>)
          \o Command("skill", <<Number(5), Number(10)>>)
MCFiles ==
  { Simple,
    Simple \o Command("amulet", <<Number(0), Open, Number(30), Number(7), Close>>)
           \o Command("avoid-negative", <<True>>),
    Command("gender", <<String("female")>>) \o Command("blacklist", <<Nil>>),
    Command("skill", <<Number(5)>>),
    Command("ban-jewels", <<Open, Number(0), Number(1), Close>>)
      \o Command("avoid-negative", <<Nil>>) }
=============================================================================
