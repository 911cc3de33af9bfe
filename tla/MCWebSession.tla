---------------------------- MODULE MCWebSession ----------------------------
(* A page with two settings; the programs abort on the second.             *)
EXTENDS WebSession

CONSTANTS warrior, broken, helm, boots

Settings == {warrior, broken}
ReachableSystems == [c \in Settings |-> IF c = warrior THEN {1, 2} ELSE {}]
FoundArmors == [c \in Settings |-> IF c = warrior THEN {helm, boots} ELSE {}]
TwoScreensOrThreeSearches == {<<2, 1>>, <<1, 3>>}
=============================================================================
