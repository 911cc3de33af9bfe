---------------------------- MODULE MCSlotClient ----------------------------
(* Two effects; jewels of every size, one of them with a negative point and *)
(* one of them of two effects.                                              *)
EXTENDS SlotClient

MCPartSeq == <<"HEAD", "BODY">>
MCArmorData == <<>>
MCActivation == [s \in {"atk", "def"} |-> 0]
MCEffects == << [id |-> "atk", points |-> 5], [id |-> "def", points |-> 5] >>
MCJewelData ==
  << [slots |-> 1, effects |-> [atk |-> 1, def |-> -1]],
     [slots |-> 1, effects |-> [def |-> 1]],
     [slots |-> 2, effects |-> [atk |-> 3, def |-> -1]],
     [slots |-> 3, effects |-> [atk |-> 5, def |-> 2]] >>
MCBlacklists == {{}, {2}, {3, 4}}

(* The unit tests of GetResidual hold of the operator the models use.      *)
ASSUME ResidualTests ==
  \A case \in ResidualTestCases : Residual(case[1], case[2]) = case[3]
=============================================================================
