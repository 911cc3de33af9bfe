---------------------------- MODULE MCLispEngine ----------------------------
(* Three parts.  Two heads and two bodies have the same key for the first   *)
(* two effects and differ in the third, so that a forest is split twice;    *)
(* jewels of all sizes, one with a point taken away.  With the cut-off at 1 *)
(* products are not made.                                                   *)
EXTENDS LispEngine

MCParts == <<"head", "body", "legs">>

MCArmor(part, holes, type, atk, def, eye) ==
  [part |-> part, holes |-> holes, type |-> type,
   points |-> [atk |-> atk, def |-> def, eye |-> eye]]
MCArmors ==
  << MCArmor("head", 0, "both",  2, 0, 1),
     MCArmor("head", 0, "both",  2, 0, -1),
     MCArmor("body", 1, "both",  0, 2, 2),
     MCArmor("body", 1, "melee", 0, 2, 0),
     MCArmor("body", 2, "both",  1, 1, 3),
     MCArmor("legs", 3, "melee", 0, 0, 0),
     MCArmor("legs", 0, "both",  2, 2, 3),
     MCArmor("legs", 1, "range", 1, -1, 1) >>

MCJewel(holes, atk, def, eye) ==
  [holes |-> holes, points |-> [atk |-> atk, def |-> def, eye |-> eye]]
MCJewels ==
  << MCJewel(1, 1, -1, 0), MCJewel(1, 0, 1, 0), MCJewel(1, -1, 0, 1),
     MCJewel(2, 2, 0, 1), MCJewel(3, 0, 4, 0) >>

Ask(effect, points) == [effect |-> effect, points |-> points]
MCRequired ==
  { <<Ask("atk", 4)>>,
    <<Ask("eye", 4), Ask("def", 4)>>,
    <<Ask("atk", 3), Ask("def", 3), Ask("eye", 3)>>,
    <<Ask("atk", 4), Ask("def", 2), Ask("eye", 4)>>,
    <<Ask("eye", 2), Ask("def", 2), Ask("atk", 4)>> }
MCQueries ==
  [required : MCRequired, type : {"melee", "range"}, cutOff : {1, 20},
   strict : BOOLEAN]
=============================================================================
