---------------------------- MODULE JewelSolver ----------------------------
(***************************************************************************)
(* class JewelSolver of cpp/utils/jewels_query.h: from a jewel key back to *)
(* jewels that make it up.  A plan is a sequence of [id, body] picks.      *)
(***************************************************************************)
EXTENDS Stuffings

(* A mutant: only the jewels of the first effect are loaded.               *)
SolverIds_FirstEffect(effects, filter) ==
  [slots \in 1..3 |->
     SelectSeq([q \in DOMAIN JewelData |-> q],
               LAMBDA q : /\ ValidJewel(filter, q)
                          /\ JewelData[q].slots = slots
                          /\ JewelIsValid(JewelData[q], {effects[1].id}))]

(* The constructor's jewel_ids_: the jewels that help any effect asked.    *)
SolverIds(effects, filter) ==
  [slots \in 1..3 |->
     SelectSeq([q \in DOMAIN JewelData |-> q],
               LAMBDA q : /\ ValidJewel(filter, q)
                          /\ JewelData[q].slots = slots
                          /\ JewelIsValid(JewelData[q],
                               {effects[e].id : e \in DOMAIN effects}))]

(* The search criteria of Solve: the size and multiplier of every jewel to  *)
(* pick.  The search goes from the last one to the first.                  *)
Criteria(key, multiplier) ==
  LET Wants(slots, num, times) ==
        [n \in 1..num |-> [slots |-> slots, times |-> times]]
      plain == Wants(1, Ones(key), 1) \o Wants(2, Twos(key), 1)
               \o Wants(3, Threes(key), 1)
      body  == Wants(1, BodyOnes(key), multiplier)
               \o Wants(2, BodyTwos(key), multiplier)
               \o Wants(3, BodyThrees(key), multiplier)
  IN  IF multiplier > 1 THEN plain \o body ELSE plain

(* Search: the first plan in the order of ids whose effects bring the       *)
(* points pts to zero; {} if there is none.  In plans[n], n jewels are left *)
(* to pick; a further jewel of a criterion is not before the last one.      *)
SearchPlan(s, wants, pts) ==
  LET plans[n \in 0..Len(wants)] ==
        [call \in [from : Nat, pts : Seq(Int)] |->
           LET ids == s.ids[wants[n].slots]
               Left(q) == AddPts(call.pts,
                                 Scale(JewelKey(JewelData[ids[q]], s.effects).pts,
                                       wants[n].times))
               From(q) == IF n > 1 /\ wants[n - 1] = wants[n] THEN q ELSE 1
               Rest(q) == plans[n - 1][[from |-> From(q), pts |-> Left(q)]]
               found == { q \in call.from .. Len(ids) : Rest(q) # {} }
               pick == [id |-> ids[Min(found)], body |-> wants[n].times > 1]
           IN  IF n = 0
               THEN IF call.pts = ZeroPts(Len(pts)) THEN { <<>> } ELSE {}
               ELSE IF found = {} THEN {}
               ELSE { << pick >> \o plan : plan \in Rest(Min(found)) }]
  IN  plans[Len(wants)][[from |-> 1, pts |-> pts]]

(* Solve; {} where the CHECK of the code fails.                            *)
Solve(effects, filter, key, multiplier) ==
  SearchPlan([ids |-> SolverIds(effects, filter), effects |-> effects],
             Criteria(key, multiplier),
             [e \in DOMAIN key.pts |-> Char8(-key.pts[e])])
=============================================================================
