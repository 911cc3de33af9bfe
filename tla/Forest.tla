------------------------------- MODULE Forest -------------------------------
(***************************************************************************)
(* The OR/AND forest of cpp/core/or_and_tree.h and the operations of       *)
(* cpp/core/armor_up.h that build it.  An OR node of tag ARMORS lists      *)
(* armor ids; an OR node of tag ANDS lists AND nodes, each an ARMORS node  *)
(* (left) joined to a smaller tree (right).  Node ids are positions in the *)
(* pool, counted from 1.                                                   *)
(*                                                                         *)
(* std::unordered_map iterates in an unspecified order; the model lets it  *)
(* iterate in the order of insertion.                                      *)
(***************************************************************************)
EXTENDS Signature

CONSTANTS
  Queries,        \* the queries asked
  FOUNDATION_NUM  \* effects that are part of the foundation's keys

ASSUME FoundationAssumption == FOUNDATION_NUM \in Nat \ {0}

(* What keeps the bytes of a key from wrapping around: seven parts of at    *)
(* most MAX_POINTS points each.                                             *)
MAX_POINTS == 18

ASSUME QueriesAssumption ==
  /\ PART_NUM \in 2..7
  /\ \A q \in Queries :
       /\ q.effects \in Seq(ToSet(q.effects))
       /\ Arsenal(q) \in Seq(ToSet(Arsenal(q)))
       /\ \A e \in DOMAIN q.effects : q.effects[e].id # TorsoUp
       /\ \A id \in DOMAIN Arsenal(q) :
            /\ Arsenal(q)[id].slots \in 0..3
            /\ Arsenal(q)[id].part = "BODY" => ~IsTorsoUp(Arsenal(q)[id])
            /\ \A e \in DOMAIN q.effects :
                 EffectPoints(Arsenal(q)[id].effects, q.effects[e].id)
                   \in -MAX_POINTS .. MAX_POINTS

(* The pools: AND nodes join nodes that are there, and what is below a node *)
(* comes before it.                                                         *)
Keys == [b0 : Int, b1 : Int, b2 : Int, pts : Seq(Int)]
OrNodes == [key : Keys, tag : {"ARMORS", "ANDS"}, daughters : Seq(Nat)]
AndNodes == [left : Nat, right : Nat]
Pools ==
  { pool \in [ors : Seq(OrNodes), ands : Seq(AndNodes)] :
      /\ \A a \in DOMAIN pool.ands :
           /\ {pool.ands[a].left, pool.ands[a].right} \subseteq DOMAIN pool.ors
           /\ pool.ors[pool.ands[a].left].tag = "ARMORS"
      /\ \A id \in DOMAIN pool.ors : pool.ors[id].tag = "ANDS" =>
           \A a \in ToSet(pool.ors[id].daughters) :
             a \in DOMAIN pool.ands /\ pool.ands[a].right < id }

EmptyPool == [ors |-> <<>>, ands |-> <<>>]

(* A mutant: a key that is there already starts a new list.                *)
Push_Replaces(list, key, value) ==
  SelectSeq(list, LAMBDA group : group.key # key)
  \o << [key |-> key, ids |-> <<value>>] >>

(* CompositeListMap::Push, and the same idiom on an unordered_map.  That    *)
(* the keys of a CompositeListMap have an entry is TableAssumption.         *)
Push(list, key, value) ==
  IF \E g \in DOMAIN list : list[g].key = key
  THEN [g \in DOMAIN list |->
          IF list[g].key = key
          THEN [key |-> key, ids |-> Append(list[g].ids, value)] ELSE list[g]]
  ELSE Append(list, [key |-> key, ids |-> <<value>>])

MakeAnd(pool, left, right) ==
  [ors |-> pool.ors, ands |-> Append(pool.ands, [left |-> left, right |-> right])]

MakeOR(pool, tag, key, daughters) ==
  [ors  |-> Append(pool.ors, [key |-> key, tag |-> tag, daughters |-> daughters]),
   ands |-> pool.ands]

(* One OR node per group, in order; their ids are IdsAfter(pool, groups).   *)
MakeORs(pool, tag, groups) ==
  [ors  |-> pool.ors \o [g \in DOMAIN groups |->
              [key |-> groups[g].key, tag |-> tag, daughters |-> groups[g].ids]],
   ands |-> pool.ands]

IdsAfter(pool, groups) == [g \in DOMAIN groups |-> Len(pool.ors) + g]

-----------------------------------------------------------------------------
(* The foundation.                                                          *)

FoundationEffects(query) ==
  IF Len(query.effects) < FOUNDATION_NUM THEN Len(query.effects)
  ELSE FOUNDATION_NUM

OfPart(arsenal, query, part, id) ==
  arsenal[id].part = part /\ ValidArmor(query.armor_filter, arsenal[id], id)

(* The valid armors of a part, grouped by key.                              *)
ArmorGroups(arsenal, query, part) ==
  LET key(id) == ArmorKey(arsenal[id], query.effects, FoundationEffects(query))
      groups[id \in 0..Len(arsenal)] ==
        IF id = 0 THEN <<>>
        ELSE IF OfPart(arsenal, query, part, id)
        THEN Push(groups[id - 1], key(id), id)
        ELSE groups[id - 1]
  IN  groups[Len(arsenal)]

(* acc is [pool, forests], those of the parts before.                       *)
ClassifyPart(acc, groups) ==
  [pool    |-> MakeORs(acc.pool, "ARMORS", groups),
   forests |-> Append(acc.forests, IdsAfter(acc.pool, groups))]

ClassifyArmors(arsenal, query) ==
  LET classified[p \in 0..PART_NUM] ==
        IF p = 0 THEN [pool |-> EmptyPool, forests |-> <<>>]
        ELSE ClassifyPart(classified[p - 1], ArmorGroups(arsenal, query, PartSeq[p]))
  IN  classified[PART_NUM]

JoinedKey(pool, i, j, is_body) ==
  LET left  == pool.ors[i].key
      right == pool.ors[j].key
  IN  (IF is_body THEN BodyRefactor(left, Multiplier(right) + 1) ELSE left) ++ right

(* acc is [pool, groups], the AND nodes made so far by key.                 *)
Join(acc, i, j, is_body) ==
  LET grown == MakeAnd(acc.pool, i, j)
  IN  [pool   |-> grown,
       groups |-> Push(acc.groups, JoinedKey(acc.pool, i, j, is_body),
                       Len(grown.ands))]

JoinAll(acc, i, right_ors, is_body) ==
  LET joined[n \in 0..Len(right_ors)] ==
        IF n = 0 THEN acc ELSE Join(joined[n - 1], i, right_ors[n], is_body)
  IN  joined[Len(right_ors)]

JoinForests(pool, left_ors, right_ors, is_body) ==
  LET joined[n \in 0..Len(left_ors)] ==
        IF n = 0 THEN [pool |-> pool, groups |-> <<>>]
        ELSE JoinAll(joined[n - 1], left_ors[n], right_ors, is_body)
  IN  joined[Len(left_ors)]

MergeForests(pool, left_ors, right_ors, is_body) ==
  LET joined == JoinForests(pool, left_ors, right_ors, is_body)
  IN  [pool   |-> MakeORs(joined.pool, "ANDS", joined.groups),
       forest |-> IdsAfter(joined.pool, joined.groups)]

(* ArmorUp::Foundation: the pool, and the ids of the roots.                 *)
Foundation(arsenal, query) ==
  LET parts == ClassifyArmors(arsenal, query)
      merged[p \in 1..PART_NUM] ==
        IF p = 1 THEN [pool |-> parts.pool, forest |-> parts.forests[1]]
        ELSE MergeForests(merged[p - 1].pool, parts.forests[p],
                          merged[p - 1].forest, p = Body)
  IN  merged[PART_NUM]

-----------------------------------------------------------------------------
(* SkillSplitter.  s is [arsenal, effect, skill]: effect_id_ and what       *)
(* armor_points_ and is_body_ are computed from.                            *)

(* A mutant: a body counts once, whatever the multiplier.                  *)
ArmorPoints_Once(s, id, multiplier) == EffectPoints(s.arsenal[id].effects, s.skill)

ArmorPoints(s, id, multiplier) ==
  LET points == EffectPoints(s.arsenal[id].effects, s.skill)
  IN  IF s.arsenal[id].part = "BODY" /\ multiplier > 1
      THEN points * multiplier ELSE points

LowPoints == -1000
(* A mutant: the search for a maximum starts at 0.                         *)
Highest_NotNegative(points) == Max(points \union {0})

Highest(points) == Max(points \union {LowPoints})

MaxArmorOr(pool, s, or_id, multiplier) ==
  Highest({ ArmorPoints(s, id, multiplier) :
              id \in ToSet(pool.ors[or_id].daughters) })

MaxOr(pool, s, or_id, multiplier) ==
  LET max[id \in 1..Len(pool.ors)] ==
        IF pool.ors[id].tag = "ARMORS" THEN MaxArmorOr(pool, s, id, multiplier)
        ELSE Highest({ MaxArmorOr(pool, s, pool.ands[a].left, multiplier)
                       + max[pool.ands[a].right] :
                         a \in ToSet(pool.ors[id].daughters) })
  IN  max[or_id]

(* The armors of a list, by points.                                         *)
ByPoints(s, ids, multiplier) ==
  LET groups[n \in 0..Len(ids)] ==
        IF n = 0 THEN <<>>
        ELSE Push(groups[n - 1], ArmorPoints(s, ids[n], multiplier), ids[n])
  IN  groups[Len(ids)]

(* OR nodes of the groups of a node, whose key gains the points of a group; *)
(* the result is a list of TempOr.                                          *)
WithPoints(s, key, groups) ==
  [g \in DOMAIN groups |->
     [key |-> AddPoints(key, s.effect, groups[g].key), ids |-> groups[g].ids]]

SplitNode(pool, s, tag, key, groups) ==
  [pool   |-> MakeORs(pool, tag, WithPoints(s, key, groups)),
   result |-> [g \in DOMAIN groups |->
                 [id |-> Len(pool.ors) + g, points |-> groups[g].key]],
   max    |-> Highest({ groups[g].key : g \in DOMAIN groups })]

SplitArmorOr(pool, s, or_id, multiplier) ==
  SplitNode(pool, s, "ARMORS", pool.ors[or_id].key,
            ByPoints(s, pool.ors[or_id].daughters, multiplier))

(* acc is [pool, groups], the AND nodes made so far by points.              *)
Pair(acc, left_id, points, item, sub_min) ==
  LET grown == MakeAnd(acc.pool, left_id, item.id)
  IN  IF points + item.points >= sub_min
      THEN [pool   |-> grown,
            groups |-> Push(acc.groups, points + item.points, Len(grown.ands))]
      ELSE acc

PairAll(acc, left_id, points, items, sub_min) ==
  LET paired[n \in 0..Len(items)] ==
        IF n = 0 THEN acc
        ELSE Pair(paired[n - 1], left_id, points, items[n], sub_min)
  IN  paired[Len(items)]

(* The left armors of a group with all that the right was split into, but   *)
(* for groups that cannot reach the minimum.                                *)
PairGroup(acc, s, left_key, group, right, sub_min) ==
  LET grown == MakeOR(acc.pool, "ARMORS",
                      AddPoints(left_key, s.effect, group.key), group.ids)
  IN  IF right.max + group.key >= sub_min
      THEN PairAll([pool |-> grown, groups |-> acc.groups], Len(grown.ors),
                   group.key, right.result, sub_min)
      ELSE acc

PairGroups(acc, s, left_key, armors, right, sub_min) ==
  LET paired[n \in 0..Len(armors)] ==
        IF n = 0 THEN acc
        ELSE PairGroup(paired[n - 1], s, left_key, armors[n], right, sub_min)
  IN  paired[Len(armors)]

(* split is SkillSplitter::SplitOr by node, of what it is called with.      *)
SplitAnd(acc, s, and, sub_min, multiplier, split) ==
  LET left     == acc.pool.ors[and.left]
      armors   == ByPoints(s, left.daughters, multiplier)
      left_max == Highest({ armors[g].key : g \in DOMAIN armors })
      right    == IF acc.pool.ors[and.right].tag = "ANDS"
                  THEN split[and.right][[pool    |-> acc.pool,
                                         sub_min |-> sub_min - left_max]]
                  ELSE SplitArmorOr(acc.pool, s, and.right, multiplier)
  IN  PairGroups([pool |-> right.pool, groups |-> acc.groups], s, left.key,
                 armors, right, sub_min)

SplitAnds(pool, s, ands, sub_min, multiplier, split) ==
  LET made[n \in 0..Len(ands)] ==
        IF n = 0 THEN [pool |-> pool, groups |-> <<>>]
        ELSE SplitAnd(made[n - 1], s, ands[n], sub_min, multiplier, split)
  IN  made[Len(ands)]

(* The AND nodes below a node.                                              *)
DaughtersOf(pool, or_id) ==
  LET or == pool.ors[or_id]
  IN  IF or.tag = "ARMORS" THEN <<>>
      ELSE [n \in DOMAIN or.daughters |-> pool.ands[or.daughters[n]]]

(* The pool grows during a split, and what is in it stays.                  *)
SplitCalls == [pool : Pools, sub_min : Int]

SplitOr(pool, s, or_id, sub_min, multiplier) ==
  LET split[id \in 1..Len(pool.ors)] ==
        [call \in SplitCalls |->
           LET ands == SplitAnds(call.pool, s, DaughtersOf(pool, id),
                                 call.sub_min, multiplier, split)
           IN  SplitNode(ands.pool, s, "ANDS", pool.ors[id].key, ands.groups)]
  IN  split[or_id][[pool |-> pool, sub_min |-> sub_min]]

-----------------------------------------------------------------------------
(* The armor sets below a node: sequences of armor ids, BODY first.         *)
Prefixed(ids, sets) == { <<id>> \o set : id \in ids, set \in sets }
LeftIds(pool, and_id) == ToSet(pool.ors[pool.ands[and_id].left].daughters)

SetsOf(pool, or_id) ==
  LET sets[id \in 1..Len(pool.ors)] ==
        LET daughters == ToSet(pool.ors[id].daughters)
        IN  IF pool.ors[id].tag = "ARMORS" THEN { <<a>> : a \in daughters }
            ELSE UNION { Prefixed(LeftIds(pool, a), sets[pool.ands[a].right]) :
                           a \in daughters }
  IN  sets[or_id]

SetsThrough(pool, and_id) ==
  Prefixed(LeftIds(pool, and_id), SetsOf(pool, pool.ands[and_id].right))

(* Nothing is listed twice in a node, and no set is below two daughters.    *)
ListsOnce(pool, or_id) ==
  LET or == pool.ors[or_id]
  IN  \A m, n \in DOMAIN or.daughters : m # n =>
        /\ or.daughters[m] # or.daughters[n]
        /\ or.tag = "ANDS" => SetsThrough(pool, or.daughters[m])
                                \cap SetsThrough(pool, or.daughters[n]) = {}

-----------------------------------------------------------------------------
(* What a key promises, computed from the armors of a set for a query q.   *)
(* A set lists the armor of the BODY first.                                 *)

OneIf(holds) == IF holds THEN 1 ELSE 0

TorsoUps(q, set) ==
  Total([p \in DOMAIN set |-> OneIf(IsTorsoUp(Arsenal(q)[set[p]]))])

SetPoints(q, set, e) ==
  Total([p \in DOMAIN set |->
           EffectPoints(Arsenal(q)[set[p]].effects, q.effects[e].id)
           * (IF p = 1 THEN 1 + TorsoUps(q, set) ELSE 1)])

(* The parts whose slots the header counts: not a body that is multiplied.  *)
SlotCount(q, set, size) ==
  Total([p \in DOMAIN set |-> OneIf(/\ Arsenal(q)[set[p]].slots = size
                                    /\ ~IsTorsoUp(Arsenal(q)[set[p]])
                                    /\ p = 1 => TorsoUps(q, set) = 0)])

BodyHoles(q, set) ==
  IF TorsoUps(q, set) = 0 THEN 0 ELSE Arsenal(q)[set[1]].slots

KeyTells(q, key, set, effects) ==
  /\ <<Ones(key), Twos(key), Threes(key)>>
       = <<SlotCount(q, set, 1), SlotCount(q, set, 2), SlotCount(q, set, 3)>>
  /\ BodySlotSum(key) = BodyHoles(q, set)
  /\ Multiplier(key) = 1 + TorsoUps(q, set)
  /\ \A e \in DOMAIN q.effects :
       GetPoints(key, e) = IF e <= effects THEN SetPoints(q, set, e) ELSE 0

(* The armor sets that the filter of the query admits, BODY first.          *)
AdmittedSets(q) ==
  { set \in [1..PART_NUM -> DOMAIN Arsenal(q)] :
      \A p \in 1..PART_NUM :
        OfPart(Arsenal(q), q, PartSeq[PART_NUM - p + 1], set[p]) }

-----------------------------------------------------------------------------
(* The keys that CompositeListMap::Push has an entry for; any other one is  *)
(* written beside index_map_.                                               *)
POINTS_TABLE == -25 .. 38

(* What the armor at place p adds to a skill, and all from there on: the    *)
(* right of an AND node whose left is at p holds the places after it.       *)
PointsAt(q, set, e, p) ==
  EffectPoints(Arsenal(q)[set[p]].effects, q.effects[e].id)
  * (IF p = 1 THEN 1 + TorsoUps(q, set) ELSE 1)
PointsFrom(q, set, e, p) ==
  Total([n \in 1..PART_NUM |-> IF n < p THEN 0 ELSE PointsAt(q, set, e, n)])

(* The keys a SkillSplitter pushes are points of armors (ByPoints) and of   *)
(* sets below a node (Pair), of effects that are no part of the foundation. *)
ASSUME TableAssumption ==
  \A q \in Queries : \A set \in AdmittedSets(q) :
    \A e \in FoundationEffects(q) + 1 .. Len(q.effects) : \A p \in 1..PART_NUM :
      {PointsAt(q, set, e, p), PointsFrom(q, set, e, p)} \subseteq POINTS_TABLE
=============================================================================
