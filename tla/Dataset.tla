------------------------------ MODULE Dataset ------------------------------
(***************************************************************************)
(* The static game data the search reads, and the pure functions of        *)
(* cpp/dataset and cpp/testing/verifier.h that interpret an armor set.     *)
(*                                                                         *)
(* An effect list is a function from the skills it names to points.        *)
(* Internal ids start at 1 instead of 0; a skill is any value, TorsoUp is  *)
(* the skill with internal id 0.                                           *)
(***************************************************************************)
EXTENDS Integers, Sequences, FiniteSets, FiniteSetsExt, SequencesExt

CONSTANTS
  PartSeq,   \* the armor parts in the order of enum ArmorPart, BODY last
  ArmorData, \* Data::armors_: sequence of armor records
  JewelData, \* Data::jewels_: sequence of [slots, effects]
  Activation,\* negative activation threshold of a skill (0: it has none)
  TorsoUp    \* the skill with internal id 0

PART_NUM == Len(PartSeq)
Body == PART_NUM

ASSUME PartsAssumption ==
  /\ PART_NUM >= 2
  /\ PartSeq[PART_NUM] = "BODY"
  /\ \A p, q \in 1..PART_NUM : PartSeq[p] = PartSeq[q] => p = q

(* The sum of a list of numbers.                                           *)
Total(numbers) ==
  LET sum[n \in 0..Len(numbers)] ==
        IF n = 0 THEN 0 ELSE sum[n - 1] + numbers[n]
  IN  sum[Len(numbers)]

EffectPoints(effects, skill) ==
  IF skill \in DOMAIN effects THEN effects[skill] ELSE 0

-----------------------------------------------------------------------------
(* Arsenal: the fixed armors followed by the amulets of the query.         *)

Arsenal(query) == ArmorData \o query.amulets

IsTorsoUp(armor) == DOMAIN armor.effects = {TorsoUp}

(* ArmorFilter::Validate *)
ValidArmor(filter, armor, id) ==
  LET worn == armor.part \notin {"GEAR", "AMULET"}
  IN  /\ id \notin filter.blacklist
      /\ worn /\ filter.whitelist # {} => id \in filter.whitelist
      /\ armor.weapon_type \in {filter.weapon_type, "both"}
      /\ armor.gender \in {filter.gender, "both"}
      /\ worn => armor.rare \in filter.min_rare .. filter.max_rare
      /\ armor.part = "GEAR" => armor.slots = filter.weapon_slots

(* JewelFilter::Validate *)
ValidJewel(filter, id) == id \notin filter.blacklist

-----------------------------------------------------------------------------
(* An armor set is [ids, jewels]: for each part an armor id and a sequence *)
(* of jewel ids.                                                           *)

(* Data::GetMultiplier *)
GetMultiplier(set, arsenal) ==
  1 + Cardinality({p \in 1..PART_NUM : IsTorsoUp(arsenal[set.ids[p]])})

(* Data::GetTotalDefense *)
GetTotalDefense(set, arsenal) ==
  Total([p \in 1..PART_NUM |-> arsenal[set.ids[p]].max_defense])

(* The points of a skill in a list of jewels.                              *)
JewelPoints(ids, skill) ==
  Total([n \in DOMAIN ids |-> EffectPoints(JewelData[ids[n]].effects, skill)])

(* Data::GetSkillStats, as the points of one skill. *)
SkillStat(set, arsenal, skill) ==
  LET Times(p) == IF p = Body THEN GetMultiplier(set, arsenal) ELSE 1
      AtPart(p) ==
        Times(p) * ( EffectPoints(arsenal[set.ids[p]].effects, skill)
                     + JewelPoints(set.jewels[p], skill) )
  IN  Total([p \in 1..PART_NUM |-> AtPart(p)])

(* The skills GetSkillStats reports: the keys of its stats_map. *)
StatSkills(set, arsenal) ==
  UNION { DOMAIN arsenal[set.ids[p]].effects : p \in 1..PART_NUM }
  \union UNION { UNION { DOMAIN JewelData[set.jewels[p][q]].effects :
                           q \in DOMAIN set.jewels[p] } : p \in 1..PART_NUM }

(* Data::NegativeActivated *)
NegativeActivated(skill, points) ==
  /\ points < 0
  /\ Activation[skill] < 0
  /\ points <= Activation[skill]

SomeNegativeActivated(set, arsenal) ==
  \E skill \in StatSkills(set, arsenal) :
    NegativeActivated(skill, SkillStat(set, arsenal, skill))

-----------------------------------------------------------------------------
(* cpp/testing/verifier.h: what the regression binary demands of a result. *)

VerifySkillRequirement(arsenal, query, set) ==
  /\ \A e \in DOMAIN query.effects :
       LET skill == query.effects[e].id
       IN  /\ skill \in StatSkills(set, arsenal)
           /\ SkillStat(set, arsenal, skill) >= query.effects[e].points
  /\ query.avoid_negative => ~SomeNegativeActivated(set, arsenal)

VerifyDefenseRequirement(arsenal, query, set) ==
  GetTotalDefense(set, arsenal) >= query.defense

(* VerifyWeaponTypeRequirement, VerifyGenderRequirement,                    *)
(* VerifyRareRequirement and VerifyArmorBlacklist.                          *)
VerifyArmors(arsenal, query, set) ==
  LET filter == query.armor_filter
  IN  \A p \in 1..PART_NUM :
        LET id == set.ids[p]
            armor == arsenal[id]
        IN  /\ armor.weapon_type \in {filter.weapon_type, "both"}
            /\ armor.gender \in {filter.gender, "both"}
            /\ PartSeq[p] \notin {"GEAR", "AMULET"} =>
                 /\ armor.rare \in filter.min_rare .. filter.max_rare
                 /\ id \notin filter.blacklist
                 /\ filter.whitelist # {} => id \in filter.whitelist

VerifyJewelBlacklist(query, set) ==
  \A p \in 1..PART_NUM : \A q \in DOMAIN set.jewels[p] :
    set.jewels[p][q] \notin query.jewel_filter.blacklist

VerifyArmorSet(arsenal, query, set) ==
  /\ VerifyArmors(arsenal, query, set)
  /\ VerifyJewelBlacklist(query, set)
  /\ VerifyDefenseRequirement(arsenal, query, set)
  /\ VerifySkillRequirement(arsenal, query, set)
=============================================================================
