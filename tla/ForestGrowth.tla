---------------------------- MODULE ForestGrowth ----------------------------
(***************************************************************************)
(* The life of the node pool during a search: ArmorUp::Foundation          *)
(* classifies the armors and merges the parts one by one, then the         *)
(* SkillSplitPruners split trees of the forest, effect by effect, in any   *)
(* order and with any minimum.                                             *)
(***************************************************************************)
EXTENDS Forest

CONSTANTS
  SubMins,   \* minimum points a split may be asked for
  MaxSplits  \* bound: splits of one search

ASSUME SubMinsAssumption == SubMins \subseteq Int

VARIABLES
  asked,
  pool,      \* pool_
  part_forests,
  current,   \* the forest merged so far
  part,      \* the part merged last
  trees,     \* [id, multiplier, effects]: trees, split by that many effects
  last,      \* the last split: the tree, sub_min, and the trees it returned
  splits     \* splits so far

growth_vars == <<asked, pool, part_forests, current, part, trees, last, splits>>

NoSplit == [tree |-> [id |-> 0], sub_min |-> 0, new |-> {}]
TreeOf(id, effects) ==
  [id |-> id, multiplier |-> Multiplier(pool'.ors[id].key), effects |-> effects]

Splitter(q, e) ==
  [arsenal |-> Arsenal(q), effect |-> e, skill |-> q.effects[e].id]

GrowthInit ==
  /\ asked \in Queries
  /\ pool = EmptyPool
  /\ part_forests = <<>>
  /\ current = <<>>
  /\ part = 0
  /\ trees = {}
  /\ last = NoSplit
  /\ splits = 0

Classify ==
  /\ part = 0
  /\ LET parts == ClassifyArmors(Arsenal(asked), asked)
     IN  /\ pool' = parts.pool
         /\ part_forests' = parts.forests
         /\ current' = parts.forests[1]
  /\ part' = 1
  /\ UNCHANGED <<asked, trees, last, splits>>

(* The body is the last part; after it the roots become trees.              *)
Merge ==
  /\ part \in 1 .. PART_NUM - 1
  /\ LET merged == MergeForests(pool, part_forests[part + 1], current,
                                part + 1 = Body)
     IN  /\ pool' = merged.pool
         /\ current' = merged.forest
  /\ part' = part + 1
  /\ trees' = IF part + 1 = Body
              THEN { TreeOf(id, FoundationEffects(asked)) :
                       id \in ToSet(current') }
              ELSE {}
  /\ UNCHANGED <<asked, part_forests, last, splits>>

(* SkillSplitter::Split of the next effect of a tree.                       *)
Split(tree, sub_min) ==
  /\ splits < MaxSplits
  /\ tree.effects < Len(asked.effects)
  /\ LET e == tree.effects + 1
         split == SplitOr(pool, Splitter(asked, e), tree.id, sub_min, tree.multiplier)
         new == { TreeOf(split.result[n].id, e) : n \in DOMAIN split.result }
     IN  /\ pool' = split.pool
         /\ trees' = (trees \ {tree}) \union new
         /\ last' = [tree |-> tree, sub_min |-> sub_min, new |-> new]
  /\ splits' = splits + 1
  /\ UNCHANGED <<asked, part_forests, current, part>>

GrowthNext ==
  \/ Classify
  \/ Merge
  \/ \E tree \in trees, sub_min \in SubMins : Split(tree, sub_min)

GrowthSpec == GrowthInit /\ [][GrowthNext]_growth_vars

-----------------------------------------------------------------------------
(* The prunings of the search judge a whole tree by the key of its root:    *)
(* every armor set below the root has that key.                             *)
KeysTellTheSets ==
  \A tree \in trees : \A set \in SetsOf(pool, tree.id) :
    KeyTells(asked, pool.ors[tree.id].key, set, tree.effects)

Apart(ids) ==
  \A i, j \in ids : i # j => SetsOf(pool, i) \cap SetsOf(pool, j) = {}

(* The roots of the foundation hold every armor set the filter admits, and  *)
(* a walk over them, or over any tree split off later, meets each one once. *)
FoundationHoldsEverySet ==
  part = PART_NUM =>
    LET roots == ToSet(current)
    IN  /\ UNION { SetsOf(pool, id) : id \in roots } = AdmittedSets(asked)
        /\ Apart(roots)
        /\ \A id \in DOMAIN pool.ors : ListsOnce(pool, id)

(* Splitting loses no armor set that reaches the minimum, keeps none below, *)
(* and puts none into two trees.                                            *)
SplitIsExact ==
  last # NoSplit =>
    LET e   == last.tree.effects + 1
        ids == { tree.id : tree \in last.new }
    IN  /\ UNION { SetsOf(pool, id) : id \in ids }
             = { set \in SetsOf(pool, last.tree.id) :
                   SetPoints(asked, set, e) >= last.sub_min }
        /\ Apart(ids)

(* Max, by which PreFilter rejects trees, is reached by a set of the tree.  *)
MaxIsReached ==
  \A tree \in trees : \A e \in tree.effects + 1 .. Len(asked.effects) :
    MaxOr(pool, Splitter(asked, e), tree.id, tree.multiplier)
      = Max({ SetPoints(asked, set, e) : set \in SetsOf(pool, tree.id) })
=============================================================================
