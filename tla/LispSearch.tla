----------------------------- MODULE LispSearch -----------------------------
(***************************************************************************)
(* The search of the Lisp engine (src/lisp/engine/armor-up.lisp): a forest *)
(* of armors for every key of the first two effects asked, the jewel sets  *)
(* that reach them, and one stage for each further effect that splits the  *)
(* forests by its points.  A forest is a list of armors or a list of trees *)
(* of armors and a forest.  The lazy streams of emitter.lisp, which it     *)
(* searches with, come first.                                              *)
(***************************************************************************)
EXTENDS LispJewels

CONSTANTS Armors, \* id -> [part, holes, type, points]
          Parts   \* the parts in the order of the arsenal

ASSUME HolesInBound ==
  \A set \in [DOMAIN Parts -> DOMAIN Armors] :
    (\A i \in DOMAIN Parts : Armors[set[i]].part = Parts[i])
      => MapThenSumSet(LAMBDA i : Armors[set[i]].holes, DOMAIN Parts) <= MaxHoles

-----------------------------------------------------------------------------
(* An emitter is the variables that its closure has captured.  A call that *)
(* emits is LispEngine's Emit, since it runs the body.                     *)

EmitterFromList(input) == [kind |-> "list", upper |-> input, input |-> input]
CircularEmitter(input) == [kind |-> "circular", upper |-> input, input |-> input]
EmptyEmitter == EmitterFromList(<<>>)

EmitterMapcar(input, body) == [kind |-> "mapcar", upper |-> input, body |-> body]
EmitterMapcan(input, body) ==
  [kind |-> "mapcan", upper |-> input, sub |-> EmptyEmitter, body |-> body]
EmitterMerge(a, b) == [kind |-> "merge", upperA |-> a, upperB |-> b]

(* A mutant: what is left of the last sub-emitter comes first.             *)
ResetMapcan_KeepsSub(e, upper) == [e EXCEPT !.upper = upper]

ResetMapcan(e, upper) == [e EXCEPT !.upper = upper, !.sub = EmptyEmitter]

RECURSIVE ResetEmitter(_)
ResetEmitter(e) ==
  CASE e.kind \in {"list", "circular"} -> [e EXCEPT !.upper = e.input]
    [] e.kind = "mapcar" -> [e EXCEPT !.upper = ResetEmitter(e.upper)]
    [] e.kind = "mapcan" -> ResetMapcan(e, ResetEmitter(e.upper))
    [] e.kind = "merge"  -> [e EXCEPT !.upperA = ResetEmitter(e.upperA),
                                      !.upperB = ResetEmitter(e.upperB)]

-----------------------------------------------------------------------------
FoundationCutOff == 2

Armor(id) == [kind |-> "armor", id |-> id]
ArmorTree(left, right) == [kind |-> "tree", left |-> left, right |-> right]
LastLevel(forest) == forest # <<>> /\ forest[1].kind = "armor"

(* A query is [required, type, cutOff, strict]: strict if the Lisp gives   *)
(* an error for the `maximize` of nothing, which the standard leaves open. *)
Ids(query) == [i \in DOMAIN query.required |-> query.required[i].effect]
Width(query) == Len(query.required)
FoundationSize(query) == Min({FoundationCutOff, Width(query)})

(* The key of the first n effects, negated.                                *)
InvReqKey(query, n) ==
  [i \in 1..Width(query) |->
     IF i <= n THEN Chunk(-query.required[i].points) ELSE 0]

FirstIds(query, n) == SubSeq(Ids(query), 1, n)

EncodeArmor(id, query) ==
  [holes |-> [size \in 1..3 |-> IF size = Armors[id].holes THEN 1 ELSE 0],
   points |-> SkillSig(Armors[id].points,
                       FirstIds(query, FoundationSize(query)), Width(query))]

AddKeys(a, b) ==
  [holes |-> Plus(a.holes, b.holes), points |-> AddPoints(a.points, b.points)]

-----------------------------------------------------------------------------
(* search-foundation.                                                      *)
Classify(list, Key(_)) ==
  Compact([i \in DOMAIN list |-> Keyed(Key(list[i]), <<list[i]>>)])

MergeMaps(left, right, Sum(_, _)) ==
  Products(left, right, Sum, LAMBDA x, y : <<ArmorTree(x, y)>>)

UsableArmors(part, type) ==
  { id \in DOMAIN Armors : /\ Armors[id].part = part
                           /\ Armors[id].type \in {"both", type} }

Clustered(part, query) ==
  LET list == Listed({ Armor(id) : id \in UsableArmors(part, query.type) })
  IN  Classify(list, LAMBDA armor : EncodeArmor(armor.id, query))

Preliminary(forest, sets, key) ==
  [forest |-> forest, sets |-> sets, key |-> key]

SearchFoundation(query) ==
  LET arsenal == [i \in DOMAIN Parts |-> Clustered(Parts[i], query)]
      map == FoldLeft(LAMBDA merged, part : MergeMaps(part, merged, AddKeys),
                      arsenal[1], Tail(arsenal))
  IN  [i \in DOMAIN map |-> Preliminary(map[i].set, <<>>, map[i].key)]

(* make-jewel-filter-emitter's body: <<>> for nil.                         *)
JewelFilter(query, client, prelim) ==
  LET n     == FoundationSize(query)
      found == HoleQuery(client, prelim.key.holes)
      Reaches(key) ==
        IsSatisfied(AddPoints(AddPoints(key, InvReqKey(query, n)),
                              prelim.key.points), n)
      good  == SelectSeq(found, LAMBDA keyed : Reaches(keyed.key))
      sets  == FlattenSeq([i \in DOMAIN good |-> good[i].set])
  IN  IF sets = <<>> THEN <<>> ELSE <<[prelim EXCEPT !.sets = sets]>>

-----------------------------------------------------------------------------
(* One further effect.                                                     *)
PointsOfSkill(armor, effect) == Armors[armor.id].points[effect]

MaxOf(armors, effect) ==
  Max({ PointsOfSkill(armors[i], effect) : i \in DOMAIN armors })

(* max-at-skill-client.                                                    *)
RECURSIVE MaxAtSkill(_, _)
MaxAtSkill(forest, effect) ==
  IF LastLevel(forest) THEN MaxOf(forest, effect)
  ELSE Max({ MaxOf(forest[i].left, effect)
               + MaxAtSkill(forest[i].right, effect) : i \in DOMAIN forest })

(* A mutant: as if the left armors gave the fewest points they can.        *)
RightMinimum_Worst(left, minimum) == minimum - Min(Keys(left))

RightMinimum(left, minimum) == minimum - Max(Keys(left))

(* split-forest-at-skill: a table of forests by points.                    *)
RECURSIVE SplitForest(_, _, _)
SplitForest(forest, effect, minimum) ==
  LET AtLeast(map) == SelectSeq(map, LAMBDA keyed : keyed.key >= minimum)
      ByPoints(armors) == Classify(armors, LAMBDA a : PointsOfSkill(a, effect))
      Split(tree) ==
        LET left  == ByPoints(tree.left)
            right == SplitForest(tree.right, effect, RightMinimum(left, minimum))
        IN  AtLeast(MergeMaps(left, right, LAMBDA a, b : a + b))
  IN  IF LastLevel(forest) THEN AtLeast(ByPoints(forest))
      ELSE Compact(FlattenSeq([i \in DOMAIN forest |-> Split(forest[i])]))

(* replace-skill-key-at.                                                   *)
ReplacePoints(key, n, points) == [key EXCEPT !.points[n] = Chunk(points)]

(* What is left of the slots once a base list is in them.                  *)
Left(prelim, list) == StuffJewelsFast(prelim.key.holes, list)

(* expand-jewel-candidates: a list that fills all slots is passed over.    *)
ExpandCandidates(query, client, prelim, n) ==
  LET best == MaxAtSkill(prelim.forest, Ids(query)[n])
      needed == AddPoints(ReplacePoints(prelim.key, n, best).points,
                          InvReqKey(query, Width(query)))
      Expand(base) ==
        LET found == HoleQuery(client, Left(prelim, base))
            Sum(key) == AddPoints(EncodeJewels(client, base), key)
            good == SelectSeq(found, LAMBDA keyed :
                      IsSatisfied(AddPoints(needed, Sum(keyed.key)), n))
            With(set) == [i \in DOMAIN set |-> set[i] \o base]
        IN  [i \in DOMAIN good |-> Keyed(Sum(good[i].key), With(good[i].set))]
      bases == SelectSeq(prelim.sets, LAMBDA list : Left(prelim, list) # <<0, 0, 0>>)
  IN  FlattenSeq([i \in DOMAIN bases |-> Expand(bases[i])])

(* A mutant: the new preliminary keeps the forest that was split.          *)
SplitOff_WholeForest(prelim, n, points, forest, sets) ==
  Preliminary(prelim.forest, sets, ReplacePoints(prelim.key, n, points))

SplitOff(prelim, n, points, forest, sets) ==
  Preliminary(forest, sets, ReplacePoints(prelim.key, n, points))

(* extra-skill-split with the candidates it found.                         *)
SplitBy(query, prelim, n, cands) ==
  LET target == query.required[n].points
      minimum == target - Max({ key[n] : key \in Keys(cands) })
      split == SplitForest(prelim.forest, Ids(query)[n], minimum)
      ValidSets(points) ==
        LET valid == SelectSeq(cands, LAMBDA c : points + c.key[n] >= target)
        IN  FlattenSeq([i \in DOMAIN valid |-> valid[i].set])
      all == [i \in DOMAIN split |->
                SplitOff(prelim, n, split[i].key, split[i].set, ValidSets(split[i].key))]
  IN  SelectSeq(all, LAMBDA p : p.sets # <<>>)

-----------------------------------------------------------------------------
(* The bodies of the emitters.  A list that holds a product not made       *)
(* cannot be counted: its :prod is no jewel.                               *)
Value(x) == [x |-> <<x>>, fault |-> FALSE]
Nil == [x |-> <<>>, fault |-> FALSE]
Fault == [x |-> <<>>, fault |-> TRUE]

ExtraSkillSplit(query, client, prelim, n) ==
  LET cands == ExpandCandidates(query, client, prelim, n)
  IN  IF \E i \in DOMAIN prelim.sets : IsProd(prelim.sets[i]) THEN Fault
      ELSE IF cands = <<>> /\ query.strict THEN Fault
      ELSE Value(EmitterFromList(IF cands = <<>> THEN <<>>
                                 ELSE SplitBy(query, prelim, n, cands)))

EmitterFromForest(forest) ==
  IF LastLevel(forest) THEN EmitterMapcar(EmitterFromList(forest), [op |-> "list"])
  ELSE EmitterMapcan(EmitterFromList(forest), [op |-> "from-tree"])

EmitterFromTree(tree) ==
  EmitterMerge(CircularEmitter(tree.left), EmitterFromForest(tree.right))

EmitterFromPreliminary(prelim) ==
  EmitterMapcar(EmitterFromForest(prelim.forest), [op |-> "with", prelim |-> prelim])

RunBody(query, body, x) ==
  CASE body.op = "filter"    -> [Nil EXCEPT !.x = JewelFilter(query, body.client, x)]
    [] body.op = "split"     -> ExtraSkillSplit(query, body.client, x, body.n)
    [] body.op = "list"      -> Value(<<x.id>>)
    [] body.op = "from-tree" -> Value(EmitterFromTree(x))
    [] body.op = "sets"      -> Value(EmitterFromPreliminary(x))
    [] body.op = "with"      -> Value([armors |-> x, sets |-> body.prelim.sets,
                                       key |-> body.prelim.key])

(* make-armor-set-emitter of search-core.                                  *)
SearchCore(query) ==
  LET size == FoundationSize(query)
      ClientOf(m, n) == Client(FirstIds(query, m), n, Width(query), query.cutOff)
      foundation == EmitterMapcar(EmitterFromList(SearchFoundation(query)),
                                  [op |-> "filter", client |-> ClientOf(size, 0)])
      Stage(input, n) ==
        EmitterMapcan(input, [op |-> "split", n |-> n, client |-> ClientOf(n, n)])
      further == [i \in 1 .. Width(query) - size |-> FoundationCutOff + i]
  IN  EmitterMapcan(FoldLeft(Stage, foundation, further), [op |-> "sets"])
=============================================================================
