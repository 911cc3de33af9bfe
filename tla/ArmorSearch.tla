---------------------------- MODULE ArmorSearch ----------------------------
(***************************************************************************)
(* ArmorUp::Search (cpp/core/armor_up.h): a chain of iterators that pull   *)
(* on each other, from the list of the foundation's trees to the armor     *)
(* sets shown.  With N effects in the query, F of them in the foundation,  *)
(* the stages of the chain are                                             *)
(*    0            ListIterator over the roots                             *)
(*    1 .. F       a JewelPruner per effect of the foundation              *)
(*    F+1 .. N     a SkillSplitPruner per remaining effect                 *)
(*    N+1          Unpacker                                                *)
(*    N+2          DefensePruner                                           *)
(*    N+3          Finalizer                                               *)
(*    N+4          the loop of Search                                      *)
(* A stage that is asked for its Next asks the one below, as often as it   *)
(* has to, and answers the one above.  `at` and `msg` say where this is.   *)
(*                                                                         *)
(* The jewel keys of a tree come out of an unordered_set: they are a set   *)
(* here, of which the Finalizer may try any one first.                     *)
(***************************************************************************)
EXTENDS Unpacking, JewelSolver, Assigning

CONSTANT MaxSearches \* bound: searches of one ArmorUp object

(* What keeps the points of armors with their jewels within a byte: the    *)
(* jewels of seven parts fill at most 21 holes, and change a skill by at   *)
(* most two points per hole.                                               *)
SET_POINTS == 127 - 2 * 21

ASSUME BytesAssumption ==
  \A q \in Queries : \A e \in DOMAIN q.effects :
    /\ q.effects[e].points \in -127..127
    /\ \A set \in AdmittedSets(q) :
         SetPoints(q, set, e) \in -SET_POINTS .. SET_POINTS
    /\ \A id \in DOMAIN JewelData :
         LET most == 2 * JewelData[id].slots
         IN  EffectPoints(JewelData[id].effects, q.effects[e].id) \in -most .. most

VARIABLES
  query,
  answers,   \* ghost: the armor sets that answer the query
  arsenal_,  \* the armors of the arsenal, the amulets of the query included
  pool_,
  roots,     \* list_ of stage 0, of which pointer are given
  pointer,
  buffer,    \* stage -> the trees it holds; Get() is the last one
  stack_,    \* of the Unpacker
  raw_keys,  \* armor_set_.jewel_keys of the Unpacker
  final,     \* of the Finalizer: [ids, multiplier, keys, back, consumed,
             \* jewels], of which back is the key at the back of keys
  results,   \* the armor ids of the sets found
  at,        \* the stage that is running
  msg,       \* "ask": asked for Next; "yes", "no": answered by the stage below;
             \* "solve": the Finalizer has a raw set; "idle"; "crash"
  searches

request == <<query, answers, arsenal_, roots, searches>>
search_vars == <<request, pool_, pointer, buffer, stack_, raw_keys, final, results,
          at, msg>>

-----------------------------------------------------------------------------
N == Len(query.effects)
F == FoundationEffects(query)
UnpackStage == N + 1
DefenseStage == N + 2
FinalStage == N + 3
SearchStage == N + 4

max_per_set_ == 1

Get(stage) == Last(buffer[stage])
NodeKey(tree) == pool_.ors[tree.id].key
SlotsOf(key) == <<Ones(key), Twos(key), Threes(key)>>
SplitterOf(e) == [arsenal |-> arsenal_, effect |-> e, skill |-> query.effects[e].id]
MaxPoints(e, tree) ==
  MaxOr(pool_, SplitterOf(e), tree.id, tree.torso_multiplier)

(* A mutant: the slots taken by jewel_key are not subtracted.              *)
Extended_WholeTree(tree, jewel_key, e) ==
  { jewel_key ++ new_key : new_key \in
      BodyStuffed(ZeroKey(N),
                  ClientKeys({query.effects[e].id}, query.jewel_filter,
                             query.effects),
                  SlotsOf(NodeKey(tree)), BodySlotSum(NodeKey(tree)),
                  tree.torso_multiplier) }

(* jewel_key with what the slot client of effect e can add to it in the    *)
(* slots that jewel_key leaves of the tree (GetResidual, Query).           *)
Extended(tree, jewel_key, e) ==
  { jewel_key ++ new_key : new_key \in
      BodyStuffed(ZeroKey(N),
                  ClientKeys({query.effects[e].id}, query.jewel_filter,
                             query.effects),
                  Residual(SlotsOf(NodeKey(tree)), SlotsOf(jewel_key)),
                  BodySlotSum(NodeKey(tree)) - BodySlotSum(jewel_key),
                  tree.torso_multiplier) }

(* The extended keys that reach the targets in mask from the points of key.*)
Reaching(tree, e, key, mask) ==
  { jewel_key \in UNION { Extended(tree, k, e) : k \in tree.jewel_keys } :
      Satisfy(key || jewel_key, InverseKey(query.effects, mask)) }

-----------------------------------------------------------------------------
(* The armor sets that answer a query, by definition: worn together they   *)
(* have the defense, and some jewels that fit bring every effect to its    *)
(* target.                                                                 *)

CanReach(q, ids) ==
  LET effects    == DOMAIN q.effects
      armors     == [p \in 1..PART_NUM |-> Arsenal(q)[ids[p]]]
      multiplier == GetMultiplier([ids |-> ids], Arsenal(q))
      outer      == IF multiplier > 1 THEN 1 .. PART_NUM - 1 ELSE 1..PART_NUM
      Count(s)   == Cardinality({ p \in outer : armors[p].slots = s })
      Points(e)  ==
        Total([p \in 1..PART_NUM |->
          EffectPoints(armors[p].effects, q.effects[e].id)
          * (IF p = Body THEN multiplier ELSE 1)])
      jewels     == ClientKeys({ q.effects[e].id : e \in effects },
                               q.jewel_filter, q.effects)
  IN  \E key \in BodyStuffed(ZeroKey(Len(q.effects)), jewels,
                             <<Count(1), Count(2), Count(3)>>,
                             armors[Body].slots, multiplier) :
        \A e \in effects : Points(e) + key.pts[e] >= q.effects[e].points

AnswersTo(q) ==
  { ids \in [1..PART_NUM -> 1 .. Len(Arsenal(q))] :
      /\ \A p \in 1..PART_NUM :
           /\ Arsenal(q)[ids[p]].part = PartSeq[p]
           /\ ValidArmor(q.armor_filter, Arsenal(q)[ids[p]], ids[p])
      /\ GetTotalDefense([ids |-> ids], Arsenal(q)) >= q.defense
      /\ CanReach(q, ids) }

-----------------------------------------------------------------------------
NoTrees == [stage \in {} |-> <<>>]
NoFinal == [ids |-> <<>>, multiplier |-> 1, keys |-> {}, back |-> <<>>,
            consumed |-> 0, jewels |-> <<>>]

SearchInit ==
  /\ query \in Queries
  /\ answers = {}
  /\ arsenal_ = <<>>
  /\ pool_ = EmptyPool
  /\ roots = <<>> /\ pointer = 0
  /\ buffer = NoTrees
  /\ stack_ = <<>>
  /\ raw_keys = {}
  /\ final = NoFinal
  /\ results = <<>>
  /\ at = 0 /\ msg = "idle"
  /\ searches = 0

(* InitializeArsenal: the amulets of the last query go, these come.        *)
InitializeArsenal(amulets) == ArmorData \o amulets

(* The trees of stage 0: roots come without jewels.                        *)
TreeRoot(pool, id, jewel_keys) ==
  [id |-> id, jewel_keys |-> jewel_keys,
   torso_multiplier |-> Multiplier(pool.ors[id].key)]

(* Search, up to the first Next of its loop.                               *)
SearchCore(q) ==
  /\ msg = "idle"
  /\ searches < MaxSearches
  /\ query' = q
  /\ answers' = AnswersTo(q)
  /\ arsenal_' = InitializeArsenal(q.amulets)
  /\ LET forest == Foundation(arsenal_', q)
     IN  /\ pool_' = forest.pool
         /\ roots' = forest.forest
  /\ pointer' = 0
  /\ buffer' = [stage \in 0 .. Len(q.effects) |-> <<>>]
  /\ stack_' = <<>>
  /\ raw_keys' = {}
  /\ final' = NoFinal
  /\ results' = <<>>
  /\ at' = Len(q.effects) + 4
  /\ msg' = "ask"
  /\ searches' = searches + 1

Ask    == at' = at - 1 /\ msg' = "ask"
Answer == at' = at + 1 /\ msg' = "yes"
GiveUp == at' = at + 1 /\ msg' = "no"

-----------------------------------------------------------------------------
(* ListIterator::Next *)
ListNext ==
  /\ at = 0 /\ msg = "ask"
  /\ pointer' = pointer + 1
  /\ IF pointer < Len(roots)
     THEN /\ buffer' = [buffer EXCEPT ![0] =
                          << TreeRoot(pool_, roots[pointer'], {}) >>]
          /\ Answer
     ELSE GiveUp /\ UNCHANGED buffer
  /\ UNCHANGED <<request, pool_, stack_, raw_keys, final, results>>

(* A stage that has nothing left of its own asks the stage below.          *)
PassDown ==
  /\ msg = "ask"
  /\ \/ at \in 1..F /\ UNCHANGED buffer
     \/ at \in F + 1 .. N /\ Len(buffer[at]) <= 1
        /\ buffer' = [buffer EXCEPT ![at] = <<>>]
     \/ at = DefenseStage /\ UNCHANGED buffer
     \/ at = SearchStage /\ UNCHANGED buffer
  /\ Ask
  /\ UNCHANGED <<request, pool_, pointer, stack_, raw_keys, final, results>>

(* The stage below has no more.                                            *)
PassUp ==
  /\ msg = "no"
  /\ at \in 1 .. FinalStage
  /\ GiveUp
  /\ UNCHANGED <<request, pool_, pointer, buffer, stack_, raw_keys, final,
                 results>>

(* JewelPruner::Next, for the tree just got.                               *)
JewelTry ==
  /\ at \in 1..F /\ msg = "yes"
  /\ LET tree == Get(at - 1)
         from == IF tree.jewel_keys = {}
                 THEN [tree EXCEPT !.jewel_keys = {ZeroKey(N)}] ELSE tree
         keys == Reaching(from, at, NodeKey(tree), 1..at)
     IN  IF keys # {}
         THEN /\ buffer' = [buffer EXCEPT ![at] =
                              << [tree EXCEPT !.jewel_keys = keys] >>]
              /\ Answer
         ELSE Ask /\ UNCHANGED buffer
  /\ UNCHANGED <<request, pool_, pointer, stack_, raw_keys, final, results>>

(* SkillSplitPruner::Next, while its buffer lasts.                         *)
SplitNext ==
  /\ at \in F + 1 .. N /\ msg = "ask"
  /\ Len(buffer[at]) > 1
  /\ buffer' = [buffer EXCEPT ![at] = Front(@)]
  /\ Answer
  /\ UNCHANGED <<request, pool_, pointer, stack_, raw_keys, final, results>>

(* SkillSplitPruner::PreFilter: every later effect can still be reached.   *)
PreFilter(tree) ==
  \A e \in at + 1 .. N :
    Reaching(tree, e, AddPoints(NodeKey(tree), e, MaxPoints(e, tree)),
             (1 .. at - 1) \union {e}) # {}

(* SkillSplitPruner::Next, for the tree just got.                          *)
SplitTry ==
  /\ at \in F + 1 .. N /\ msg = "yes"
  /\ LET tree == Get(at - 1)
         candidates ==
           IF ~PreFilter(tree) THEN {}
           ELSE Reaching(tree, at, AddPoints(NodeKey(tree), at,
                                             MaxPoints(at, tree)), 1..at)
         sub_min == Min({1000} \union
                        { query.effects[at].points - GetPoints(key, at) :
                            key \in candidates })
         split == SplitOr(pool_, SplitterOf(at), tree.id, sub_min,
                          tree.torso_multiplier)
         Kept(id) == { key \in candidates :
                         Satisfy(key || split.pool.ors[id].key,
                                 InverseKey(query.effects, 1..at)) }
     IN  IF candidates # {}
         THEN /\ pool_' = split.pool
              /\ buffer' = [buffer EXCEPT ![at] =
                   [n \in DOMAIN split.result |->
                      LET id == split.result[n].id
                      IN  TreeRoot(split.pool, id, Kept(id))]]
              /\ Answer
         ELSE Ask /\ UNCHANGED <<pool_, buffer>>
  /\ UNCHANGED <<request, pointer, stack_, raw_keys, final, results>>

-----------------------------------------------------------------------------
(* Unpacker::Next, from its stack or down to its source.                   *)
UnpackNext ==
  /\ at = UnpackStage /\ msg = "ask"
  /\ stack_' = Advance(pool_, stack_)
  /\ IF stack_' # <<>> THEN Answer ELSE Ask
  /\ UNCHANGED <<request, pool_, pointer, buffer, raw_keys, final, results>>

UnpackTree ==
  /\ at = UnpackStage /\ msg = "yes"
  /\ stack_' = Descend(pool_, Get(N).id)
  /\ raw_keys' = Get(N).jewel_keys
  /\ Answer
  /\ UNCHANGED <<request, pool_, pointer, buffer, final, results>>

(* DefensePruner::Next, for the raw set just got.                          *)
DefenseTry ==
  /\ at = DefenseStage /\ msg = "yes"
  /\ LET ids == RawIds(pool_, stack_)
     IN  IF Total([p \in DOMAIN ids |-> arsenal_[ids[p]].max_defense])
              >= query.defense
         THEN Answer ELSE Ask
  /\ UNCHANGED <<request, pool_, pointer, buffer, stack_, raw_keys, final,
                 results>>

-----------------------------------------------------------------------------
(* A mutant: the key that was tried stays at the back.                     *)
FinalNext_NoPop ==
  /\ at = FinalStage /\ msg = "ask"
  /\ IF final.keys = {} \/ final.consumed >= max_per_set_
     THEN final' = [final EXCEPT !.consumed = 0, !.keys = {}] /\ Ask
     ELSE msg' = "solve" /\ UNCHANGED <<at, final>>
  /\ UNCHANGED <<request, pool_, pointer, buffer, stack_, raw_keys, results>>

(* Finalizer::Next: the next jewel key of the set, or NextRaw.             *)
FinalNext ==
  /\ at = FinalStage /\ msg = "ask"
  /\ LET keys == final.keys \ {final.back}
     IN  IF keys = {} \/ final.consumed >= max_per_set_
         THEN final' = [final EXCEPT !.consumed = 0, !.keys = {}] /\ Ask
         ELSE /\ final' = [final EXCEPT !.keys = keys,
                             !.back = CHOOSE key \in keys : TRUE]
              /\ msg' = "solve" /\ UNCHANGED at
  /\ UNCHANGED <<request, pool_, pointer, buffer, stack_, raw_keys, results>>

(* Which of the keys a vector of them may have at its back.                *)
Backs(keys) == IF keys = {} THEN { NoFinal.back } ELSE keys

NextRaw(back) ==
  /\ at = FinalStage /\ msg = "yes"
  /\ LET ids == Reverse(RawIds(pool_, stack_))
     IN  final' = [final EXCEPT
           !.ids = ids, !.keys = raw_keys, !.back = back,
           !.multiplier = GetMultiplier([ids |-> ids], arsenal_)]
  /\ msg' = "solve"
  /\ UNCHANGED <<request, pool_, pointer, buffer, stack_, raw_keys, results,
                 at>>

(* Pop, putting the jewel into worn; nothing when it returns false.        *)
PopJewel(s) ==
  LET size == NextSize(s.jewels, s.slots)
      used == UsedSize(s.parts, size)
  IN  IF ~CanPop(s.parts, s.jewels, s.slots) THEN s
      ELSE [parts  |-> TakeSlot(s.parts, used, size),
            jewels |-> TakeJewel(s.jewels, size),
            slots  |-> size,
            worn   |-> [s.worn EXCEPT ![Top(s.parts[used])] =
                          Append(@, Top(s.jewels[size]))]]

(* Pop until it returns false: at most once for every jewel.               *)
PopAll(parts, jewels, worn) ==
  LET most == Len(jewels[1]) + Len(jewels[2]) + Len(jewels[3])
      popped[n \in 0..most] ==
        IF n = 0
        THEN [parts |-> parts, jewels |-> jewels, slots |-> 3, worn |-> worn]
        ELSE PopJewel(popped[n - 1])
  IN  popped[most].worn

(* The jewels of a plan in the parts of the armors ids: those for the body *)
(* only go there, the JewelAssigner places the others.                     *)
Assign(plan, ids, multiplier) ==
  LET Ids(picks)  == [n \in DOMAIN picks |-> picks[n].id]
      body_only   == Ids(SelectSeq(plan, LAMBDA pick : pick.body))
      others      == Ids(SelectSeq(plan, LAMBDA pick : ~pick.body))
      all_parts   == [p \in 1..PART_NUM |-> p]
      PartsOf(s)  == SelectSeq(all_parts, LAMBDA p :
                       /\ arsenal_[ids[p]].slots = s
                       /\ ~(p = Body /\ multiplier > 1))
      JewelsOf(s) == SelectSeq(others, LAMBDA id : JewelData[id].slots = s)
  IN  PopAll([s \in Sizes |-> PartsOf(s)], [s \in Sizes |-> JewelsOf(s)],
             [p \in 1..PART_NUM |-> IF p = Body THEN body_only ELSE <<>>])

(* Finalizer::Next, for the key at the back of jewel_keys_.                *)
FinalTry ==
  /\ at = FinalStage /\ msg = "solve"
  /\ final.keys # {}
  /\ LET plans == Solve(query.effects, query.jewel_filter, final.back,
                        final.multiplier)
         jewels == Assign(CHOOSE plan \in plans : TRUE, final.ids,
                          final.multiplier)
         set == [ids |-> final.ids, jewels |-> jewels]
         pass == query.avoid_negative => ~SomeNegativeActivated(set, arsenal_)
     IN  IF plans = {}
         THEN msg' = "crash" /\ UNCHANGED <<final, at>>
         ELSE /\ final' = [final EXCEPT
                   !.jewels = jewels,
                   !.consumed = IF pass THEN @ + 1 ELSE @]
              /\ IF pass THEN Answer ELSE msg' = "ask" /\ UNCHANGED at
  /\ UNCHANGED <<request, pool_, pointer, buffer, stack_, raw_keys, results>>

(* jewel_keys_.back() of an empty vector is undefined.                     *)
FinalFault ==
  /\ at = FinalStage /\ msg = "solve"
  /\ final.keys = {}
  /\ msg' = "crash"
  /\ UNCHANGED <<request, pool_, pointer, buffer, stack_, raw_keys, final,
                 results, at>>

-----------------------------------------------------------------------------
(* The loop of Search: max_results is compared as an unsigned number, so a *)
(* negative one is never reached, and is compared after the first result.  *)
Collect ==
  /\ at = SearchStage /\ msg = "yes"
  /\ results' = Append(results, final.ids)
  /\ msg' = IF query.max_results >= 0 /\ Len(results') >= query.max_results
            THEN "idle" ELSE "ask"
  /\ UNCHANGED <<request, pool_, pointer, buffer, stack_, raw_keys, final,
                 at>>

Finish ==
  /\ at = SearchStage /\ msg = "no"
  /\ msg' = "idle"
  /\ UNCHANGED <<request, pool_, pointer, buffer, stack_, raw_keys, final,
                 results, at>>

Step ==
  \/ ListNext \/ PassDown \/ PassUp
  \/ JewelTry \/ SplitNext \/ SplitTry
  \/ UnpackNext \/ UnpackTree \/ DefenseTry
  \/ FinalNext \/ FinalTry \/ FinalFault
  \/ \E back \in Backs(raw_keys) : NextRaw(back)
  \/ Collect \/ Finish

SearchNext == Step \/ \E q \in Queries : SearchCore(q)

(* The search runs on until it returns.  This is WF of Step, with the      *)
(* condition under which a step is possible written out.                   *)
Running == msg \notin {"idle", "crash"}
Fairness == []<>~Running \/ []<><<Step>>_search_vars

SearchSpec == SearchInit /\ [][SearchNext]_search_vars /\ Fairness

-----------------------------------------------------------------------------
(* What a user may ask of the answer.                                      *)

Shown == [ids |-> final.ids, jewels |-> final.jewels]
SomethingFound == at = SearchStage /\ msg = "yes"

(* The demands of the regression's verifier: whatever pruning, splitting,  *)
(* residual computation and solving did, and whatever was searched before, *)
(* the set that is shown has the skills, the defense and the armors that   *)
(* its own query asks for, and no active negative skill if it said so.     *)
ResultsVerify ==
  SomethingFound => VerifyArmorSet(Arsenal(query), query, Shown)

(* The jewels shown can be put into the armors shown: their sizes add up   *)
(* to no more than the slots of the part they are in.  And they are all the*)
(* jewels the skills were counted with, no other: their keys, those in the *)
(* body changed as its points are, add up to the key that was solved.      *)
PartHolds(p) ==
  Total([n \in DOMAIN final.jewels[p] |-> JewelData[final.jewels[p][n]].slots])
    <= arsenal_[final.ids[p]].slots

WornKeys(p) ==
  [n \in DOMAIN final.jewels[p] |->
     BodyRefactor(JewelKey(JewelData[final.jewels[p][n]], query.effects),
                  IF p = Body THEN final.multiplier ELSE 1)]

JewelsFitArmors ==
  SomethingFound =>
    /\ \A p \in 1..PART_NUM : PartHolds(p)
    /\ FoldLeft(++, ZeroKey(N), FlattenSeq([p \in 1..PART_NUM |-> WornKeys(p)]))
         = final.back

(* A tree that has passed stage k has jewel keys, each of them fits its    *)
(* slots and brings the first k effects to their targets.                  *)
KeysReachTargets ==
  \A k \in DOMAIN buffer \ {0} : \A tree \in ToSet(buffer[k]) :
    /\ tree.jewel_keys # {}
    /\ \A key \in tree.jewel_keys :
         /\ Fits(SlotsOf(key), SlotsOf(NodeKey(tree)))
         /\ BodySlotSum(key) <= BodySlotSum(NodeKey(tree))
         /\ \A e \in 1..k :
              GetPoints(NodeKey(tree), e) + GetPoints(key, e)
                >= query.effects[e].points

(* With at least one effect asked, no empty vector is read and the CHECK   *)
(* of JewelSolver::Solve never fails: every key that the slot clients made *)
(* from the jewels of single effects, stage by stage, is solved again from *)
(* the jewels of all effects together.                                     *)
NeverCrashes == msg = "crash" => query.effects = <<>>

(* A search ends, whatever is found: no stage asks the one below for ever. *)
SearchEnds == Running ~> ~Running

-----------------------------------------------------------------------------
(* The comment in SkillSplitPruner::Next, "If there is no valid jewel      *)
(* signatures, we can proceed to the next tree": a tree is given up only   *)
(* when no answer is in it, so a search that was not cut short by          *)
(* max_results has found every answer.                                     *)
EveryAnswerFound ==
  (at = SearchStage /\ msg = "no") => answers \subseteq ToSet(results)

(* A query of which no part hides another: the armors and the jewels that  *)
(* it admits have no negative points in what it asks for, the jewels take  *)
(* one slot, and an answer is not turned down for its other skills.        *)
Plain(q) ==
  LET NonNegative(effects) ==
        \A e \in DOMAIN q.effects : EffectPoints(effects, q.effects[e].id) >= 0
  IN  /\ ~q.avoid_negative
      /\ \A id \in DOMAIN Arsenal(q) :
           ValidArmor(q.armor_filter, Arsenal(q)[id], id)
             => NonNegative(Arsenal(q)[id].effects)
      /\ \A id \in DOMAIN JewelData \ q.jewel_filter.blacklist :
           JewelData[id].slots = 1 /\ NonNegative(JewelData[id].effects)

(* The whole chain shows what an enumeration of the answers would: one     *)
(* answer after the other, none twice, and for a plain query no end before *)
(* the last one or max_results, whatever was searched for before.          *)
Promise == INSTANCE SearchPromise WITH
  answers <- answers, most <- query.max_results, exact <- Plain(query),
  found <- results, done <- msg = "idle"

FindsAnswers == Promise!Spec
=============================================================================
