------------------------ MODULE ForestGrowth_proofs ------------------------
(***************************************************************************)
(* Theorems of ForestGrowth: for all armors and queries that satisfy       *)
(* QueriesAssumption, and any splits.                                       *)
(*                                                                         *)
(* The operators are loops over lists and recursions over the pool.  Each  *)
(* loop is a recursive function on an interval; its lemma (...Loop) says   *)
(* that what every step takes from S[n - 1] to S[n] the loop takes to the  *)
(* last of them.  Each recursion over the pool asks a node for the nodes   *)
(* before it; so it is shown to be defined (...Exist), then to unfold, and *)
(* then what it returns is shown by induction over the nodes.              *)
(*                                                                         *)
(*   groups and pools    Push lists each value once; nodes that are added  *)
(*                       leave what is below the others as it was          *)
(*   merging             the nodes that Join and MergeForests make hold    *)
(*                       every id of the left before every set of the      *)
(*                       right, each such set below one root only (Made,   *)
(*                       Forested, Merged)                                 *)
(*   keys                a key tells the slots, the multiplier and the     *)
(*                       points of a sequence of armors; adding keys and   *)
(*                       BodyRefactor keep this, as no byte wraps around   *)
(*   the foundation      ClassifyArmors and the merges, part by part       *)
(*   splitting           SplitOr keeps the sets that reach the minimum,    *)
(*                       each once, and the nodes it makes know the points *)
(*   the maximum         MaxOr is the most points of a set below a node    *)
(*   the invariant       what holds after each action of ForestGrowth      *)
(***************************************************************************)
EXTENDS ForestGrowth, RecursionLemmas, SequenceTheorems

(* Groups of numbers by key, as Push makes them: rel relates the keys to   *)
(* what is listed under them, and nothing is listed twice.                 *)
GroupOf(K) == [key : K, ids : Seq(Nat)]
GroupsOf(K) == Seq(GroupOf(K))

Injective(list) == \A m, n \in DOMAIN list : list[m] = list[n] => m = n

Under(rel, key) == { v \in Nat : <<key, v>> \in rel }

Grouped(groups, K, rel) ==
  /\ groups \in GroupsOf(K)
  /\ \A g, h \in DOMAIN groups : groups[g].key = groups[h].key => g = h
  /\ \A g \in DOMAIN groups :
       /\ Injective(groups[g].ids)
       /\ groups[g].ids # <<>>
       /\ ToSet(groups[g].ids) = Under(rel, groups[g].key)
  /\ \A k, v : <<k, v>> \in rel =>
       /\ v \in Nat
       /\ \E g \in DOMAIN groups : groups[g].key = k
       /\ \A l : <<l, v>> \in rel => l = k

(* No groups list nothing.                                                 *)
LEMMA NothingGrouped == ASSUME NEW K PROVE Grouped(<<>>, K, {})
  BY DEF Grouped, GroupsOf

(* The members of a group.                                                 *)
LEMMA GroupFields ==
  ASSUME NEW K, NEW groups \in GroupsOf(K), NEW g \in DOMAIN groups
  PROVE  groups[g].key \in K /\ groups[g].ids \in Seq(Nat)
<1>1. groups[g] \in GroupOf(K)
  BY ElementOfSeq DEF GroupsOf
<1>. QED
  BY <1>1 DEF GroupOf

(* What a list lists once one more is appended.                            *)
LEMMA AppendedSet ==
  ASSUME NEW list \in Seq(Nat), NEW v \in Nat
  PROVE  /\ ToSet(Append(list, v)) = ToSet(list) \union {v}
         /\ (Injective(list) /\ v \notin ToSet(list)) => Injective(Append(list, v))
<1>1. /\ Append(list, v) \in Seq(Nat) /\ Len(Append(list, v)) = Len(list) + 1
      /\ \A i \in 1..Len(list) : Append(list, v)[i] = list[i]
      /\ Append(list, v)[Len(list) + 1] = v
  BY AppendProperties
<1>2. /\ DOMAIN list = 1..Len(list) /\ Len(list) \in Nat
      /\ DOMAIN Append(list, v) = 1..(Len(list) + 1)
  BY <1>1
<1>. DEFINE longer == Append(list, v)
<1>. HIDE DEF longer
<1>3. ToSet(longer) = ToSet(list) \union {v}
  BY <1>1, <1>2 DEF ToSet, longer
<1>4. ASSUME Injective(list), v \notin ToSet(list) PROVE Injective(longer)
  BY <1>1, <1>2, <1>4 DEF ToSet, Injective, longer
<1>. QED
  BY <1>3, <1>4 DEF longer

(* Push lists a value under its key.                                       *)
LEMMA PushLists ==
  ASSUME NEW K, NEW groups, NEW rel, Grouped(groups, K, rel),
         NEW k \in K, NEW v \in Nat, \A l : <<l, v>> \notin rel
  PROVE  Grouped(Push(groups, k, v), K, rel \union { <<k, v>> })
<1>. DEFINE new == rel \union { <<k, v>> }
            after == Push(groups, k, v)
<1>0. groups \in GroupsOf(K) /\ DOMAIN groups = 1..Len(groups) /\ Len(groups) \in Nat
  BY DEF Grouped, GroupsOf
<1>1. ASSUME NEW g \in DOMAIN groups, groups[g].key # k
      PROVE  Under(new, groups[g].key) = Under(rel, groups[g].key)
  BY <1>1 DEF Under
<1>2. Under(new, k) = Under(rel, k) \union {v}
  BY DEF Under
<1>9. ASSUME NEW l, NEW w, <<l, w>> \in new, NEW m, <<m, w>> \in new
      PROVE  m = l
  BY <1>9 DEF Grouped
<1>3. CASE \E g \in DOMAIN groups : groups[g].key = k
  <2>1. PICK at \in DOMAIN groups : groups[at].key = k
    BY <1>3
  <2>. DEFINE Longer(g) == [key |-> k, ids |-> Append(groups[g].ids, v)]
  <2>3. after = [g \in DOMAIN groups |-> IF groups[g].key = k THEN Longer(g) ELSE groups[g]]
    BY <1>3 DEF Push
  <2>4. ASSUME NEW g \in DOMAIN groups
        PROVE  /\ after[g].key = groups[g].key
               /\ after[g].ids = IF g = at THEN Append(groups[g].ids, v) ELSE groups[g].ids
               /\ after[g] \in GroupOf(K)
    <3>1. groups[g].key = k <=> g = at
      BY <2>1 DEF Grouped
    <3>2. groups[g] \in GroupOf(K) /\ groups[g].ids \in Seq(Nat)
      BY <1>0, GroupFields, ElementOfSeq DEF GroupsOf
    <3>3. Append(groups[g].ids, v) \in Seq(Nat)
      BY <3>2
    <3>. HIDE DEF after
    <3>4. CASE g = at
      <4>1. after[g] = Longer(g)
        BY <2>3, <3>1, <3>4
      <4>. QED
        BY <2>1, <3>1, <3>2, <3>3, <3>4, <4>1 DEF GroupOf
    <3>5. CASE g # at
      <4>1. after[g] = groups[g]
        BY <2>3, <3>1, <3>5
      <4>. QED
        BY <3>2, <3>5, <4>1
    <3>. QED
      BY <3>4, <3>5
  <2>5. after \in GroupsOf(K) /\ DOMAIN after = DOMAIN groups
    <3>1. DOMAIN after = DOMAIN groups
      BY <2>3
    <3>2. after = [g \in 1..Len(groups) |-> after[g]]
      BY <1>0, <2>3
    <3>. HIDE DEF after
    <3>3. \A g \in 1..Len(groups) : after[g] \in GroupOf(K)
      BY <1>0, <2>4
    <3>4. after \in [1..Len(groups) -> GroupOf(K)]
      BY <3>2, <3>3
    <3>5. after \in Seq(GroupOf(K))
      BY <1>0, <3>4, SeqDef
    <3>. QED
      BY <3>1, <3>5 DEF GroupsOf
  <2>6. v \notin ToSet(groups[at].ids)
    <3>1. ToSet(groups[at].ids) = Under(rel, k)
      BY <2>1 DEF Grouped
    <3>. QED
      BY <3>1 DEF Under
  <2>7. groups[at].ids \in Seq(Nat)
    BY <1>0, GroupFields
  <2>8. /\ ToSet(Append(groups[at].ids, v)) = ToSet(groups[at].ids) \union {v}
        /\ Injective(Append(groups[at].ids, v))
        /\ Append(groups[at].ids, v) # <<>>
    <3>1. Injective(groups[at].ids)
      BY DEF Grouped
    <3>2. Append(groups[at].ids, v) # <<>>
      <4>. DEFINE ids == groups[at].ids
      <4>0. ids \in Seq(Nat)
        BY <2>7
      <4>. HIDE DEF ids
      <4>1. Len(Append(ids, v)) = Len(ids) + 1
        BY <4>0, AppendProperties
      <4>2. Len(ids) \in Nat /\ Len(<<>>) = 0
        BY <4>0
      <4>. USE DEF ids
      <4>. QED
        BY <4>1, <4>2
    <3>. QED
      BY <2>6, <2>7, <3>1, <3>2, AppendedSet
  <2>. HIDE DEF after
  <2>9. ASSUME NEW g \in DOMAIN after
        PROVE  /\ Injective(after[g].ids)
               /\ after[g].ids # <<>>
               /\ ToSet(after[g].ids) = Under(new, after[g].key)
    <3>1. CASE g = at
      BY <1>2, <2>1, <2>4, <2>8, <3>1 DEF Grouped
    <3>2. CASE g # at
      <4>1. groups[g].key # k
        BY <2>1, <2>5, <3>2 DEF Grouped
      <4>2. after[g].ids = groups[g].ids /\ after[g].key = groups[g].key
        BY <2>4, <2>5, <3>2
      <4>. QED
        BY <1>1, <2>5, <4>1, <4>2 DEF Grouped
    <3>. QED
      BY <3>1, <3>2
  <2>10. \A g, h \in DOMAIN after : after[g].key = after[h].key => g = h
    BY <2>4, <2>5 DEF Grouped
  <2>11. ASSUME NEW l, NEW w, <<l, w>> \in new
         PROVE  w \in Nat /\ \E g \in DOMAIN after : after[g].key = l
    BY <2>1, <2>4, <2>5, <2>11 DEF Grouped
  <2>. QED
    BY <1>9, <2>5, <2>9, <2>10, <2>11 DEF Grouped, after
<1>4. CASE ~ \E g \in DOMAIN groups : groups[g].key = k
  <2>. DEFINE n == Len(groups)
              group == [key |-> k, ids |-> <<v>>]
  <2>1. after = Append(groups, group)
    BY <1>4 DEF Push
  <2>2. group \in GroupOf(K) /\ group.key = k /\ group.ids = <<v>>
    BY DEF GroupOf
  <2>3. groups \in Seq(GroupOf(K))
    BY <1>0 DEF GroupsOf
  <2>. HIDE DEF after, group
  <2>4. /\ after \in GroupsOf(K) /\ Len(after) = n + 1 /\ DOMAIN after = 1..(n + 1)
        /\ \A g \in 1..n : after[g] = groups[g]
        /\ after[n + 1] = group
    <3>1. /\ after \in Seq(GroupOf(K)) /\ Len(after) = n + 1
          /\ \A g \in 1..n : after[g] = groups[g]
          /\ after[n + 1] = group
      BY <2>1, <2>2, <2>3, AppendProperties
    <3>. QED
      BY <1>0, <3>1 DEF GroupsOf
  <2>5. Under(rel, k) = {}
    BY <1>4 DEF Grouped, Under
  <2>6. Injective(<<v>>) /\ <<v>> # <<>> /\ ToSet(<<v>>) = {v}
    BY DEF Injective, ToSet
  <2>7. ASSUME NEW g \in DOMAIN after
        PROVE  /\ Injective(after[g].ids)
               /\ after[g].ids # <<>>
               /\ ToSet(after[g].ids) = Under(new, after[g].key)
    <3>1. CASE g = n + 1
      BY <1>2, <2>2, <2>4, <2>5, <2>6, <3>1
    <3>2. CASE g # n + 1
      <4>1. g \in DOMAIN groups /\ after[g] = groups[g]
        BY <1>0, <2>4, <3>2
      <4>2. groups[g].key # k
        BY <1>4, <4>1
      <4>. QED
        BY <1>1, <4>1, <4>2 DEF Grouped
    <3>. QED
      BY <3>1, <3>2
  <2>8. ASSUME NEW g \in DOMAIN after, NEW h \in DOMAIN after, after[g].key = after[h].key
        PROVE  g = h
    <3>1. CASE g = n + 1 /\ h = n + 1
      BY <3>1
    <3>2. CASE g # n + 1 /\ h = n + 1
      <4>1. g \in DOMAIN groups /\ after[g] = groups[g] /\ after[h].key = k
        BY <1>0, <2>2, <2>4, <3>2
      <4>. QED
        BY <1>4, <2>8, <4>1
    <3>3. CASE g = n + 1 /\ h # n + 1
      <4>1. h \in DOMAIN groups /\ after[h] = groups[h] /\ after[g].key = k
        BY <1>0, <2>2, <2>4, <3>3
      <4>. QED
        BY <1>4, <2>8, <4>1
    <3>4. CASE g # n + 1 /\ h # n + 1
      <4>1. g \in DOMAIN groups /\ after[g] = groups[g] /\ h \in DOMAIN groups /\ after[h] = groups[h]
        BY <1>0, <2>4, <3>4
      <4>. QED
        BY <2>8, <4>1 DEF Grouped
    <3>. QED
      BY <3>1, <3>2, <3>3, <3>4
  <2>9. ASSUME NEW l, NEW w, <<l, w>> \in new
        PROVE  w \in Nat /\ \E g \in DOMAIN after : after[g].key = l
    <3>1. CASE <<l, w>> \in rel
      <4>1. w \in Nat /\ \E g \in DOMAIN groups : groups[g].key = l
        BY <3>1 DEF Grouped
      <4>. QED
        BY <1>0, <2>4, <4>1
    <3>2. CASE <<l, w>> = <<k, v>>
      <4>1. n + 1 \in DOMAIN after /\ after[n + 1].key = k
        BY <1>0, <2>2, <2>4
      <4>. QED
        BY <3>2, <4>1
    <3>. QED
      BY <2>9, <3>1, <3>2
  <2>. QED
    BY <1>9, <2>4, <2>7, <2>8, <2>9 DEF Grouped, after
<1>. QED
  BY <1>3, <1>4

-----------------------------------------------------------------------------
(* What a pool is made of.                                                 *)
LEMMA PoolParts ==
  ASSUME NEW p \in Pools
  PROVE  /\ p.ors \in Seq(OrNodes) /\ Len(p.ors) \in Nat
         /\ DOMAIN p.ors = 1..Len(p.ors)
         /\ p.ands \in Seq(AndNodes) /\ Len(p.ands) \in Nat
         /\ DOMAIN p.ands = 1..Len(p.ands)
         /\ p = [ors |-> p.ors, ands |-> p.ands]
<1>1. p \in [ors : Seq(OrNodes), ands : Seq(AndNodes)]
  BY DEF Pools
<1>2. p.ors \in Seq(OrNodes) /\ p.ands \in Seq(AndNodes)
  BY <1>1
<1>3. p = [ors |-> p.ors, ands |-> p.ands]
  BY <1>1
<1>. QED
  BY <1>2, <1>3, LenProperties

(* The members of an OR node.                                              *)
LEMMA OrParts ==
  ASSUME NEW p \in Pools, NEW id \in DOMAIN p.ors
  PROVE  /\ p.ors[id] \in OrNodes
         /\ p.ors[id].key \in Keys
         /\ p.ors[id].tag \in {"ARMORS", "ANDS"}
         /\ p.ors[id].daughters \in Seq(Nat)
         /\ p.ors[id].tag = "ANDS" =>
              \A a \in ToSet(p.ors[id].daughters) :
                a \in DOMAIN p.ands /\ p.ands[a].right < id
<1>1. p.ors[id] \in OrNodes
  BY PoolParts, ElementOfSeq
<1>2. /\ p.ors[id].key \in Keys
      /\ p.ors[id].tag \in {"ARMORS", "ANDS"}
      /\ p.ors[id].daughters \in Seq(Nat)
  BY <1>1 DEF OrNodes
<1>. QED
  BY <1>1, <1>2 DEF Pools

(* The members of an AND node.                                             *)
LEMMA AndParts ==
  ASSUME NEW p \in Pools, NEW a \in DOMAIN p.ands
  PROVE  /\ p.ands[a] \in AndNodes
         /\ p.ands[a].left \in DOMAIN p.ors
         /\ p.ands[a].right \in DOMAIN p.ors
         /\ p.ors[p.ands[a].left].tag = "ARMORS"
<1>1. p.ands[a] \in AndNodes
  BY PoolParts, ElementOfSeq
<1>. QED
  BY <1>1 DEF Pools

-----------------------------------------------------------------------------
(* The sets below a node, as its daughters give them.                      *)
Below(p, sets, id) ==
  LET daughters == ToSet(p.ors[id].daughters)
  IN  IF p.ors[id].tag = "ARMORS" THEN { <<a>> : a \in daughters }
      ELSE UNION { Prefixed(LeftIds(p, a), sets[p.ands[a].right]) :
                     a \in daughters }

SetsDefined(sets, p) ==
  sets = [id \in 1..Len(p.ors) |-> Below(p, sets, id)]

(* The sets below a node depend on the nodes before it only.               *)
LEMMA BelowLooksBack ==
  ASSUME NEW p \in Pools, NEW id \in DOMAIN p.ors, NEW f, NEW g,
         \A m \in 1..(id - 1) : f[m] = g[m]
  PROVE  Below(p, f, id) = Below(p, g, id)
<1>1. CASE p.ors[id].tag = "ARMORS"
  BY <1>1 DEF Below
<1>2. CASE p.ors[id].tag # "ARMORS"
  <2>1. ASSUME NEW a \in ToSet(p.ors[id].daughters)
        PROVE  f[p.ands[a].right] = g[p.ands[a].right]
    <3>1. a \in DOMAIN p.ands /\ p.ands[a].right < id
      BY <1>2, OrParts
    <3>2. p.ands[a].right \in DOMAIN p.ors
      BY <3>1, AndParts
    <3>3. p.ands[a].right \in 1..(id - 1)
      BY <3>1, <3>2, PoolParts
    <3>. QED
      BY <3>3
  <2>2. { Prefixed(LeftIds(p, a), f[p.ands[a].right]) :
            a \in ToSet(p.ors[id].daughters) }
          = { Prefixed(LeftIds(p, a), g[p.ands[a].right]) :
                a \in ToSet(p.ors[id].daughters) }
    BY <2>1
  <2>. QED
    BY <1>2, <2>2, Zenon DEF Below
<1>. QED
  BY <1>1, <1>2

(* So there is a function that satisfies the recursion of SetsOf.          *)
LEMMA SetsExist ==
  ASSUME NEW p \in Pools
  PROVE  \E sets : SetsDefined(sets, p)
<1>. DEFINE N == Len(p.ors)
            UpTo(f, k) == /\ f = [id \in 1..N |-> f[id]]
                          /\ \A id \in 1..k : f[id] = Below(p, f, id)
            T == { k \in 0..N : \E f : UpTo(f, k) }
<1>1. N \in Nat /\ DOMAIN p.ors = 1..N
  BY PoolParts
<1>2. 0 \in T
  <2>. DEFINE f == [id \in 1..N |-> {}]
  <2>1. f = [id \in 1..N |-> f[id]]
    OBVIOUS
  <2>. HIDE DEF f
  <2>2. UpTo(f, 0)
    BY <2>1
  <2>. HIDE DEF UpTo
  <2>. QED
    BY <1>1, <2>2
<1>3. ASSUME NEW k \in 1..N, k - 1 \in T PROVE k \in T
  <2>1. PICK f : UpTo(f, k - 1)
    BY <1>3
  <2>. DEFINE g == [id \in 1..N |-> Below(p, f, id)]
  <2>2. g = [id \in 1..N |-> g[id]] /\ \A id \in 1..N : g[id] = Below(p, f, id)
    OBVIOUS
  <2>. HIDE DEF g
  <2>3. ASSUME NEW id \in 1..k PROVE g[id] = Below(p, g, id)
    <3>1. id \in 1..N /\ id \in DOMAIN p.ors
      BY <1>1
    <3>2. \A m \in 1..(id - 1) : f[m] = g[m]
      <4>1. \A m \in 1..(id - 1) : m \in 1..(k - 1) /\ m \in 1..N
        BY <1>1
      <4>. QED
        BY <2>1, <2>2, <4>1
    <3>3. Below(p, f, id) = Below(p, g, id)
      BY <3>1, <3>2, BelowLooksBack
    <3>. QED
      BY <2>2, <3>1, <3>3
  <2>4. UpTo(g, k)
    BY <2>2, <2>3
  <2>. HIDE DEF UpTo
  <2>. QED
    BY <1>1, <2>4
<1>4. N \in T
  <2>. HIDE DEF T
  <2>1. \A k \in 0..N : k \in T
    BY <1>1, <1>2, <1>3, IntervalInduction
  <2>. QED
    BY <1>1, <2>1
<1>5. PICK f : UpTo(f, N)
  BY <1>4
<1>6. f = [id \in 1..N |-> Below(p, f, id)]
  BY <1>5
<1>. QED
  BY <1>6 DEF SetsDefined

(* SetsOf unfolds once.                                                    *)
LEMMA SetsUnfold ==
  ASSUME NEW p \in Pools, NEW id \in DOMAIN p.ors
  PROVE  /\ p.ors[id].tag = "ARMORS" =>
              SetsOf(p, id) = { <<a>> : a \in ToSet(p.ors[id].daughters) }
         /\ p.ors[id].tag = "ANDS" =>
              SetsOf(p, id)
                = UNION { SetsThrough(p, a) : a \in ToSet(p.ors[id].daughters) }
<1>. DEFINE sets == CHOOSE f : SetsDefined(f, p)
<1>1. SetsDefined(sets, p)
  BY SetsExist, Zenon
<1>2. \A m : SetsOf(p, m) = sets[m]
  BY Zenon DEF SetsOf, SetsDefined, Below
<1>. HIDE DEF sets
<1>3. sets[id] = Below(p, sets, id)
  BY <1>1, PoolParts DEF SetsDefined
<1>4. CASE p.ors[id].tag = "ARMORS"
  BY <1>2, <1>3, <1>4 DEF Below
<1>5. CASE p.ors[id].tag = "ANDS"
  <2>1. SetsOf(p, id) = UNION { Prefixed(LeftIds(p, a), sets[p.ands[a].right]) :
                     a \in ToSet(p.ors[id].daughters) }
    BY <1>2, <1>3, <1>5 DEF Below
  <2>2. \A a : SetsThrough(p, a) = Prefixed(LeftIds(p, a), sets[p.ands[a].right])
    BY <1>2, Zenon DEF SetsThrough
  <2>. QED
    BY <1>5, <2>1, <2>2
<1>. QED
  BY <1>4, <1>5, OrParts

-----------------------------------------------------------------------------
(* The pool only grows: what was there stays, with the sets below it.      *)
Extends(p, q) ==
  /\ Len(p.ors) <= Len(q.ors)
  /\ \A id \in 1..Len(p.ors) : q.ors[id] = p.ors[id]
  /\ Len(p.ands) <= Len(q.ands)
  /\ \A a \in 1..Len(p.ands) : q.ands[a] = p.ands[a]

(* A pool extends itself.                                                  *)
LEMMA ExtendsItself == ASSUME NEW p \in Pools PROVE Extends(p, p)
  BY PoolParts DEF Extends

(* Growing twice is growing.                                               *)
LEMMA ExtendsOn ==
  ASSUME NEW p \in Pools, NEW q \in Pools, NEW r \in Pools,
         Extends(p, q), Extends(q, r)
  PROVE  Extends(p, r)
<1>1. /\ Len(p.ors) \in Nat /\ Len(q.ors) \in Nat /\ Len(r.ors) \in Nat
      /\ Len(p.ands) \in Nat /\ Len(q.ands) \in Nat /\ Len(r.ands) \in Nat
  BY PoolParts
<1>2. Len(p.ors) <= Len(r.ors) /\ \A id \in 1..Len(p.ors) : r.ors[id] = p.ors[id]
  <2>1. \A id \in 1..Len(p.ors) : id \in 1..Len(q.ors)
    BY <1>1 DEF Extends
  <2>. QED
    BY <1>1, <2>1 DEF Extends
<1>3. Len(p.ands) <= Len(r.ands) /\ \A a \in 1..Len(p.ands) : r.ands[a] = p.ands[a]
  <2>1. \A a \in 1..Len(p.ands) : a \in 1..Len(q.ands)
    BY <1>1 DEF Extends
  <2>. QED
    BY <1>1, <2>1 DEF Extends
<1>. QED
  BY <1>2, <1>3 DEF Extends

(* The sets through an AND node stay if those of its right node do.        *)
LEMMA ThroughStays ==
  ASSUME NEW p \in Pools, NEW q \in Pools, Extends(p, q), NEW a \in DOMAIN p.ands,
         SetsOf(q, p.ands[a].right) = SetsOf(p, p.ands[a].right)
  PROVE  SetsThrough(q, a) = SetsThrough(p, a)
<1>1. /\ DOMAIN p.ands = 1..Len(p.ands) /\ DOMAIN p.ors = 1..Len(p.ors)
  BY PoolParts
<1>2. q.ands[a] = p.ands[a]
  BY <1>1 DEF Extends
<1>3. p.ands[a].left \in 1..Len(p.ors)
  BY <1>1, AndParts
<1>4. q.ors[p.ands[a].left] = p.ors[p.ands[a].left]
  BY <1>3 DEF Extends
<1>5. LeftIds(q, a) = LeftIds(p, a)
  BY <1>2, <1>4, Zenon DEF LeftIds
<1>. QED
  BY <1>2, <1>5 DEF SetsThrough

(* Below a node that was there, nothing changes.                           *)
LEMMA SetsStay ==
  ASSUME NEW p \in Pools, NEW q \in Pools, Extends(p, q)
  PROVE  /\ \A id \in DOMAIN p.ors : id \in DOMAIN q.ors /\ SetsOf(q, id) = SetsOf(p, id)
         /\ \A a \in DOMAIN p.ands :
              a \in DOMAIN q.ands /\ SetsThrough(q, a) = SetsThrough(p, a)
<1>. DEFINE N == Len(p.ors)
            T == { k \in 0..N : \A id \in 1..k : SetsOf(q, id) = SetsOf(p, id) }
<1>1. /\ N \in Nat /\ DOMAIN p.ors = 1..N
      /\ Len(q.ors) \in Nat /\ DOMAIN q.ors = 1..Len(q.ors) /\ N <= Len(q.ors)
      /\ Len(p.ands) \in Nat /\ DOMAIN p.ands = 1..Len(p.ands)
      /\ Len(q.ands) \in Nat /\ DOMAIN q.ands = 1..Len(q.ands) /\ Len(p.ands) <= Len(q.ands)
  BY PoolParts DEF Extends
<1>2. 0 \in T
  BY <1>1
<1>3. ASSUME NEW k \in 1..N, k - 1 \in T PROVE k \in T
  <2>1. k \in DOMAIN p.ors /\ k \in DOMAIN q.ors /\ q.ors[k] = p.ors[k]
    BY <1>1 DEF Extends
  <2>2. SetsOf(q, k) = SetsOf(p, k)
    <3>1. CASE p.ors[k].tag = "ARMORS"
      BY <2>1, <3>1, SetsUnfold
    <3>2. CASE p.ors[k].tag = "ANDS"
      <4>. DEFINE ds == ToSet(p.ors[k].daughters)
      <4>1. ASSUME NEW a \in ds PROVE SetsThrough(q, a) = SetsThrough(p, a)
        <5>1. a \in DOMAIN p.ands /\ p.ands[a].right < k
          BY <2>1, <3>2, OrParts
        <5>2. p.ands[a].right \in 1..(k - 1)
          BY <1>1, <5>1, AndParts
        <5>3. SetsOf(q, p.ands[a].right) = SetsOf(p, p.ands[a].right)
          BY <1>3, <5>2
        <5>. QED
          BY <5>1, <5>3, ThroughStays
      <4>2. SetsOf(p, k) = UNION { SetsThrough(p, a) : a \in ds }
        BY <2>1, <3>2, SetsUnfold
      <4>3. SetsOf(q, k) = UNION { SetsThrough(q, a) : a \in ds }
        BY <2>1, <3>2, SetsUnfold
      <4>4. { SetsThrough(q, a) : a \in ds } = { SetsThrough(p, a) : a \in ds }
        BY <4>1
      <4>. QED
        BY <4>2, <4>3, <4>4, Zenon
    <3>. QED
      BY <2>1, <3>1, <3>2, OrParts
  <2>3. \A id \in 1..k : id \in 1..(k - 1) \/ id = k
    BY <1>1
  <2>. QED
    BY <1>1, <1>3, <2>2, <2>3
<1>4. N \in T
  <2>. HIDE DEF T
  <2>1. \A k \in 0..N : k \in T
    BY <1>1, <1>2, <1>3, IntervalInduction
  <2>. QED
    BY <1>1, <2>1
<1>5. \A id \in DOMAIN p.ors : id \in DOMAIN q.ors /\ SetsOf(q, id) = SetsOf(p, id)
  BY <1>1, <1>4
<1>6. ASSUME NEW a \in DOMAIN p.ands
      PROVE  a \in DOMAIN q.ands /\ SetsThrough(q, a) = SetsThrough(p, a)
  <2>1. SetsOf(q, p.ands[a].right) = SetsOf(p, p.ands[a].right)
    BY <1>5, AndParts
  <2>. QED
    BY <1>1, <2>1, ThroughStays
<1>. QED
  BY <1>5, <1>6

-----------------------------------------------------------------------------
(* What MakeAnd, MakeORs and MakeOR make of a pool p.                      *)
AndMade(p, q, l, r) ==
  LET a == Len(p.ands) + 1
  IN  /\ q \in Pools /\ Extends(p, q)
      /\ q.ors = p.ors /\ Len(q.ands) = a
      /\ a \in DOMAIN q.ands /\ a \notin DOMAIN p.ands
      /\ q.ands[a] = [left |-> l, right |-> r]
      /\ SetsThrough(q, a) = Prefixed(ToSet(p.ors[l].daughters), SetsOf(p, r))

ORsMade(p, q, tag, groups) ==
  LET n == Len(p.ors)
  IN  /\ q \in Pools /\ Extends(p, q)
      /\ q.ands = p.ands /\ Len(q.ors) = n + Len(groups)
      /\ DOMAIN groups = 1..Len(groups)
      /\ \A g \in DOMAIN groups :
           /\ n + g \in DOMAIN q.ors
           /\ q.ors[n + g].key = groups[g].key
           /\ q.ors[n + g].tag = tag
           /\ q.ors[n + g].daughters = groups[g].ids
           /\ tag = "ARMORS" =>
                SetsOf(q, n + g) = { <<id>> : id \in ToSet(groups[g].ids) }
           /\ tag = "ANDS" =>
                SetsOf(q, n + g)
                  = UNION { SetsThrough(p, a) : a \in ToSet(groups[g].ids) }
      /\ \A id \in DOMAIN q.ors :
           id \in DOMAIN p.ors \/ \E g \in DOMAIN groups : id = n + g

OrMade(p, q, key, daughters) ==
  LET id == Len(p.ors) + 1
  IN  /\ q \in Pools /\ Extends(p, q)
      /\ q.ands = p.ands /\ Len(q.ors) = id /\ id \in DOMAIN q.ors
      /\ q.ors[id].key = key
      /\ q.ors[id].tag = "ARMORS"
      /\ q.ors[id].daughters = daughters
      /\ \A i \in DOMAIN q.ors : i \in DOMAIN p.ors \/ i = id

(* MakeAnd adds one AND node.                                              *)
LEMMA MakeAndGrows ==
  ASSUME NEW p \in Pools, NEW l \in DOMAIN p.ors, NEW r \in DOMAIN p.ors,
         p.ors[l].tag = "ARMORS"
  PROVE  AndMade(p, MakeAnd(p, l, r), l, r)
<1>. DEFINE q == MakeAnd(p, l, r)
            a == Len(p.ands) + 1
            and == [left |-> l, right |-> r]
<1>1. q.ors = p.ors /\ q.ands = Append(p.ands, and) /\ q = [ors |-> q.ors, ands |-> q.ands]
  BY DEF MakeAnd
<1>2. and \in AndNodes /\ and.left = l /\ and.right = r
  BY PoolParts DEF AndNodes
<1>. HIDE DEF q, and
<1>3. /\ q.ands \in Seq(AndNodes) /\ Len(q.ands) = a /\ a \in Nat
      /\ \A b \in 1..Len(p.ands) : q.ands[b] = p.ands[b]
      /\ q.ands[a] = and
  BY <1>1, <1>2, PoolParts, AppendProperties
<1>4. DOMAIN q.ands = 1..a /\ DOMAIN p.ands = 1..Len(p.ands) /\ Len(p.ands) \in Nat
  BY <1>3, PoolParts
<1>5. q \in [ors : Seq(OrNodes), ands : Seq(AndNodes)]
  BY <1>1, <1>3, PoolParts
<1>6. ASSUME NEW b \in DOMAIN q.ands
      PROVE  /\ {q.ands[b].left, q.ands[b].right} \subseteq DOMAIN q.ors
             /\ q.ors[q.ands[b].left].tag = "ARMORS"
  <2>1. CASE b = a
    BY <1>1, <1>2, <1>3, <2>1
  <2>2. CASE b # a
    <3>1. b \in DOMAIN p.ands /\ q.ands[b] = p.ands[b]
      BY <1>3, <1>4, <2>2
    <3>. QED
      BY <1>1, <3>1, AndParts
  <2>. QED
    BY <2>1, <2>2
<1>7. ASSUME NEW id \in DOMAIN q.ors, q.ors[id].tag = "ANDS",
             NEW b \in ToSet(q.ors[id].daughters)
      PROVE  b \in DOMAIN q.ands /\ q.ands[b].right < id
  <2>1. b \in DOMAIN p.ands /\ p.ands[b].right < id
    BY <1>1, <1>7, OrParts
  <2>. QED
    BY <1>3, <1>4, <2>1
<1>8. q \in Pools
  BY <1>5, <1>6, <1>7 DEF Pools
<1>9. Extends(p, q)
  BY <1>1, <1>3, <1>4, PoolParts DEF Extends
<1>10. SetsOf(q, r) = SetsOf(p, r)
  BY <1>8, <1>9, SetsStay
<1>11. SetsThrough(q, a) = Prefixed(ToSet(p.ors[l].daughters), SetsOf(p, r))
  BY <1>1, <1>2, <1>3, <1>10, Zenon DEF SetsThrough, LeftIds
<1>12. a \in DOMAIN q.ands /\ a \notin DOMAIN p.ands
  BY <1>4
<1>. QED
  BY <1>1, <1>3, <1>8, <1>9, <1>11, <1>12 DEF q, and, AndMade

(* MakeORs adds one OR node for each group.                                *)
LEMMA MakeORsGrows ==
  ASSUME NEW p \in Pools, NEW tag \in {"ARMORS", "ANDS"}, NEW groups \in GroupsOf(Keys),
         tag = "ANDS" => \A g \in DOMAIN groups :
                           ToSet(groups[g].ids) \subseteq DOMAIN p.ands
  PROVE  ORsMade(p, MakeORs(p, tag, groups), tag, groups)
<1>. DEFINE q == MakeORs(p, tag, groups)
            n == Len(p.ors)
            Node(g) == [key |-> groups[g].key, tag |-> tag, daughters |-> groups[g].ids]
            nodes == [g \in DOMAIN groups |-> Node(g)]
<1>0. /\ n \in Nat /\ Len(groups) \in Nat /\ DOMAIN groups = 1..Len(groups)
      /\ DOMAIN p.ors = 1..n /\ Len(p.ands) \in Nat /\ DOMAIN p.ands = 1..Len(p.ands)
      /\ p.ors \in Seq(OrNodes)
  BY PoolParts DEF GroupsOf
<1>1. q.ors = p.ors \o nodes /\ q.ands = p.ands /\ q = [ors |-> q.ors, ands |-> q.ands]
  BY DEF MakeORs
<1>2. ASSUME NEW g \in DOMAIN groups
      PROVE  Node(g) \in OrNodes /\ Node(g).key = groups[g].key /\ Node(g).tag = tag
             /\ Node(g).daughters = groups[g].ids
  BY GroupFields DEF OrNodes
<1>3. nodes \in Seq(OrNodes) /\ Len(nodes) = Len(groups)
      /\ \A g \in DOMAIN groups : nodes[g] = Node(g)
  <2>1. nodes \in [1..Len(groups) -> OrNodes]
    BY <1>0, <1>2
  <2>2. nodes \in Seq(OrNodes)
    BY <1>0, <2>1, SeqDef
  <2>3. DOMAIN nodes = 1..Len(groups) /\ DOMAIN nodes = 1..Len(nodes) /\ Len(nodes) \in Nat
    BY <1>0, <2>2, LenProperties
  <2>. QED
    BY <1>0, <2>2, <2>3
<1>. HIDE DEF q, nodes, Node
<1>4. /\ q.ors \in Seq(OrNodes) /\ Len(q.ors) = n + Len(groups)
      /\ \A i \in 1 .. n + Len(groups) :
           q.ors[i] = IF i <= n THEN p.ors[i] ELSE nodes[i - n]
  <2>1. /\ p.ors \o nodes \in Seq(OrNodes)
        /\ Len(p.ors \o nodes) = Len(p.ors) + Len(nodes)
        /\ \A i \in 1 .. Len(p.ors) + Len(nodes) : (p.ors \o nodes)[i] =
              IF i <= Len(p.ors) THEN p.ors[i] ELSE nodes[i - Len(p.ors)]
    BY <1>0, <1>3, ConcatProperties, Zenon
  <2>. QED
    BY <1>1, <1>3, <2>1
<1>5. DOMAIN q.ors = 1..(n + Len(groups)) /\ Len(q.ors) \in Nat
  BY <1>0, <1>4
<1>6. ASSUME NEW i \in 1..n PROVE q.ors[i] = p.ors[i] /\ i \in DOMAIN q.ors
  BY <1>0, <1>4, <1>5
<1>7. ASSUME NEW g \in DOMAIN groups
      PROVE  n + g \in DOMAIN q.ors /\ q.ors[n + g] = Node(g)
  <2>1. n + g \in 1..(n + Len(groups)) /\ ~(n + g <= n) /\ (n + g) - n = g
    BY <1>0
  <2>. QED
    BY <1>3, <1>4, <1>5, <2>1
<1>8. ASSUME NEW id \in DOMAIN q.ors
      PROVE  id \in DOMAIN p.ors \/ \E g \in DOMAIN groups : id = n + g
  <2>1. CASE id <= n
    BY <1>0, <1>5, <2>1
  <2>2. CASE ~ (id <= n)
    <3>1. id - n \in DOMAIN groups /\ id = n + (id - n)
      BY <1>0, <1>5, <2>2
    <3>. QED
      BY <3>1
  <2>. QED
    BY <2>1, <2>2
<1>9. q \in [ors : Seq(OrNodes), ands : Seq(AndNodes)]
  BY <1>1, <1>4, PoolParts
<1>10. ASSUME NEW b \in DOMAIN q.ands
       PROVE  /\ {q.ands[b].left, q.ands[b].right} \subseteq DOMAIN q.ors
              /\ q.ors[q.ands[b].left].tag = "ARMORS"
  <2>1. /\ p.ands[b].left \in 1..n /\ p.ands[b].right \in 1..n
        /\ p.ors[p.ands[b].left].tag = "ARMORS"
    BY <1>0, <1>1, AndParts
  <2>. QED
    BY <1>1, <1>6, <2>1
<1>11. ASSUME NEW id \in DOMAIN q.ors, q.ors[id].tag = "ANDS",
              NEW b \in ToSet(q.ors[id].daughters)
       PROVE  b \in DOMAIN q.ands /\ q.ands[b].right < id
  <2>1. CASE id \in DOMAIN p.ors
    <3>1. q.ors[id] = p.ors[id]
      BY <1>0, <1>6, <2>1
    <3>2. b \in DOMAIN p.ands /\ p.ands[b].right < id
      BY <1>11, <2>1, <3>1, OrParts
    <3>. QED
      BY <1>1, <3>2
  <2>2. CASE \E g \in DOMAIN groups : id = n + g
    <3>1. PICK g \in DOMAIN groups : id = n + g
      BY <2>2
    <3>2. tag = "ANDS" /\ b \in ToSet(groups[g].ids)
      BY <1>2, <1>7, <1>11, <3>1
    <3>3. b \in DOMAIN p.ands
      BY <3>2
    <3>4. p.ands[b].right \in 1..n
      BY <1>0, <3>3, AndParts
    <3>5. p.ands[b].right < id
      BY <1>0, <3>1, <3>4
    <3>. QED
      BY <1>1, <3>3, <3>5
  <2>. QED
    BY <1>8, <2>1, <2>2
<1>12. q \in Pools
  BY <1>9, <1>10, <1>11 DEF Pools
<1>13. Extends(p, q)
  BY <1>0, <1>1, <1>4, <1>6 DEF Extends
<1>14. ASSUME NEW g \in DOMAIN groups
       PROVE  SetsOf(q, n + g)
                = IF tag = "ARMORS" THEN { <<id>> : id \in ToSet(groups[g].ids) }
                  ELSE UNION { SetsThrough(p, a) : a \in ToSet(groups[g].ids) }
  <2>1. n + g \in DOMAIN q.ors /\ q.ors[n + g].tag = tag /\ q.ors[n + g].daughters = groups[g].ids
    BY <1>2, <1>7
  <2>2. CASE tag = "ARMORS"
    BY <1>12, <2>1, <2>2, SetsUnfold
  <2>3. CASE tag = "ANDS"
    <3>1. SetsOf(q, n + g) = UNION { SetsThrough(q, a) : a \in ToSet(groups[g].ids) }
      BY <1>12, <2>1, <2>3, SetsUnfold
    <3>2. \A a \in ToSet(groups[g].ids) : SetsThrough(q, a) = SetsThrough(p, a)
      BY <1>12, <1>13, <2>3, SetsStay
    <3>3. { SetsThrough(q, a) : a \in ToSet(groups[g].ids) }
            = { SetsThrough(p, a) : a \in ToSet(groups[g].ids) }
      BY <3>2
    <3>. QED
      BY <2>3, <3>1, <3>3
  <2>. QED
    BY <2>2, <2>3
<1>15. ASSUME NEW g \in DOMAIN groups
       PROVE  /\ n + g \in DOMAIN q.ors
              /\ q.ors[n + g].key = groups[g].key
              /\ q.ors[n + g].tag = tag
              /\ q.ors[n + g].daughters = groups[g].ids
              /\ tag = "ARMORS" =>
                   SetsOf(q, n + g) = { <<id>> : id \in ToSet(groups[g].ids) }
              /\ tag = "ANDS" =>
                   SetsOf(q, n + g)
                     = UNION { SetsThrough(p, a) : a \in ToSet(groups[g].ids) }
  BY <1>2, <1>7, <1>14
<1>16. ORsMade(p, q, tag, groups)
  BY <1>0, <1>1, <1>4, <1>8, <1>12, <1>13, <1>15 DEF ORsMade
<1>. QED
  BY <1>16 DEF q

(* MakeOR adds one OR node, here of armors.                                *)
LEMMA MakeORGrows ==
  ASSUME NEW p \in Pools, NEW key \in Keys, NEW daughters \in Seq(Nat)
  PROVE  OrMade(p, MakeOR(p, "ARMORS", key, daughters), key, daughters)
<1>. DEFINE group == [key |-> key, ids |-> daughters]
            groups == <<group>>
            node == [key |-> key, tag |-> "ARMORS", daughters |-> daughters]
<1>1. groups \in GroupsOf(Keys) /\ DOMAIN groups = {1} /\ groups[1] = group /\ Len(groups) = 1
  BY DEF GroupsOf, GroupOf
<1>2. [g \in DOMAIN groups |-> [key |-> groups[g].key, tag |-> "ARMORS", daughters |-> groups[g].ids]]
        = <<node>>
  <2>1. group.key = key /\ group.ids = daughters
    OBVIOUS
  <2>. HIDE DEF group, groups
  <2>2. [g \in DOMAIN groups |-> [key |-> groups[g].key, tag |-> "ARMORS", daughters |-> groups[g].ids]]
        = [g \in {1} |-> node]
    BY <1>1, <2>1
  <2>. HIDE DEF node
  <2>3. [g \in {1} |-> node] = <<node>>
    OBVIOUS
  <2>. QED
    BY <2>2, <2>3
<1>3. node \in OrNodes
  BY DEF OrNodes
<1>4. MakeOR(p, "ARMORS", key, daughters) = MakeORs(p, "ARMORS", groups)
  <2>1. Append(p.ors, node) = p.ors \o <<node>>
    BY <1>3, PoolParts, AppendIsConcat
  <2>. HIDE DEF groups
  <2>. QED
    BY <1>2, <2>1, Zenon DEF MakeOR, MakeORs
<1>5. group.key = key /\ group.ids = daughters
  OBVIOUS
<1>. DEFINE q == MakeORs(p, "ARMORS", groups)
            n == Len(p.ors)
<1>. HIDE DEF groups, group
<1>6. ORsMade(p, q, "ARMORS", groups)
  BY <1>1, MakeORsGrows
<1>. HIDE DEF q
<1>7. /\ q \in Pools /\ Extends(p, q)
      /\ q.ands = p.ands /\ Len(q.ors) = n + 1
      /\ n + 1 \in DOMAIN q.ors
      /\ q.ors[n + 1].key = key
      /\ q.ors[n + 1].tag = "ARMORS"
      /\ q.ors[n + 1].daughters = daughters
      /\ \A i \in DOMAIN q.ors : i \in DOMAIN p.ors \/ i = n + 1
  BY <1>1, <1>5, <1>6 DEF ORsMade
<1>8. OrMade(p, q, key, daughters)
  BY <1>7 DEF OrMade
<1>. QED
  BY <1>4, <1>8 DEF q

-----------------------------------------------------------------------------
(* AND nodes in groups hold the sets of D: each set is below one of them,  *)
(* and tell relates the key of its group to it.                            *)
Gathered(p, rel, D, tell) ==
  /\ \A k, a : <<k, a>> \in rel =>
       /\ a \in DOMAIN p.ands
       /\ SetsThrough(p, a) # {}
       /\ \A x \in SetsThrough(p, a) : x \in D /\ <<k, x>> \in tell
  /\ \A x \in D : \E k, a : <<k, a>> \in rel /\ x \in SetsThrough(p, a)
  /\ \A k, a, l, b : <<k, a>> \in rel /\ <<l, b>> \in rel /\ a # b =>
       SetsThrough(p, a) \cap SetsThrough(p, b) = {}

(* OR nodes hold the sets of D, each set below one of them.                *)
Holds(p, ids, D) ==
  /\ ids \in Seq(Nat)
  /\ \A i \in DOMAIN ids :
       ids[i] \in DOMAIN p.ors /\ SetsOf(p, ids[i]) # {} /\ SetsOf(p, ids[i]) \subseteq D
  /\ \A x \in D : \E i \in DOMAIN ids : x \in SetsOf(p, ids[i])
  /\ \A i, j \in DOMAIN ids : i # j => SetsOf(p, ids[i]) \cap SetsOf(p, ids[j]) = {}

(* Every node lists something, nothing twice, and armors of A only.        *)
Sound(p, A) ==
  \A id \in DOMAIN p.ors :
    /\ ListsOnce(p, id)
    /\ p.ors[id].daughters # <<>>
    /\ p.ors[id].tag = "ARMORS" => ToSet(p.ors[id].daughters) \subseteq A

(* acc grew from the pool p, and its groups gather the sets of D.          *)
Made(p, acc, K, D, tell, A) ==
  /\ acc \in [pool : Pools, groups : GroupsOf(K)]
  /\ Extends(p, acc.pool)
  /\ Sound(acc.pool, A)
  /\ \E rel : Grouped(acc.groups, K, rel) /\ Gathered(acc.pool, rel, D, tell)

(* q is p with an OR node for each group, whose key is the one of under.   *)
NodesMade(p, q, tag, groups, under, D, tell, A) ==
  LET n == Len(p.ors)
  IN  /\ q \in Pools /\ Extends(p, q) /\ Sound(q, A)
      /\ Holds(q, IdsAfter(p, groups), D)
      /\ DOMAIN IdsAfter(p, groups) = DOMAIN groups
      /\ \A g \in DOMAIN groups :
           /\ n + g \in DOMAIN q.ors
           /\ IdsAfter(p, groups)[g] = n + g
           /\ q.ors[n + g].key = under[g].key
           /\ q.ors[n + g].tag = tag
           /\ \A x \in SetsOf(q, n + g) : <<groups[g].key, x>> \in tell

(* No node holds no set.                                                   *)
LEMMA NothingGathered == ASSUME NEW p, NEW tell PROVE Gathered(p, {}, {}, tell)
  BY DEF Gathered

(* What AND nodes hold, they hold in a pool that has grown.                *)
LEMMA GatheredStays ==
  ASSUME NEW p \in Pools, NEW q \in Pools, Extends(p, q),
         NEW rel, NEW D, NEW tell, Gathered(p, rel, D, tell)
  PROVE  Gathered(q, rel, D, tell)
<1>1. ASSUME NEW k, NEW a, <<k, a>> \in rel
      PROVE  a \in DOMAIN q.ands /\ SetsThrough(q, a) = SetsThrough(p, a)
  <2>1. a \in DOMAIN p.ands
    BY <1>1 DEF Gathered
  <2>. QED
    BY <2>1, SetsStay
<1>2. ASSUME NEW k, NEW a, <<k, a>> \in rel
      PROVE  /\ a \in DOMAIN q.ands
             /\ SetsThrough(q, a) # {}
             /\ \A x \in SetsThrough(q, a) : x \in D /\ <<k, x>> \in tell
  BY <1>1, <1>2 DEF Gathered
<1>3. ASSUME NEW x \in D
      PROVE  \E k, a : <<k, a>> \in rel /\ x \in SetsThrough(q, a)
  BY <1>1 DEF Gathered
<1>4. ASSUME NEW k, NEW a, NEW l, NEW b, <<k, a>> \in rel, <<l, b>> \in rel, a # b
      PROVE  SetsThrough(q, a) \cap SetsThrough(q, b) = {}
  BY <1>1, <1>4 DEF Gathered
<1>. QED
  BY <1>2, <1>3, <1>4 DEF Gathered

(* What OR nodes hold, they hold in a pool that has grown.                 *)
LEMMA HoldsStill ==
  ASSUME NEW p \in Pools, NEW q \in Pools, Extends(p, q),
         NEW ids, NEW D, Holds(p, ids, D)
  PROVE  Holds(q, ids, D)
<1>1. \A i \in DOMAIN ids : ids[i] \in DOMAIN q.ors /\ SetsOf(q, ids[i]) = SetsOf(p, ids[i])
  BY SetsStay DEF Holds
<1>. QED
  BY <1>1 DEF Holds

(* A node that lists nothing twice goes on so.                             *)
LEMMA OnceStays ==
  ASSUME NEW p \in Pools, NEW q \in Pools, Extends(p, q),
         NEW id \in DOMAIN p.ors, ListsOnce(p, id)
  PROVE  ListsOnce(q, id)
<1>1. q.ors[id] = p.ors[id]
  BY PoolParts DEF Extends
<1>2. CASE p.ors[id].tag = "ANDS"
  <2>1. \A m \in DOMAIN p.ors[id].daughters :
          p.ors[id].daughters[m] \in ToSet(p.ors[id].daughters)
    BY DEF ToSet
  <2>2. \A a \in ToSet(p.ors[id].daughters) : a \in DOMAIN p.ands
    BY <1>2, OrParts
  <2>3. \A m \in DOMAIN p.ors[id].daughters :
          SetsThrough(q, p.ors[id].daughters[m]) = SetsThrough(p, p.ors[id].daughters[m])
    BY <2>1, <2>2, SetsStay
  <2>. QED
    BY <1>1, <2>3 DEF ListsOnce
<1>3. CASE p.ors[id].tag # "ANDS"
  BY <1>1, <1>3 DEF ListsOnce
<1>. QED
  BY <1>2, <1>3

(* A node of a sound pool, in a pool that has grown.                       *)
LEMMA NodeStays ==
  ASSUME NEW p \in Pools, NEW q \in Pools, Extends(p, q),
         NEW A, Sound(p, A), NEW id \in DOMAIN p.ors
  PROVE  /\ ListsOnce(q, id)
         /\ q.ors[id].daughters # <<>>
         /\ q.ors[id].tag = "ARMORS" => ToSet(q.ors[id].daughters) \subseteq A
<1>1. q.ors[id] = p.ors[id]
  BY PoolParts DEF Extends
<1>2. ListsOnce(p, id)
  BY DEF Sound
<1>3. ListsOnce(q, id)
  BY <1>2, OnceStays
<1>. QED
  BY <1>1, <1>3 DEF Sound

(* One more AND node.                                                      *)
LEMMA GatherMore ==
  ASSUME NEW p, NEW acc, NEW K, NEW D, NEW tell, NEW A, p \in Pools,
         Made(p, acc, K, D, tell, A),
         NEW l \in DOMAIN acc.pool.ors, NEW r \in DOMAIN acc.pool.ors,
         acc.pool.ors[l].tag = "ARMORS", NEW k \in K, NEW X,
         X = Prefixed(ToSet(acc.pool.ors[l].daughters), SetsOf(acc.pool, r)),
         X # {}, X \cap D = {}, \A x \in X : <<k, x>> \in tell
  PROVE  Made(p, [pool   |-> MakeAnd(acc.pool, l, r),
                  groups |-> Push(acc.groups, k, Len(MakeAnd(acc.pool, l, r).ands))],
              K, D \union X, tell, A)
<1>. DEFINE b == acc.pool
            groups == acc.groups
            q == MakeAnd(b, l, r)
            c == Len(b.ands) + 1
<1>0. /\ b \in Pools /\ Extends(p, b) /\ Sound(b, A)
      /\ \E rel : Grouped(groups, K, rel) /\ Gathered(b, rel, D, tell)
  BY DEF Made
<1>a. PICK rel : Grouped(groups, K, rel) /\ Gathered(b, rel, D, tell)
  BY <1>0
<1>. DEFINE new == rel \union { <<k, c>> }
<1>b. b.ors[l].tag = "ARMORS" /\ l \in DOMAIN b.ors /\ r \in DOMAIN b.ors
      /\ X = Prefixed(ToSet(b.ors[l].daughters), SetsOf(b, r))
  OBVIOUS
<1>. HIDE DEF b, groups
<1>c. AndMade(b, q, l, r)
  BY <1>0, <1>b, MakeAndGrows
<1>. HIDE DEF q
<1>1. /\ q \in Pools /\ Extends(b, q) /\ q.ors = b.ors /\ Len(q.ands) = c
      /\ c \in DOMAIN q.ands /\ c \notin DOMAIN b.ands
      /\ SetsThrough(q, c) = X
  BY <1>b, <1>c DEF AndMade
<1>2. c \in Nat
  BY <1>0, PoolParts
<1>3. \A h : <<h, c>> \notin rel
  BY <1>1, <1>a DEF Gathered
<1>4. Grouped(Push(groups, k, c), K, new)
  BY <1>2, <1>3, <1>a, PushLists
<1>5. Gathered(q, rel, D, tell)
  BY <1>0, <1>1, <1>a, GatheredStays
<1>6. \A h, a : <<h, a>> \in rel => a \in DOMAIN b.ands /\ SetsThrough(q, a) \subseteq D
  BY <1>5, <1>a DEF Gathered
<1>7. ASSUME NEW h, NEW a, <<h, a>> \in new
      PROVE  /\ a \in DOMAIN q.ands
             /\ SetsThrough(q, a) # {}
             /\ \A x \in SetsThrough(q, a) : x \in D \union X /\ <<h, x>> \in tell
  BY <1>1, <1>5, <1>7 DEF Gathered
<1>8. ASSUME NEW x \in D \union X
      PROVE  \E h, a : <<h, a>> \in new /\ x \in SetsThrough(q, a)
  BY <1>1, <1>5 DEF Gathered
<1>9. ASSUME NEW h, NEW a, NEW m, NEW d, <<h, a>> \in new, <<m, d>> \in new, a # d
      PROVE  SetsThrough(q, a) \cap SetsThrough(q, d) = {}
  <2>1. CASE <<h, a>> \in rel /\ <<m, d>> \in rel
    BY <1>5, <1>9, <2>1 DEF Gathered
  <2>2. CASE <<h, a>> \in rel /\ d = c
    BY <1>1, <1>6, <2>2
  <2>3. CASE a = c /\ <<m, d>> \in rel
    BY <1>1, <1>6, <2>3
  <2>. QED
    BY <1>9, <2>1, <2>2, <2>3
<1>10. Gathered(q, new, D \union X, tell)
  BY <1>7, <1>8, <1>9 DEF Gathered
<1>11. Sound(q, A)
  <2>1. ASSUME NEW id \in DOMAIN q.ors
        PROVE  /\ ListsOnce(q, id)
               /\ q.ors[id].daughters # <<>>
               /\ q.ors[id].tag = "ARMORS" => ToSet(q.ors[id].daughters) \subseteq A
    <3>1. id \in DOMAIN b.ors
      BY <1>1
    <3>. QED
      BY <1>0, <1>1, <3>1, NodeStays
  <2>. QED
    BY <2>1 DEF Sound
<1>12. Extends(p, q)
  BY <1>0, <1>1, ExtendsOn
<1>. DEFINE after == [pool |-> q, groups |-> Push(groups, k, Len(q.ands))]
<1>13. after.pool = q /\ after.groups = Push(groups, k, c)
       /\ after \in [pool : Pools, groups : GroupsOf(K)]
  <2>1. Push(groups, k, c) \in GroupsOf(K)
    BY <1>4 DEF Grouped
  <2>. QED
    BY <1>1, <2>1
<1>. HIDE DEF after
<1>14. Made(p, after, K, D \union X, tell, A)
  BY <1>1, <1>4, <1>10, <1>11, <1>12, <1>13 DEF Made
<1>. QED
  BY <1>14 DEF after, q, b, groups

(* One more OR node, of armors.                                            *)
LEMMA LeafMore ==
  ASSUME NEW p \in Pools, NEW acc, NEW K, NEW D, NEW tell, NEW A,
         Made(p, acc, K, D, tell, A),
         NEW key \in Keys, NEW ids \in Seq(Nat),
         Injective(ids), ids # <<>>, ToSet(ids) \subseteq A
  PROVE  Made(p, [pool |-> MakeOR(acc.pool, "ARMORS", key, ids), groups |-> acc.groups],
              K, D, tell, A)
<1>. DEFINE b == acc.pool
            groups == acc.groups
            q == MakeOR(b, "ARMORS", key, ids)
            n == Len(b.ors) + 1
<1>0. /\ b \in Pools /\ Extends(p, b) /\ Sound(b, A)
      /\ \E rel : Grouped(groups, K, rel) /\ Gathered(b, rel, D, tell)
  BY DEF Made
<1>a. PICK rel : Grouped(groups, K, rel) /\ Gathered(b, rel, D, tell)
  BY <1>0
<1>. HIDE DEF b, groups
<1>b. OrMade(b, q, key, ids)
  BY <1>0, MakeORGrows
<1>. HIDE DEF q
<1>1. /\ q \in Pools /\ Extends(b, q)
      /\ q.ors[n].tag = "ARMORS"
      /\ q.ors[n].daughters = ids
      /\ \A i \in DOMAIN q.ors : i \in DOMAIN b.ors \/ i = n
  BY <1>b DEF OrMade
<1>2. Gathered(q, rel, D, tell)
  BY <1>0, <1>1, <1>a, GatheredStays
<1>3. Sound(q, A)
  <2>1. ListsOnce(q, n)
    BY <1>1 DEF ListsOnce, Injective
  <2>2. ASSUME NEW id \in DOMAIN q.ors
        PROVE  /\ ListsOnce(q, id)
               /\ q.ors[id].daughters # <<>>
               /\ q.ors[id].tag = "ARMORS" => ToSet(q.ors[id].daughters) \subseteq A
    <3>1. CASE id \in DOMAIN b.ors
      BY <1>0, <1>1, <3>1, NodeStays
    <3>2. CASE id = n
      BY <1>1, <2>1, <3>2
    <3>. QED
      BY <1>1, <3>1, <3>2
  <2>. QED
    BY <2>2 DEF Sound
<1>4. Extends(p, q)
  BY <1>0, <1>1, ExtendsOn
<1>. DEFINE after == [pool |-> q, groups |-> groups]
<1>5. after.pool = q /\ after.groups = groups
      /\ after \in [pool : Pools, groups : GroupsOf(K)]
  <2>1. groups \in GroupsOf(K)
    BY <1>a DEF Grouped
  <2>. QED
    BY <1>1, <2>1
<1>. HIDE DEF after
<1>6. Made(p, after, K, D, tell, A)
  BY <1>1, <1>2, <1>3, <1>4, <1>5, <1>a DEF Made
<1>. QED
  BY <1>6 DEF after, q, b, groups

(* What the OR nodes of groups need, whatever their daughters are.         *)
LEMMA NodesFound ==
  ASSUME NEW p \in Pools, NEW q \in Pools, Extends(p, q), NEW A, Sound(p, A),
         NEW tag, NEW K, NEW groups \in GroupsOf(K), NEW under, NEW D, NEW tell,
         \A id \in DOMAIN q.ors :
           id \in DOMAIN p.ors \/ \E g \in DOMAIN groups : id = Len(p.ors) + g,
         \A g \in DOMAIN groups :
           /\ Len(p.ors) + g \in DOMAIN q.ors
           /\ q.ors[Len(p.ors) + g].key = under[g].key
           /\ q.ors[Len(p.ors) + g].tag = tag
           /\ ListsOnce(q, Len(p.ors) + g)
           /\ q.ors[Len(p.ors) + g].daughters # <<>>
           /\ tag = "ARMORS" => ToSet(q.ors[Len(p.ors) + g].daughters) \subseteq A
           /\ SetsOf(q, Len(p.ors) + g) # {}
           /\ \A x \in SetsOf(q, Len(p.ors) + g) : x \in D /\ <<groups[g].key, x>> \in tell,
         \A x \in D : \E g \in DOMAIN groups : x \in SetsOf(q, Len(p.ors) + g),
         \A g, h \in DOMAIN groups : g # h =>
           SetsOf(q, Len(p.ors) + g) \cap SetsOf(q, Len(p.ors) + h) = {}
  PROVE  NodesMade(p, q, tag, groups, under, D, tell, A)
<1>. DEFINE n == Len(p.ors)
            ids == IdsAfter(p, groups)
<1>1. DOMAIN groups = 1..Len(groups) /\ Len(groups) \in Nat /\ n \in Nat
  BY PoolParts DEF GroupsOf
<1>2. ids \in Seq(Nat) /\ DOMAIN ids = DOMAIN groups
  <2>1. ids \in [1..Len(groups) -> Nat]
    BY <1>1 DEF IdsAfter
  <2>2. ids \in Seq(Nat)
    BY <1>1, <2>1, SeqDef
  <2>. QED
    BY <2>2 DEF IdsAfter
<1>3. \A g \in DOMAIN groups : ids[g] = n + g
  BY DEF IdsAfter
<1>. HIDE DEF ids
<1>4. Holds(q, ids, D)
  <2>1. \A i \in DOMAIN ids :
           ids[i] \in DOMAIN q.ors /\ SetsOf(q, ids[i]) # {} /\ SetsOf(q, ids[i]) \subseteq D
    <3>1. ASSUME NEW g \in DOMAIN groups
          PROVE  ids[g] \in DOMAIN q.ors /\ SetsOf(q, ids[g]) # {} /\ SetsOf(q, ids[g]) \subseteq D
      <4>1. ids[g] = Len(p.ors) + g
        BY <1>3
      <4>. QED
        BY <4>1
    <3>. QED
      BY <1>2, <3>1
  <2>2. \A x \in D : \E i \in DOMAIN ids : x \in SetsOf(q, ids[i])
    BY <1>2, <1>3
  <2>3. \A i, j \in DOMAIN ids : i # j => SetsOf(q, ids[i]) \cap SetsOf(q, ids[j]) = {}
    <3>1. ASSUME NEW g \in DOMAIN groups, NEW h \in DOMAIN groups, g # h
          PROVE  SetsOf(q, ids[g]) \cap SetsOf(q, ids[h]) = {}
      <4>1. ids[g] = Len(p.ors) + g /\ ids[h] = Len(p.ors) + h
        BY <1>3
      <4>. QED
        BY <3>1, <4>1
    <3>. QED
      BY <1>2, <3>1
  <2>. QED
    BY <1>2, <2>1, <2>2, <2>3, Zenon DEF Holds
<1>5. Sound(q, A)
  <2>1. ASSUME NEW id \in DOMAIN q.ors
        PROVE  /\ ListsOnce(q, id)
               /\ q.ors[id].daughters # <<>>
               /\ q.ors[id].tag = "ARMORS" => ToSet(q.ors[id].daughters) \subseteq A
    <3>1. CASE id \in DOMAIN p.ors
      BY <3>1, NodeStays
    <3>2. CASE \E g \in DOMAIN groups : id = n + g
      BY <3>2
    <3>. QED
      BY <3>1, <3>2
  <2>. QED
    BY <2>1 DEF Sound
<1>. QED
  BY <1>2, <1>3, <1>4, <1>5 DEF NodesMade, ids

(* The OR nodes of the groups; under is the same groups with other keys.   *)
LEMMA NodesHold ==
  ASSUME NEW p \in Pools, NEW A, Sound(p, A),
         NEW K, NEW groups, NEW rel, Grouped(groups, K, rel),
         NEW D, NEW tell, Gathered(p, rel, D, tell),
         NEW under \in GroupsOf(Keys), DOMAIN under = DOMAIN groups,
         \A g \in DOMAIN groups : under[g].ids = groups[g].ids
  PROVE  NodesMade(p, MakeORs(p, "ANDS", under), "ANDS", groups, under, D, tell, A)
<1>. DEFINE q == MakeORs(p, "ANDS", under)
            n == Len(p.ors)
            Ids(g) == ToSet(groups[g].ids)
<1>0. groups \in GroupsOf(K)
  BY DEF Grouped
<1>1. ASSUME NEW g \in DOMAIN groups, NEW a \in Ids(g)
      PROVE  <<groups[g].key, a>> \in rel /\ a \in DOMAIN p.ands
  BY DEF Grouped, Under, Gathered
<1>2. \A g \in DOMAIN under : ToSet(under[g].ids) \subseteq DOMAIN p.ands
  BY <1>1
<1>3. ORsMade(p, q, "ANDS", under)
  BY <1>2, MakeORsGrows
<1>. HIDE DEF q
<1>4. ASSUME NEW g \in DOMAIN groups
      PROVE  /\ n + g \in DOMAIN q.ors
             /\ q.ors[n + g].key = under[g].key /\ q.ors[n + g].tag = "ANDS"
             /\ q.ors[n + g].daughters = groups[g].ids
             /\ SetsOf(q, n + g) = UNION { SetsThrough(p, a) : a \in Ids(g) }
  BY <1>3 DEF ORsMade
<1>5. ASSUME NEW g \in DOMAIN groups, NEW x \in SetsOf(q, n + g)
      PROVE  \E a \in Ids(g) : <<groups[g].key, a>> \in rel /\ x \in SetsThrough(p, a)
  BY <1>1, <1>4
<1>6. ASSUME NEW g \in DOMAIN groups
      PROVE  /\ groups[g].ids # <<>>
             /\ SetsOf(q, n + g) # {}
             /\ \A x \in SetsOf(q, n + g) : x \in D /\ <<groups[g].key, x>> \in tell
  <2>1. \A x \in SetsOf(q, n + g) : x \in D /\ <<groups[g].key, x>> \in tell
    BY <1>5 DEF Gathered
  <2>2. groups[g].ids # <<>> /\ groups[g].ids \in Seq(Nat)
    BY <1>0, GroupFields DEF Grouped
  <2>3. groups[g].ids[1] \in Ids(g)
    BY <2>2 DEF ToSet
  <2>4. SetsThrough(p, groups[g].ids[1]) # {}
    BY <1>1, <2>3 DEF Gathered
  <2>5. SetsOf(q, n + g) # {}
    BY <1>4, <2>3, <2>4
  <2>. QED
    BY <2>1, <2>2, <2>5
<1>7. ASSUME NEW x \in D PROVE \E g \in DOMAIN groups : x \in SetsOf(q, n + g)
  <2>1. PICK k, a : <<k, a>> \in rel /\ x \in SetsThrough(p, a)
    BY DEF Gathered
  <2>2. PICK g \in DOMAIN groups : groups[g].key = k
    BY <2>1 DEF Grouped
  <2>3. a \in Ids(g)
    BY <2>1, <2>2 DEF Grouped, Under
  <2>. QED
    BY <1>4, <2>1, <2>3
<1>8. ASSUME NEW g \in DOMAIN groups, NEW h \in DOMAIN groups, g # h
      PROVE  SetsOf(q, n + g) \cap SetsOf(q, n + h) = {}
  <2>1. SUFFICES ASSUME NEW x, x \in SetsOf(q, n + g), x \in SetsOf(q, n + h) PROVE FALSE
    OBVIOUS
  <2>2. PICK a \in Ids(g) : <<groups[g].key, a>> \in rel /\ x \in SetsThrough(p, a)
    BY <1>5, <2>1
  <2>3. PICK b \in Ids(h) : <<groups[h].key, b>> \in rel /\ x \in SetsThrough(p, b)
    BY <1>5, <2>1
  <2>4. a = b
    BY <2>2, <2>3 DEF Gathered
  <2>5. groups[g].key = groups[h].key
    BY <2>2, <2>3, <2>4 DEF Grouped
  <2>. QED
    BY <1>8, <2>5 DEF Grouped
<1>9. ASSUME NEW g \in DOMAIN groups PROVE ListsOnce(q, n + g)
  <2>2. Injective(groups[g].ids)
    BY DEF Grouped
  <2>3. ASSUME NEW m \in DOMAIN groups[g].ids PROVE groups[g].ids[m] \in Ids(g)
    BY DEF ToSet
  <2>4. ASSUME NEW a \in Ids(g), NEW b \in Ids(g), a # b
        PROVE  SetsThrough(q, a) \cap SetsThrough(q, b) = {}
    <3>1. Extends(p, q) /\ q \in Pools
      BY <1>3 DEF ORsMade
    <3>2. a \in DOMAIN p.ands /\ b \in DOMAIN p.ands
      BY <1>1
    <3>3. SetsThrough(q, a) = SetsThrough(p, a) /\ SetsThrough(q, b) = SetsThrough(p, b)
      BY <3>1, <3>2, SetsStay
    <3>4. <<groups[g].key, a>> \in rel /\ <<groups[g].key, b>> \in rel
      BY <1>1
    <3>. QED
      BY <2>4, <3>3, <3>4 DEF Gathered
  <2>. QED
    BY <1>4, <2>2, <2>3, <2>4 DEF ListsOnce, Injective
<1>10. /\ q \in Pools /\ Extends(p, q)
       /\ \A id \in DOMAIN q.ors : id \in DOMAIN p.ors \/ \E g \in DOMAIN groups : id = n + g
  BY <1>3 DEF ORsMade
<1>11. NodesMade(p, q, "ANDS", groups, under, D, tell, A)
  <2>1. \A g \in DOMAIN groups :
           /\ n + g \in DOMAIN q.ors
           /\ q.ors[n + g].key = under[g].key
           /\ q.ors[n + g].tag = "ANDS"
           /\ ListsOnce(q, n + g)
           /\ q.ors[n + g].daughters # <<>>
           /\ "ANDS" = "ARMORS" => ToSet(q.ors[n + g].daughters) \subseteq A
           /\ SetsOf(q, n + g) # {}
           /\ \A x \in SetsOf(q, n + g) : x \in D /\ <<groups[g].key, x>> \in tell
    BY <1>4, <1>6, <1>9
  <2>. QED
    BY <1>0, <1>7, <1>8, <1>10, <2>1, NodesFound
<1>. QED
  BY <1>11 DEF q

(* The same for nodes that list armors.                                    *)
LEMMA LeavesHold ==
  ASSUME NEW p \in Pools, NEW A, Sound(p, A),
         NEW K, NEW groups, NEW rel, Grouped(groups, K, rel), NEW D, NEW tell,
         \A k, v : <<k, v>> \in rel => v \in A /\ <<v>> \in D /\ <<k, <<v>> >> \in tell,
         \A x \in D : \E k, v : <<k, v>> \in rel /\ x = <<v>>,
         NEW under \in GroupsOf(Keys), DOMAIN under = DOMAIN groups,
         \A g \in DOMAIN groups : under[g].ids = groups[g].ids
  PROVE  NodesMade(p, MakeORs(p, "ARMORS", under), "ARMORS", groups, under, D, tell, A)
<1>. DEFINE q == MakeORs(p, "ARMORS", under)
            n == Len(p.ors)
            Ids(g) == ToSet(groups[g].ids)
<1>0. groups \in GroupsOf(K)
  BY DEF Grouped
<1>1. ASSUME NEW g \in DOMAIN groups, NEW a \in Ids(g)
      PROVE  <<groups[g].key, a>> \in rel
  BY DEF Grouped, Under
<1>3. ORsMade(p, q, "ARMORS", under)
  BY MakeORsGrows
<1>. HIDE DEF q
<1>4. ASSUME NEW g \in DOMAIN groups
      PROVE  /\ n + g \in DOMAIN q.ors
             /\ q.ors[n + g].key = under[g].key /\ q.ors[n + g].tag = "ARMORS"
             /\ q.ors[n + g].daughters = groups[g].ids
             /\ SetsOf(q, n + g) = { <<a>> : a \in Ids(g) }
  BY <1>3 DEF ORsMade
<1>5. ASSUME NEW g \in DOMAIN groups, NEW x \in SetsOf(q, n + g)
      PROVE  \E a \in Ids(g) : <<groups[g].key, a>> \in rel /\ x = <<a>>
  BY <1>1, <1>4
<1>6. ASSUME NEW g \in DOMAIN groups
      PROVE  /\ groups[g].ids # <<>>
             /\ SetsOf(q, n + g) # {}
             /\ \A x \in SetsOf(q, n + g) : x \in D /\ <<groups[g].key, x>> \in tell
  <2>1. ASSUME NEW x \in SetsOf(q, n + g) PROVE x \in D /\ <<groups[g].key, x>> \in tell
    <3>1. PICK a \in Ids(g) : <<groups[g].key, a>> \in rel /\ x = <<a>>
      BY <1>5
    <3>2. <<a>> \in D /\ <<groups[g].key, <<a>> >> \in tell
      BY <3>1
    <3>. QED
      BY <3>1, <3>2
  <2>2. groups[g].ids # <<>> /\ groups[g].ids \in Seq(Nat)
    BY <1>0, GroupFields DEF Grouped
  <2>3. groups[g].ids[1] \in Ids(g)
    BY <2>2 DEF ToSet
  <2>4. SetsOf(q, n + g) # {}
    BY <1>4, <2>3
  <2>. QED
    BY <2>1, <2>2, <2>4
<1>7. ASSUME NEW x \in D PROVE \E g \in DOMAIN groups : x \in SetsOf(q, n + g)
  <2>1. PICK k, a : <<k, a>> \in rel /\ x = <<a>>
    OBVIOUS
  <2>2. PICK g \in DOMAIN groups : groups[g].key = k
    BY <2>1 DEF Grouped
  <2>3. a \in Ids(g)
    BY <2>1, <2>2 DEF Grouped, Under
  <2>. QED
    BY <1>4, <2>1, <2>3
<1>8. ASSUME NEW g \in DOMAIN groups, NEW h \in DOMAIN groups, g # h
      PROVE  SetsOf(q, n + g) \cap SetsOf(q, n + h) = {}
  <2>1. SUFFICES ASSUME NEW x, x \in SetsOf(q, n + g), x \in SetsOf(q, n + h) PROVE FALSE
    OBVIOUS
  <2>2. PICK a \in Ids(g) : <<groups[g].key, a>> \in rel /\ x = <<a>>
    BY <1>5, <2>1
  <2>3. PICK b \in Ids(h) : <<groups[h].key, b>> \in rel /\ x = <<b>>
    BY <1>5, <2>1
  <2>4. a = b
    BY <2>2, <2>3
  <2>5. groups[g].key = groups[h].key
    BY <2>2, <2>3, <2>4 DEF Grouped
  <2>. QED
    BY <1>8, <2>5 DEF Grouped
<1>9. ASSUME NEW g \in DOMAIN groups PROVE ListsOnce(q, n + g) /\ Ids(g) \subseteq A
  <2>1. Injective(groups[g].ids)
    BY DEF Grouped
  <2>. QED
    BY <1>1, <1>4, <2>1 DEF ListsOnce, Injective
<1>10. /\ q \in Pools /\ Extends(p, q)
       /\ \A id \in DOMAIN q.ors : id \in DOMAIN p.ors \/ \E g \in DOMAIN groups : id = n + g
  BY <1>3 DEF ORsMade
<1>11. NodesMade(p, q, "ARMORS", groups, under, D, tell, A)
  <2>1. \A g \in DOMAIN groups :
           /\ n + g \in DOMAIN q.ors
           /\ q.ors[n + g].key = under[g].key
           /\ q.ors[n + g].tag = "ARMORS"
           /\ ListsOnce(q, n + g)
           /\ q.ors[n + g].daughters # <<>>
           /\ "ARMORS" = "ARMORS" => ToSet(q.ors[n + g].daughters) \subseteq A
           /\ SetsOf(q, n + g) # {}
           /\ \A x \in SetsOf(q, n + g) : x \in D /\ <<groups[g].key, x>> \in tell
    BY <1>4, <1>6, <1>9
  <2>. QED
    BY <1>0, <1>7, <1>8, <1>10, <2>1, NodesFound
<1>. QED
  BY <1>11 DEF q

-----------------------------------------------------------------------------
(* JoinAll goes through the right nodes one by one.                        *)
JoinsAll(f, acc, i, right_ors, is_body) ==
  f = [n \in 0..Len(right_ors) |->
         IF n = 0 THEN acc
         ELSE Join(f[n - 1], i, right_ors[n], is_body)]

(* What each step takes from S[n - 1] to S[n], the loop takes to the last. *)
LEMMA JoinAllLoop ==
  ASSUME NEW acc, NEW i, NEW right_ors, NEW is_body,
         Len(right_ors) \in Nat, NEW Accs, NEW S,
         \A n \in 0..Len(right_ors) : S[n] \subseteq Accs,
         acc \in S[0],
         \A n \in 1..Len(right_ors) : \A x \in S[n - 1] :
           (Join(x, i, right_ors[n], is_body)) \in S[n]
  PROVE  JoinAll(acc, i, right_ors, is_body) \in S[Len(right_ors)]
<1>. DEFINE N == Len(right_ors)
            step == [nx \in (1..N) \X Accs |-> Join(nx[2], i, right_ors[nx[1]], is_body)]
            g == CHOOSE f : JoinsAll(f, acc, i, right_ors, is_body)
<1>1. ASSUME NEW n \in 1..N, NEW x \in S[n - 1]
      PROVE  step[<<n, x>>] = (Join(x, i, right_ors[n], is_body)) /\ step[<<n, x>>] \in S[n]
  <2>1. n - 1 \in 0..N /\ x \in Accs
    OBVIOUS
  <2>2. step[<<n, x>>] = (Join(x, i, right_ors[n], is_body))
    BY <2>1
  <2>. QED
    BY <2>2
<1>. HIDE DEF step
<1>2. PICK f : FunctionUpTo(f, N) /\ Steps(f, N, acc, step) /\ Within(f, N, S)
  BY <1>1, RecursionExists
<1>3. JoinsAll(f, acc, i, right_ors, is_body)
  <2>1. ASSUME NEW n \in 0..N
        PROVE  f[n] = IF n = 0 THEN acc
                      ELSE Join(f[n - 1], i, right_ors[n], is_body)
    <3>1. CASE n = 0
      BY <1>2, <3>1, Zenon DEF Steps
    <3>2. CASE n # 0
      <4>1. n \in 1..N /\ n - 1 \in 0..N
        BY <3>2
      <4>2. f[n] = step[<<n, f[n - 1]>>] /\ f[n - 1] \in S[n - 1]
        BY <1>2, <4>1, Zenon DEF Steps, Within
      <4>3. f[n] = (Join(f[n - 1], i, right_ors[n], is_body))
        BY <1>1, <4>1, <4>2, Zenon
      <4>. QED
        BY <3>2, <4>3, Zenon
    <3>. QED
      BY <3>1, <3>2
  <2>. QED
    BY <1>2, <2>1, Zenon DEF JoinsAll, FunctionUpTo
<1>4. JoinsAll(g, acc, i, right_ors, is_body)
  BY <1>3, Zenon
<1>5. JoinAll(acc, i, right_ors, is_body) = g[N]
  BY Zenon DEF JoinAll, JoinsAll
<1>. HIDE DEF g
<1>6. ASSUME NEW n \in 1..N, g[n - 1] \in S[n - 1] PROVE g[n] = step[<<n, g[n - 1]>>]
  <2>1. n \in 0..N /\ n # 0
    OBVIOUS
  <2>2. g[n] = (Join(g[n - 1], i, right_ors[n], is_body))
    BY <1>4, <2>1, Zenon DEF JoinsAll
  <2>. QED
    BY <1>1, <1>6, <2>2, Zenon
<1>7. g[0] = acc
  <2>1. 0 \in 0..N
    OBVIOUS
  <2>. QED
    BY <1>4, <2>1, Zenon DEF JoinsAll
<1>8. \A n \in 0..N : g[n] \in S[n]
  <2>1. g[0] \in S[0]
    BY <1>7
  <2>. HIDE DEF N
  <2>2. \A m \in 1..N : \A x \in S[m - 1] : step[<<m, x>>] \in S[m]
    BY <1>1
  <2>3. \A k \in 1..N : g[k - 1] \in S[k - 1] => g[k] = step[<<k, g[k - 1]>>]
    BY <1>6
  <2>4. N \in Nat
    BY DEF N
  <2>. QED
    BY <2>1, <2>2, <2>3, <2>4, RecursionWithin
<1>. QED
  BY <1>5, <1>8

(* JoinForests goes through the left nodes one by one.                     *)
JoinsForests(f, p, left_ors, right_ors, is_body) ==
  f = [n \in 0..Len(left_ors) |->
         IF n = 0 THEN [pool |-> p, groups |-> <<>>]
         ELSE JoinAll(f[n - 1], left_ors[n], right_ors, is_body)]

(* The same for the loop of JoinForests.                                   *)
LEMMA JoinForestsLoop ==
  ASSUME NEW p, NEW left_ors, NEW right_ors, NEW is_body,
         Len(left_ors) \in Nat, NEW Accs, NEW S,
         \A n \in 0..Len(left_ors) : S[n] \subseteq Accs,
         [pool |-> p, groups |-> <<>>] \in S[0],
         \A n \in 1..Len(left_ors) : \A x \in S[n - 1] :
           (JoinAll(x, left_ors[n], right_ors, is_body)) \in S[n]
  PROVE  JoinForests(p, left_ors, right_ors, is_body) \in S[Len(left_ors)]
<1>. DEFINE N == Len(left_ors)
            step == [nx \in (1..N) \X Accs |-> JoinAll(nx[2], left_ors[nx[1]], right_ors, is_body)]
            g == CHOOSE f : JoinsForests(f, p, left_ors, right_ors, is_body)
<1>1. ASSUME NEW n \in 1..N, NEW x \in S[n - 1]
      PROVE  step[<<n, x>>] = (JoinAll(x, left_ors[n], right_ors, is_body)) /\ step[<<n, x>>] \in S[n]
  <2>1. n - 1 \in 0..N /\ x \in Accs
    OBVIOUS
  <2>2. step[<<n, x>>] = (JoinAll(x, left_ors[n], right_ors, is_body))
    BY <2>1
  <2>. QED
    BY <2>2
<1>. HIDE DEF step
<1>2. PICK f : FunctionUpTo(f, N) /\ Steps(f, N, [pool |-> p, groups |-> <<>>], step) /\ Within(f, N, S)
  BY <1>1, RecursionExists
<1>3. JoinsForests(f, p, left_ors, right_ors, is_body)
  <2>1. ASSUME NEW n \in 0..N
        PROVE  f[n] = IF n = 0 THEN [pool |-> p, groups |-> <<>>]
                      ELSE JoinAll(f[n - 1], left_ors[n], right_ors, is_body)
    <3>1. CASE n = 0
      BY <1>2, <3>1, Zenon DEF Steps
    <3>2. CASE n # 0
      <4>1. n \in 1..N /\ n - 1 \in 0..N
        BY <3>2
      <4>2. f[n] = step[<<n, f[n - 1]>>] /\ f[n - 1] \in S[n - 1]
        BY <1>2, <4>1, Zenon DEF Steps, Within
      <4>3. f[n] = (JoinAll(f[n - 1], left_ors[n], right_ors, is_body))
        BY <1>1, <4>1, <4>2, Zenon
      <4>. QED
        BY <3>2, <4>3, Zenon
    <3>. QED
      BY <3>1, <3>2
  <2>. QED
    BY <1>2, <2>1, Zenon DEF JoinsForests, FunctionUpTo
<1>4. JoinsForests(g, p, left_ors, right_ors, is_body)
  BY <1>3, Zenon
<1>5. JoinForests(p, left_ors, right_ors, is_body) = g[N]
  BY Zenon DEF JoinForests, JoinsForests
<1>. HIDE DEF g
<1>6. ASSUME NEW n \in 1..N, g[n - 1] \in S[n - 1] PROVE g[n] = step[<<n, g[n - 1]>>]
  <2>1. n \in 0..N /\ n # 0
    OBVIOUS
  <2>2. g[n] = (JoinAll(g[n - 1], left_ors[n], right_ors, is_body))
    BY <1>4, <2>1, Zenon DEF JoinsForests
  <2>. QED
    BY <1>1, <1>6, <2>2, Zenon
<1>7. g[0] = [pool |-> p, groups |-> <<>>]
  <2>1. 0 \in 0..N
    OBVIOUS
  <2>. QED
    BY <1>4, <2>1, Zenon DEF JoinsForests
<1>8. \A n \in 0..N : g[n] \in S[n]
  <2>1. g[0] \in S[0]
    BY <1>7
  <2>. HIDE DEF N
  <2>2. \A m \in 1..N : \A x \in S[m - 1] : step[<<m, x>>] \in S[m]
    BY <1>1
  <2>3. \A k \in 1..N : g[k - 1] \in S[k - 1] => g[k] = step[<<k, g[k - 1]>>]
    BY <1>6
  <2>4. N \in Nat
    BY DEF N
  <2>. QED
    BY <2>1, <2>2, <2>3, <2>4, RecursionWithin
<1>. QED
  BY <1>5, <1>8

(* ClassifyArmors goes through the parts one by one.                       *)
Classifies(f, arsenal, q) ==
  f = [n \in 0..PART_NUM |->
         IF n = 0 THEN [pool |-> EmptyPool, forests |-> <<>>]
         ELSE ClassifyPart(f[n - 1], ArmorGroups(arsenal, q, PartSeq[n]))]

(* The same for the loop of ClassifyArmors.                                *)
LEMMA ClassifyLoop ==
  ASSUME NEW arsenal, NEW q,
         PART_NUM \in Nat, NEW Accs, NEW S,
         \A n \in 0..PART_NUM : S[n] \subseteq Accs,
         [pool |-> EmptyPool, forests |-> <<>>] \in S[0],
         \A n \in 1..PART_NUM : \A x \in S[n - 1] :
           (ClassifyPart(x, ArmorGroups(arsenal, q, PartSeq[n]))) \in S[n]
  PROVE  ClassifyArmors(arsenal, q) \in S[PART_NUM]
<1>. DEFINE N == PART_NUM
            step == [nx \in (1..N) \X Accs |-> ClassifyPart(nx[2], ArmorGroups(arsenal, q, PartSeq[nx[1]]))]
            g == CHOOSE f : Classifies(f, arsenal, q)
<1>1. ASSUME NEW n \in 1..N, NEW x \in S[n - 1]
      PROVE  step[<<n, x>>] = (ClassifyPart(x, ArmorGroups(arsenal, q, PartSeq[n]))) /\ step[<<n, x>>] \in S[n]
  <2>1. n - 1 \in 0..N /\ x \in Accs
    OBVIOUS
  <2>2. step[<<n, x>>] = (ClassifyPart(x, ArmorGroups(arsenal, q, PartSeq[n])))
    BY <2>1
  <2>. QED
    BY <2>2
<1>. HIDE DEF step
<1>2. PICK f : FunctionUpTo(f, N) /\ Steps(f, N, [pool |-> EmptyPool, forests |-> <<>>], step) /\ Within(f, N, S)
  BY <1>1, RecursionExists
<1>3. Classifies(f, arsenal, q)
  <2>1. ASSUME NEW n \in 0..N
        PROVE  f[n] = IF n = 0 THEN [pool |-> EmptyPool, forests |-> <<>>]
                      ELSE ClassifyPart(f[n - 1], ArmorGroups(arsenal, q, PartSeq[n]))
    <3>1. CASE n = 0
      BY <1>2, <3>1, Zenon DEF Steps
    <3>2. CASE n # 0
      <4>1. n \in 1..N /\ n - 1 \in 0..N
        BY <3>2
      <4>2. f[n] = step[<<n, f[n - 1]>>] /\ f[n - 1] \in S[n - 1]
        BY <1>2, <4>1, Zenon DEF Steps, Within
      <4>3. f[n] = (ClassifyPart(f[n - 1], ArmorGroups(arsenal, q, PartSeq[n])))
        BY <1>1, <4>1, <4>2, Zenon
      <4>. QED
        BY <3>2, <4>3, Zenon
    <3>. QED
      BY <3>1, <3>2
  <2>. QED
    BY <1>2, <2>1, Zenon DEF Classifies, FunctionUpTo
<1>4. Classifies(g, arsenal, q)
  BY <1>3, Zenon
<1>5. ClassifyArmors(arsenal, q) = g[N]
  BY Zenon DEF ClassifyArmors, Classifies
<1>. HIDE DEF g
<1>6. ASSUME NEW n \in 1..N, g[n - 1] \in S[n - 1] PROVE g[n] = step[<<n, g[n - 1]>>]
  <2>1. n \in 0..N /\ n # 0
    OBVIOUS
  <2>2. g[n] = (ClassifyPart(g[n - 1], ArmorGroups(arsenal, q, PartSeq[n])))
    BY <1>4, <2>1, Zenon DEF Classifies
  <2>. QED
    BY <1>1, <1>6, <2>2, Zenon
<1>7. g[0] = [pool |-> EmptyPool, forests |-> <<>>]
  <2>1. 0 \in 0..N
    OBVIOUS
  <2>. QED
    BY <1>4, <2>1, Zenon DEF Classifies
<1>8. \A n \in 0..N : g[n] \in S[n]
  <2>1. g[0] \in S[0]
    BY <1>7
  <2>. HIDE DEF N
  <2>2. \A m \in 1..N : \A x \in S[m - 1] : step[<<m, x>>] \in S[m]
    BY <1>1
  <2>3. \A k \in 1..N : g[k - 1] \in S[k - 1] => g[k] = step[<<k, g[k - 1]>>]
    BY <1>6
  <2>4. N \in Nat
    BY DEF N
  <2>. QED
    BY <2>1, <2>2, <2>3, <2>4, RecursionWithin
<1>. QED
  BY <1>5, <1>8

(* ArmorGroups goes through the armors one by one.                         *)
GroupsArmors(f, arsenal, q, where) ==
  f = [n \in 0..Len(arsenal) |->
         IF n = 0 THEN <<>>
         ELSE IF OfPart(arsenal, q, where, n)
              THEN Push(f[n - 1], ArmorKey(arsenal[n], q.effects, FoundationEffects(q)), n)
              ELSE f[n - 1]]

(* The same for the loop of ArmorGroups.                                   *)
LEMMA ArmorGroupsLoop ==
  ASSUME NEW arsenal, NEW q, NEW where,
         Len(arsenal) \in Nat, NEW Accs, NEW S,
         \A n \in 0..Len(arsenal) : S[n] \subseteq Accs,
         <<>> \in S[0],
         \A n \in 1..Len(arsenal) : \A x \in S[n - 1] :
           (IF OfPart(arsenal, q, where, n)
              THEN Push(x, ArmorKey(arsenal[n], q.effects, FoundationEffects(q)), n)
              ELSE x) \in S[n]
  PROVE  ArmorGroups(arsenal, q, where) \in S[Len(arsenal)]
<1>. DEFINE N == Len(arsenal)
            step == [nx \in (1..N) \X Accs |-> IF OfPart(arsenal, q, where, nx[1])
              THEN Push(nx[2], ArmorKey(arsenal[nx[1]], q.effects, FoundationEffects(q)), nx[1])
              ELSE nx[2]]
            g == CHOOSE f : GroupsArmors(f, arsenal, q, where)
<1>1. ASSUME NEW n \in 1..N, NEW x \in S[n - 1]
      PROVE  step[<<n, x>>] = (IF OfPart(arsenal, q, where, n)
              THEN Push(x, ArmorKey(arsenal[n], q.effects, FoundationEffects(q)), n)
              ELSE x) /\ step[<<n, x>>] \in S[n]
  <2>1. n - 1 \in 0..N /\ x \in Accs
    OBVIOUS
  <2>2. step[<<n, x>>] = (IF OfPart(arsenal, q, where, n)
              THEN Push(x, ArmorKey(arsenal[n], q.effects, FoundationEffects(q)), n)
              ELSE x)
    BY <2>1
  <2>. QED
    BY <2>2
<1>. HIDE DEF step
<1>2. PICK f : FunctionUpTo(f, N) /\ Steps(f, N, <<>>, step) /\ Within(f, N, S)
  BY <1>1, RecursionExists
<1>3. GroupsArmors(f, arsenal, q, where)
  <2>1. ASSUME NEW n \in 0..N
        PROVE  f[n] = IF n = 0 THEN <<>>
                      ELSE IF OfPart(arsenal, q, where, n)
              THEN Push(f[n - 1], ArmorKey(arsenal[n], q.effects, FoundationEffects(q)), n)
              ELSE f[n - 1]
    <3>1. CASE n = 0
      BY <1>2, <3>1, Zenon DEF Steps
    <3>2. CASE n # 0
      <4>1. n \in 1..N /\ n - 1 \in 0..N
        BY <3>2
      <4>2. f[n] = step[<<n, f[n - 1]>>] /\ f[n - 1] \in S[n - 1]
        BY <1>2, <4>1, Zenon DEF Steps, Within
      <4>3. f[n] = (IF OfPart(arsenal, q, where, n)
              THEN Push(f[n - 1], ArmorKey(arsenal[n], q.effects, FoundationEffects(q)), n)
              ELSE f[n - 1])
        BY <1>1, <4>1, <4>2, Zenon
      <4>. QED
        BY <3>2, <4>3, Zenon
    <3>. QED
      BY <3>1, <3>2
  <2>. QED
    BY <1>2, <2>1, Zenon DEF GroupsArmors, FunctionUpTo
<1>4. GroupsArmors(g, arsenal, q, where)
  BY <1>3, Zenon
<1>5. ArmorGroups(arsenal, q, where) = g[N]
  BY Zenon DEF ArmorGroups, GroupsArmors
<1>. HIDE DEF g
<1>6. ASSUME NEW n \in 1..N, g[n - 1] \in S[n - 1] PROVE g[n] = step[<<n, g[n - 1]>>]
  <2>1. n \in 0..N /\ n # 0
    OBVIOUS
  <2>2. g[n] = (IF OfPart(arsenal, q, where, n)
              THEN Push(g[n - 1], ArmorKey(arsenal[n], q.effects, FoundationEffects(q)), n)
              ELSE g[n - 1])
    BY <1>4, <2>1, Zenon DEF GroupsArmors
  <2>. QED
    BY <1>1, <1>6, <2>2, Zenon
<1>7. g[0] = <<>>
  <2>1. 0 \in 0..N
    OBVIOUS
  <2>. QED
    BY <1>4, <2>1, Zenon DEF GroupsArmors
<1>8. \A n \in 0..N : g[n] \in S[n]
  <2>1. g[0] \in S[0]
    BY <1>7
  <2>. HIDE DEF N
  <2>2. \A m \in 1..N : \A x \in S[m - 1] : step[<<m, x>>] \in S[m]
    BY <1>1
  <2>3. \A k \in 1..N : g[k - 1] \in S[k - 1] => g[k] = step[<<k, g[k - 1]>>]
    BY <1>6
  <2>4. N \in Nat
    BY DEF N
  <2>. QED
    BY <2>1, <2>2, <2>3, <2>4, RecursionWithin
<1>. QED
  BY <1>5, <1>8

(* ByPoints goes through the armors of a list one by one.                  *)
GroupsByPoints(f, s, ids, mult) ==
  f = [n \in 0..Len(ids) |->
         IF n = 0 THEN <<>>
         ELSE Push(f[n - 1], ArmorPoints(s, ids[n], mult), ids[n])]

(* The same for the loop of ByPoints.                                      *)
LEMMA ByPointsLoop ==
  ASSUME NEW s, NEW ids, NEW mult,
         Len(ids) \in Nat, NEW Accs, NEW S,
         \A n \in 0..Len(ids) : S[n] \subseteq Accs,
         <<>> \in S[0],
         \A n \in 1..Len(ids) : \A x \in S[n - 1] :
           (Push(x, ArmorPoints(s, ids[n], mult), ids[n])) \in S[n]
  PROVE  ByPoints(s, ids, mult) \in S[Len(ids)]
<1>. DEFINE N == Len(ids)
            step == [nx \in (1..N) \X Accs |-> Push(nx[2], ArmorPoints(s, ids[nx[1]], mult), ids[nx[1]])]
            g == CHOOSE f : GroupsByPoints(f, s, ids, mult)
<1>1. ASSUME NEW n \in 1..N, NEW x \in S[n - 1]
      PROVE  step[<<n, x>>] = (Push(x, ArmorPoints(s, ids[n], mult), ids[n])) /\ step[<<n, x>>] \in S[n]
  <2>1. n - 1 \in 0..N /\ x \in Accs
    OBVIOUS
  <2>2. step[<<n, x>>] = (Push(x, ArmorPoints(s, ids[n], mult), ids[n]))
    BY <2>1
  <2>. QED
    BY <2>2
<1>. HIDE DEF step
<1>2. PICK f : FunctionUpTo(f, N) /\ Steps(f, N, <<>>, step) /\ Within(f, N, S)
  BY <1>1, RecursionExists
<1>3. GroupsByPoints(f, s, ids, mult)
  <2>1. ASSUME NEW n \in 0..N
        PROVE  f[n] = IF n = 0 THEN <<>>
                      ELSE Push(f[n - 1], ArmorPoints(s, ids[n], mult), ids[n])
    <3>1. CASE n = 0
      BY <1>2, <3>1, Zenon DEF Steps
    <3>2. CASE n # 0
      <4>1. n \in 1..N /\ n - 1 \in 0..N
        BY <3>2
      <4>2. f[n] = step[<<n, f[n - 1]>>] /\ f[n - 1] \in S[n - 1]
        BY <1>2, <4>1, Zenon DEF Steps, Within
      <4>3. f[n] = (Push(f[n - 1], ArmorPoints(s, ids[n], mult), ids[n]))
        BY <1>1, <4>1, <4>2, Zenon
      <4>. QED
        BY <3>2, <4>3, Zenon
    <3>. QED
      BY <3>1, <3>2
  <2>. QED
    BY <1>2, <2>1, Zenon DEF GroupsByPoints, FunctionUpTo
<1>4. GroupsByPoints(g, s, ids, mult)
  BY <1>3, Zenon
<1>5. ByPoints(s, ids, mult) = g[N]
  BY Zenon DEF ByPoints, GroupsByPoints
<1>. HIDE DEF g
<1>6. ASSUME NEW n \in 1..N, g[n - 1] \in S[n - 1] PROVE g[n] = step[<<n, g[n - 1]>>]
  <2>1. n \in 0..N /\ n # 0
    OBVIOUS
  <2>2. g[n] = (Push(g[n - 1], ArmorPoints(s, ids[n], mult), ids[n]))
    BY <1>4, <2>1, Zenon DEF GroupsByPoints
  <2>. QED
    BY <1>1, <1>6, <2>2, Zenon
<1>7. g[0] = <<>>
  <2>1. 0 \in 0..N
    OBVIOUS
  <2>. QED
    BY <1>4, <2>1, Zenon DEF GroupsByPoints
<1>8. \A n \in 0..N : g[n] \in S[n]
  <2>1. g[0] \in S[0]
    BY <1>7
  <2>. HIDE DEF N
  <2>2. \A m \in 1..N : \A x \in S[m - 1] : step[<<m, x>>] \in S[m]
    BY <1>1
  <2>3. \A k \in 1..N : g[k - 1] \in S[k - 1] => g[k] = step[<<k, g[k - 1]>>]
    BY <1>6
  <2>4. N \in Nat
    BY DEF N
  <2>. QED
    BY <2>1, <2>2, <2>3, <2>4, RecursionWithin
<1>. QED
  BY <1>5, <1>8

(* PairAll goes through the trees on the right one by one.                 *)
PairsAll(f, acc, left_id, points, items, sub_min) ==
  f = [n \in 0..Len(items) |->
         IF n = 0 THEN acc
         ELSE Pair(f[n - 1], left_id, points, items[n], sub_min)]

(* The same for the loop of PairAll.                                       *)
LEMMA PairAllLoop ==
  ASSUME NEW acc, NEW left_id, NEW points, NEW items, NEW sub_min,
         Len(items) \in Nat, NEW Accs, NEW S,
         \A n \in 0..Len(items) : S[n] \subseteq Accs,
         acc \in S[0],
         \A n \in 1..Len(items) : \A x \in S[n - 1] :
           (Pair(x, left_id, points, items[n], sub_min)) \in S[n]
  PROVE  PairAll(acc, left_id, points, items, sub_min) \in S[Len(items)]
<1>. DEFINE N == Len(items)
            step == [nx \in (1..N) \X Accs |-> Pair(nx[2], left_id, points, items[nx[1]], sub_min)]
            g == CHOOSE f : PairsAll(f, acc, left_id, points, items, sub_min)
<1>1. ASSUME NEW n \in 1..N, NEW x \in S[n - 1]
      PROVE  step[<<n, x>>] = (Pair(x, left_id, points, items[n], sub_min)) /\ step[<<n, x>>] \in S[n]
  <2>1. n - 1 \in 0..N /\ x \in Accs
    OBVIOUS
  <2>2. step[<<n, x>>] = (Pair(x, left_id, points, items[n], sub_min))
    BY <2>1
  <2>. QED
    BY <2>2
<1>. HIDE DEF step
<1>2. PICK f : FunctionUpTo(f, N) /\ Steps(f, N, acc, step) /\ Within(f, N, S)
  BY <1>1, RecursionExists
<1>3. PairsAll(f, acc, left_id, points, items, sub_min)
  <2>1. ASSUME NEW n \in 0..N
        PROVE  f[n] = IF n = 0 THEN acc
                      ELSE Pair(f[n - 1], left_id, points, items[n], sub_min)
    <3>1. CASE n = 0
      BY <1>2, <3>1, Zenon DEF Steps
    <3>2. CASE n # 0
      <4>1. n \in 1..N /\ n - 1 \in 0..N
        BY <3>2
      <4>2. f[n] = step[<<n, f[n - 1]>>] /\ f[n - 1] \in S[n - 1]
        BY <1>2, <4>1, Zenon DEF Steps, Within
      <4>3. f[n] = (Pair(f[n - 1], left_id, points, items[n], sub_min))
        BY <1>1, <4>1, <4>2, Zenon
      <4>. QED
        BY <3>2, <4>3, Zenon
    <3>. QED
      BY <3>1, <3>2
  <2>. QED
    BY <1>2, <2>1, Zenon DEF PairsAll, FunctionUpTo
<1>4. PairsAll(g, acc, left_id, points, items, sub_min)
  BY <1>3, Zenon
<1>5. PairAll(acc, left_id, points, items, sub_min) = g[N]
  BY Zenon DEF PairAll, PairsAll
<1>. HIDE DEF g
<1>6. ASSUME NEW n \in 1..N, g[n - 1] \in S[n - 1] PROVE g[n] = step[<<n, g[n - 1]>>]
  <2>1. n \in 0..N /\ n # 0
    OBVIOUS
  <2>2. g[n] = (Pair(g[n - 1], left_id, points, items[n], sub_min))
    BY <1>4, <2>1, Zenon DEF PairsAll
  <2>. QED
    BY <1>1, <1>6, <2>2, Zenon
<1>7. g[0] = acc
  <2>1. 0 \in 0..N
    OBVIOUS
  <2>. QED
    BY <1>4, <2>1, Zenon DEF PairsAll
<1>8. \A n \in 0..N : g[n] \in S[n]
  <2>1. g[0] \in S[0]
    BY <1>7
  <2>. HIDE DEF N
  <2>2. \A m \in 1..N : \A x \in S[m - 1] : step[<<m, x>>] \in S[m]
    BY <1>1
  <2>3. \A k \in 1..N : g[k - 1] \in S[k - 1] => g[k] = step[<<k, g[k - 1]>>]
    BY <1>6
  <2>4. N \in Nat
    BY DEF N
  <2>. QED
    BY <2>1, <2>2, <2>3, <2>4, RecursionWithin
<1>. QED
  BY <1>5, <1>8

(* PairGroups goes through the groups of armors one by one.                *)
PairsGroups(f, acc, s, left_key, armors, right, sub_min) ==
  f = [n \in 0..Len(armors) |->
         IF n = 0 THEN acc
         ELSE PairGroup(f[n - 1], s, left_key, armors[n], right, sub_min)]

(* The same for the loop of PairGroups.                                    *)
LEMMA PairGroupsLoop ==
  ASSUME NEW acc, NEW s, NEW left_key, NEW armors, NEW right, NEW sub_min,
         Len(armors) \in Nat, NEW Accs, NEW S,
         \A n \in 0..Len(armors) : S[n] \subseteq Accs,
         acc \in S[0],
         \A n \in 1..Len(armors) : \A x \in S[n - 1] :
           (PairGroup(x, s, left_key, armors[n], right, sub_min)) \in S[n]
  PROVE  PairGroups(acc, s, left_key, armors, right, sub_min) \in S[Len(armors)]
<1>. DEFINE N == Len(armors)
            step == [nx \in (1..N) \X Accs |-> PairGroup(nx[2], s, left_key, armors[nx[1]], right, sub_min)]
            g == CHOOSE f : PairsGroups(f, acc, s, left_key, armors, right, sub_min)
<1>1. ASSUME NEW n \in 1..N, NEW x \in S[n - 1]
      PROVE  step[<<n, x>>] = (PairGroup(x, s, left_key, armors[n], right, sub_min)) /\ step[<<n, x>>] \in S[n]
  <2>1. n - 1 \in 0..N /\ x \in Accs
    OBVIOUS
  <2>2. step[<<n, x>>] = (PairGroup(x, s, left_key, armors[n], right, sub_min))
    BY <2>1
  <2>. QED
    BY <2>2
<1>. HIDE DEF step
<1>2. PICK f : FunctionUpTo(f, N) /\ Steps(f, N, acc, step) /\ Within(f, N, S)
  BY <1>1, RecursionExists
<1>3. PairsGroups(f, acc, s, left_key, armors, right, sub_min)
  <2>1. ASSUME NEW n \in 0..N
        PROVE  f[n] = IF n = 0 THEN acc
                      ELSE PairGroup(f[n - 1], s, left_key, armors[n], right, sub_min)
    <3>1. CASE n = 0
      BY <1>2, <3>1, Zenon DEF Steps
    <3>2. CASE n # 0
      <4>1. n \in 1..N /\ n - 1 \in 0..N
        BY <3>2
      <4>2. f[n] = step[<<n, f[n - 1]>>] /\ f[n - 1] \in S[n - 1]
        BY <1>2, <4>1, Zenon DEF Steps, Within
      <4>3. f[n] = (PairGroup(f[n - 1], s, left_key, armors[n], right, sub_min))
        BY <1>1, <4>1, <4>2, Zenon
      <4>. QED
        BY <3>2, <4>3, Zenon
    <3>. QED
      BY <3>1, <3>2
  <2>. QED
    BY <1>2, <2>1, Zenon DEF PairsGroups, FunctionUpTo
<1>4. PairsGroups(g, acc, s, left_key, armors, right, sub_min)
  BY <1>3, Zenon
<1>5. PairGroups(acc, s, left_key, armors, right, sub_min) = g[N]
  BY Zenon DEF PairGroups, PairsGroups
<1>. HIDE DEF g
<1>6. ASSUME NEW n \in 1..N, g[n - 1] \in S[n - 1] PROVE g[n] = step[<<n, g[n - 1]>>]
  <2>1. n \in 0..N /\ n # 0
    OBVIOUS
  <2>2. g[n] = (PairGroup(g[n - 1], s, left_key, armors[n], right, sub_min))
    BY <1>4, <2>1, Zenon DEF PairsGroups
  <2>. QED
    BY <1>1, <1>6, <2>2, Zenon
<1>7. g[0] = acc
  <2>1. 0 \in 0..N
    OBVIOUS
  <2>. QED
    BY <1>4, <2>1, Zenon DEF PairsGroups
<1>8. \A n \in 0..N : g[n] \in S[n]
  <2>1. g[0] \in S[0]
    BY <1>7
  <2>. HIDE DEF N
  <2>2. \A m \in 1..N : \A x \in S[m - 1] : step[<<m, x>>] \in S[m]
    BY <1>1
  <2>3. \A k \in 1..N : g[k - 1] \in S[k - 1] => g[k] = step[<<k, g[k - 1]>>]
    BY <1>6
  <2>4. N \in Nat
    BY DEF N
  <2>. QED
    BY <2>1, <2>2, <2>3, <2>4, RecursionWithin
<1>. QED
  BY <1>5, <1>8

(* SplitAnds goes through the AND nodes one by one.                        *)
SplitsAnds(f, p, s, ands, sub_min, mult, split) ==
  f = [n \in 0..Len(ands) |->
         IF n = 0 THEN [pool |-> p, groups |-> <<>>]
         ELSE SplitAnd(f[n - 1], s, ands[n], sub_min, mult, split)]

(* The same for the loop of SplitAnds.                                     *)
LEMMA SplitAndsLoop ==
  ASSUME NEW p, NEW s, NEW ands, NEW sub_min, NEW mult, NEW split,
         Len(ands) \in Nat, NEW Accs, NEW S,
         \A n \in 0..Len(ands) : S[n] \subseteq Accs,
         [pool |-> p, groups |-> <<>>] \in S[0],
         \A n \in 1..Len(ands) : \A x \in S[n - 1] :
           (SplitAnd(x, s, ands[n], sub_min, mult, split)) \in S[n]
  PROVE  SplitAnds(p, s, ands, sub_min, mult, split) \in S[Len(ands)]
<1>. DEFINE N == Len(ands)
            step == [nx \in (1..N) \X Accs |-> SplitAnd(nx[2], s, ands[nx[1]], sub_min, mult, split)]
            g == CHOOSE f : SplitsAnds(f, p, s, ands, sub_min, mult, split)
<1>1. ASSUME NEW n \in 1..N, NEW x \in S[n - 1]
      PROVE  step[<<n, x>>] = (SplitAnd(x, s, ands[n], sub_min, mult, split)) /\ step[<<n, x>>] \in S[n]
  <2>1. n - 1 \in 0..N /\ x \in Accs
    OBVIOUS
  <2>2. step[<<n, x>>] = (SplitAnd(x, s, ands[n], sub_min, mult, split))
    BY <2>1
  <2>. QED
    BY <2>2
<1>. HIDE DEF step
<1>2. PICK f : FunctionUpTo(f, N) /\ Steps(f, N, [pool |-> p, groups |-> <<>>], step) /\ Within(f, N, S)
  BY <1>1, RecursionExists
<1>3. SplitsAnds(f, p, s, ands, sub_min, mult, split)
  <2>1. ASSUME NEW n \in 0..N
        PROVE  f[n] = IF n = 0 THEN [pool |-> p, groups |-> <<>>]
                      ELSE SplitAnd(f[n - 1], s, ands[n], sub_min, mult, split)
    <3>1. CASE n = 0
      BY <1>2, <3>1, Zenon DEF Steps
    <3>2. CASE n # 0
      <4>1. n \in 1..N /\ n - 1 \in 0..N
        BY <3>2
      <4>2. f[n] = step[<<n, f[n - 1]>>] /\ f[n - 1] \in S[n - 1]
        BY <1>2, <4>1, Zenon DEF Steps, Within
      <4>3. f[n] = (SplitAnd(f[n - 1], s, ands[n], sub_min, mult, split))
        BY <1>1, <4>1, <4>2, Zenon
      <4>. QED
        BY <3>2, <4>3, Zenon
    <3>. QED
      BY <3>1, <3>2
  <2>. QED
    BY <1>2, <2>1, Zenon DEF SplitsAnds, FunctionUpTo
<1>4. SplitsAnds(g, p, s, ands, sub_min, mult, split)
  BY <1>3, Zenon
<1>5. SplitAnds(p, s, ands, sub_min, mult, split) = g[N]
  BY Zenon DEF SplitAnds, SplitsAnds
<1>. HIDE DEF g
<1>6. ASSUME NEW n \in 1..N, g[n - 1] \in S[n - 1] PROVE g[n] = step[<<n, g[n - 1]>>]
  <2>1. n \in 0..N /\ n # 0
    OBVIOUS
  <2>2. g[n] = (SplitAnd(g[n - 1], s, ands[n], sub_min, mult, split))
    BY <1>4, <2>1, Zenon DEF SplitsAnds
  <2>. QED
    BY <1>1, <1>6, <2>2, Zenon
<1>7. g[0] = [pool |-> p, groups |-> <<>>]
  <2>1. 0 \in 0..N
    OBVIOUS
  <2>. QED
    BY <1>4, <2>1, Zenon DEF SplitsAnds
<1>8. \A n \in 0..N : g[n] \in S[n]
  <2>1. g[0] \in S[0]
    BY <1>7
  <2>. HIDE DEF N
  <2>2. \A m \in 1..N : \A x \in S[m - 1] : step[<<m, x>>] \in S[m]
    BY <1>1
  <2>3. \A k \in 1..N : g[k - 1] \in S[k - 1] => g[k] = step[<<k, g[k - 1]>>]
    BY <1>6
  <2>4. N \in Nat
    BY DEF N
  <2>. QED
    BY <2>1, <2>2, <2>3, <2>4, RecursionWithin
<1>. QED
  BY <1>5, <1>8

-----------------------------------------------------------------------------
(* An id in front of a sequence.                                           *)
Led(i, x) == <<i>> \o x

(* Its length and its elements.                                            *)
LEMMA InFront ==
  ASSUME NEW A, NEW i \in A, NEW x \in Seq(A)
  PROVE  /\ Led(i, x) \in Seq(A)
         /\ Len(Led(i, x)) = Len(x) + 1
         /\ Led(i, x)[1] = i
         /\ \A n \in 1..Len(x) : Led(i, x)[n + 1] = x[n]
         /\ DOMAIN Led(i, x) = 1..(Len(x) + 1)
         /\ Len(x) \in Nat
<1>. DEFINE one == <<i>>
<1>1. one \in Seq(A) /\ Len(one) = 1 /\ one[1] = i
  OBVIOUS
<1>. HIDE DEF one
<1>2. /\ one \o x \in Seq(A)
      /\ Len(one \o x) = Len(one) + Len(x)
      /\ \A k \in 1 .. Len(one) + Len(x) : (one \o x)[k] =
              IF k <= Len(one) THEN one[k] ELSE x[k - Len(one)]
  BY <1>1, ConcatProperties, Zenon
<1>3. Len(x) \in Nat
  OBVIOUS
<1>4. Len(one \o x) = Len(x) + 1
  BY <1>1, <1>2, <1>3
<1>5. DOMAIN (one \o x) = 1..(Len(x) + 1)
  BY <1>2, <1>4, LenProperties
<1>6. (one \o x)[1] = i
  BY <1>1, <1>2, <1>3
<1>7. ASSUME NEW n \in 1..Len(x) PROVE (one \o x)[n + 1] = x[n]
  <2>1. n + 1 \in 1 .. Len(one) + Len(x) /\ ~(n + 1 <= Len(one)) /\ (n + 1) - Len(one) = n
    BY <1>1, <1>3
  <2>. QED
    BY <1>2, <2>1
<1>. QED
  BY <1>2, <1>3, <1>4, <1>5, <1>6, <1>7 DEF one, Led

(* z is x with i before it.                                                *)
Leads(z, i, x) ==
  /\ z[1] = i /\ Len(z) = Len(x) + 1 /\ Len(x) \in Nat
  /\ \A n \in 1..Len(x) : z[n + 1] = x[n]

(* The same, as a predicate.                                               *)
LEMMA InFrontOf == \A A : \A i \in A : \A x \in Seq(A) : Leads(Led(i, x), i, x)
<1>. SUFFICES ASSUME NEW A, NEW i \in A, NEW x \in Seq(A)
              PROVE  Leads(Led(i, x), i, x)
  OBVIOUS
<1>1. Len(Led(i, x)) = Len(x) + 1 /\ Led(i, x)[1] = i /\ Len(x) \in Nat
  BY InFront
<1>2. \A n \in 1..Len(x) : Led(i, x)[n + 1] = x[n]
  BY InFront
<1>. QED
  BY <1>1, <1>2, Zenon DEF Leads

(* The front and the rest can be told from the whole.                      *)
LEMMA FrontsDiffer ==
  ASSUME NEW A, NEW i \in A, NEW j \in A, NEW x \in Seq(A), NEW y \in Seq(A)
  PROVE  Led(i, x) = Led(j, y) => i = j /\ x = y
<1>1. /\ Led(i, x)[1] = i /\ Len(Led(i, x)) = Len(x) + 1 /\ Len(x) \in Nat
      /\ \A n \in 1..Len(x) : Led(i, x)[n + 1] = x[n]
  <2>1. Leads(Led(i, x), i, x)
    BY InFrontOf
  <2>. QED
    BY <2>1 DEF Leads
<1>2. /\ Led(j, y)[1] = j /\ Len(Led(j, y)) = Len(y) + 1 /\ Len(y) \in Nat
      /\ \A n \in 1..Len(y) : Led(j, y)[n + 1] = y[n]
  <2>1. Leads(Led(j, y), j, y)
    BY InFrontOf
  <2>. QED
    BY <2>1 DEF Leads
<1>3. ASSUME Led(i, x) = Led(j, y) PROVE i = j /\ x = y
  <2>1. i = j /\ Len(x) = Len(y)
    BY <1>1, <1>2, <1>3
  <2>2. \A n \in 1..Len(x) : x[n] = y[n]
    BY <1>1, <1>2, <1>3, <2>1
  <2>3. x = y
    BY <2>1, <2>2, SeqEqual
  <2>. QED
    BY <2>1, <2>3
<1>. QED
  BY <1>3

(* The members of Prefixed.                                                *)
LEMMA PrefixedBy ==
  ASSUME NEW I, NEW S
  PROVE  \A z : z \in Prefixed(I, S) <=> \E i \in I : \E x \in S : z = Led(i, x)
<1>1. \A z : z \in Prefixed(I, S) <=> \E i \in I : \E x \in S : z = <<i>> \o x
  BY DEF Prefixed
<1>. QED
  BY <1>1, Zenon DEF Led

(* Prefixed of a union on the right.                                       *)
LEMMA PrefixedRight ==
  ASSUME NEW I, NEW S, NEW T
  PROVE  Prefixed(I, S \union T) = Prefixed(I, S) \union Prefixed(I, T)
<1>1. \A z : z \in Prefixed(I, S \union T) <=> z \in Prefixed(I, S) \union Prefixed(I, T)
  BY PrefixedBy
<1>. QED
  BY <1>1

(* Prefixed of a union on the left.                                        *)
LEMMA PrefixedLeft ==
  ASSUME NEW I, NEW J, NEW S
  PROVE  Prefixed(I \union J, S) = Prefixed(I, S) \union Prefixed(J, S)
<1>1. \A z : z \in Prefixed(I \union J, S) <=> z \in Prefixed(I, S) \union Prefixed(J, S)
  BY PrefixedBy
<1>. QED
  BY <1>1

(* Prefixed of nothing.                                                    *)
LEMMA PrefixedNone ==
  ASSUME NEW S PROVE Prefixed({}, S) = {} /\ Prefixed(S, {}) = {}
  BY PrefixedBy

(* Prefixed of ids and sequences of A.                                     *)
LEMMA PrefixedIs ==
  ASSUME NEW A, NEW I, I \subseteq A, NEW S, S \subseteq Seq(A)
  PROVE  /\ Prefixed(I, S) \subseteq Seq(A)
         /\ \A i \in A : \A x \in Seq(A) : Led(i, x) \in Prefixed(I, S) <=> i \in I /\ x \in S
         /\ I # {} /\ S # {} => Prefixed(I, S) # {}
<1>2. ASSUME NEW z \in Prefixed(I, S) PROVE z \in Seq(A)
  <2>1. PICK i \in I : \E x \in S : z = Led(i, x)
    BY PrefixedBy
  <2>2. PICK x \in S : z = Led(i, x)
    BY <2>1
  <2>. QED
    BY <2>2, InFront
<1>3. ASSUME NEW i \in A, NEW x \in Seq(A)
      PROVE  Led(i, x) \in Prefixed(I, S) <=> i \in I /\ x \in S
  <2>1. ASSUME Led(i, x) \in Prefixed(I, S) PROVE i \in I /\ x \in S
    <3>1. PICK j \in I : \E y \in S : Led(i, x) = Led(j, y)
      BY <2>1, PrefixedBy
    <3>2. PICK y \in S : Led(i, x) = Led(j, y)
      BY <3>1
    <3>3. i = j /\ x = y
      BY <3>2, FrontsDiffer
    <3>. QED
      BY <3>3
  <2>. QED
    BY <2>1, PrefixedBy
<1>4. ASSUME I # {}, S # {} PROVE Prefixed(I, S) # {}
  <2>1. PICK i : i \in I
    BY <1>4
  <2>2. PICK x : x \in S
    BY <1>4
  <2>3. Led(i, x) \in Prefixed(I, S)
    BY <2>1, <2>2, PrefixedBy
  <2>. QED
    BY <2>3
<1>. QED
  BY <1>2, <1>3, <1>4

(* Disjoint fronts, or disjoint rests, make disjoint sets.                 *)
LEMMA PrefixedApart ==
  ASSUME NEW A, NEW I, I \subseteq A, NEW J, J \subseteq A,
         NEW S, S \subseteq Seq(A), NEW T, T \subseteq Seq(A),
         I \cap J = {} \/ S \cap T = {}
  PROVE  Prefixed(I, S) \cap Prefixed(J, T) = {}
<1>1. SUFFICES ASSUME NEW z, z \in Prefixed(I, S), z \in Prefixed(J, T) PROVE FALSE
  OBVIOUS
<1>2. PICK i \in I : \E x \in S : z = Led(i, x)
  BY <1>1, PrefixedBy
<1>3. PICK x \in S : z = Led(i, x)
  BY <1>2
<1>4. PICK j \in J : \E y \in T : z = Led(j, y)
  BY <1>1, PrefixedBy
<1>5. PICK y \in T : z = Led(j, y)
  BY <1>4
<1>6. i \in A /\ j \in A /\ x \in Seq(A) /\ y \in Seq(A) /\ Led(i, x) = Led(j, y)
  BY <1>3, <1>5
<1>7. i = j /\ x = y
  BY <1>6, FrontsDiffer
<1>. QED
  BY <1>7

(* Sequences of one element.                                               *)
LEMMA Singles ==
  ASSUME NEW A, NEW I \in SUBSET A
  PROVE  /\ { <<a>> : a \in I } \subseteq Seq(A)
         /\ I # {} => { <<a>> : a \in I } # {}
<1>1. \A a \in A : <<a>> \in Seq(A)
  OBVIOUS
<1>. QED
  BY <1>1

(* A list that is not empty lists something.                               *)
LEMMA ListsSomething ==
  ASSUME NEW ids \in Seq(Nat), ids # <<>>
  PROVE  ids[1] \in ToSet(ids) /\ ToSet(ids) # {}
<1>1. ids[1] \in ToSet(ids)
  BY DEF ToSet
<1>. QED
  BY <1>1

-----------------------------------------------------------------------------
(* What is below a node of a sound pool: some sequences of A.              *)
LEMMA SetsAreThere ==
  ASSUME NEW p \in Pools, NEW A \in SUBSET Nat, Sound(p, A)
  PROVE  \A id \in DOMAIN p.ors : SetsOf(p, id) \subseteq Seq(A) /\ SetsOf(p, id) # {}
<1>. DEFINE N == Len(p.ors)
            T == { k \in 0..N : \A id \in 1..k : SetsOf(p, id) \subseteq Seq(A) /\ SetsOf(p, id) # {} }
<1>1. N \in Nat /\ DOMAIN p.ors = 1..N
  BY PoolParts
<1>2. 0 \in T
  BY <1>1
<1>3. ASSUME NEW k \in 1..N, k - 1 \in T PROVE k \in T
  <2>1. k \in DOMAIN p.ors
    BY <1>1
  <2>. DEFINE ds == p.ors[k].daughters
  <2>2. ds \in Seq(Nat) /\ ds # <<>>
    BY <2>1, OrParts DEF Sound
  <2>3. ToSet(ds) # {}
    BY <2>2, ListsSomething
  <2>4. SetsOf(p, k) \subseteq Seq(A) /\ SetsOf(p, k) # {}
    <3>1. CASE p.ors[k].tag = "ARMORS"
      <4>1. SetsOf(p, k) = { <<a>> : a \in ToSet(ds) }
        BY <2>1, <3>1, SetsUnfold
      <4>2. ToSet(ds) \subseteq A
        BY <2>1, <3>1 DEF Sound
      <4>. HIDE DEF ds
      <4>. QED
        BY <2>3, <4>1, <4>2, Singles
    <3>2. CASE p.ors[k].tag = "ANDS"
      <4>1. SetsOf(p, k) = UNION { SetsThrough(p, a) : a \in ToSet(ds) }
        BY <2>1, <3>2, SetsUnfold
      <4>2. ASSUME NEW a \in ToSet(ds)
            PROVE  SetsThrough(p, a) \subseteq Seq(A) /\ SetsThrough(p, a) # {}
        <5>1. a \in DOMAIN p.ands /\ p.ands[a].right < k
          BY <2>1, <3>2, OrParts
        <5>. DEFINE l == p.ands[a].left
                    r == p.ands[a].right
        <5>2. l \in DOMAIN p.ors /\ r \in 1..(k - 1) /\ p.ors[l].tag = "ARMORS"
          BY <1>1, <5>1, AndParts
        <5>3. SetsOf(p, r) \subseteq Seq(A) /\ SetsOf(p, r) # {}
          BY <1>3, <5>2
        <5>4. ToSet(p.ors[l].daughters) \subseteq A /\ p.ors[l].daughters # <<>>
              /\ p.ors[l].daughters \in Seq(Nat)
          BY <5>2, OrParts DEF Sound
        <5>5. ToSet(p.ors[l].daughters) # {}
          BY <5>4, ListsSomething
        <5>6. SetsThrough(p, a) = Prefixed(ToSet(p.ors[l].daughters), SetsOf(p, r))
          BY DEF SetsThrough, LeftIds
        <5>. DEFINE I == ToSet(p.ors[l].daughters)
                    S == SetsOf(p, r)
        <5>7. I \subseteq A /\ S \subseteq Seq(A) /\ I # {} /\ S # {}
          BY <5>3, <5>4, <5>5
        <5>. HIDE DEF I, S
        <5>8. Prefixed(I, S) \subseteq Seq(A) /\ Prefixed(I, S) # {}
          BY <5>7, PrefixedIs
        <5>. QED
          BY <5>6, <5>8 DEF I, S
      <4>. QED
        BY <2>3, <4>1, <4>2
    <3>. QED
      BY <2>1, <3>1, <3>2, OrParts
  <2>5. \A id \in 1..k : id \in 1..(k - 1) \/ id = k
    BY <1>1
  <2>. QED
    BY <1>1, <1>3, <2>4, <2>5
<1>4. N \in T
  <2>. HIDE DEF T
  <2>1. \A k \in 0..N : k \in T
    BY <1>1, <1>2, <1>3, IntervalInduction
  <2>. QED
    BY <1>1, <2>1
<1>. QED
  BY <1>1, <1>4

-----------------------------------------------------------------------------
(* The sets below the first n of a list of nodes.                          *)
Covered(p, ids, n) == UNION { SetsOf(p, ids[k]) : k \in 1..n }

(* One more node of the list.                                              *)
LEMMA CoveredNext ==
  ASSUME NEW p, NEW ids, NEW n \in Nat, n # 0
  PROVE  Covered(p, ids, n) = Covered(p, ids, n - 1) \union SetsOf(p, ids[n])
<1>1. \A k : k \in 1..n <=> k \in 1..(n - 1) \/ k = n
  OBVIOUS
<1>. QED
  BY <1>1 DEF Covered

(* All the nodes hold D.                                                   *)
LEMMA CoveredAll ==
  ASSUME NEW p, NEW ids, NEW D, Holds(p, ids, D)
  PROVE  Covered(p, ids, Len(ids)) = D
<1>1. DOMAIN ids = 1..Len(ids)
  BY DEF Holds
<1>. QED
  BY <1>1 DEF Holds, Covered

(* What a merge of lefts and rights starts from: an id of I goes in front  *)
(* of the sets of D.                                                       *)
MergeReady(p, lefts, rights, is_body, I, D, tell, A) ==
  /\ p \in Pools /\ A \in SUBSET Nat /\ Sound(p, A)
  /\ I \in SUBSET A /\ D \in SUBSET Seq(A)
  /\ Holds(p, lefts, { <<a>> : a \in I })
  /\ \A m \in DOMAIN lefts : p.ors[lefts[m]].tag = "ARMORS"
  /\ Holds(p, rights, D)
  /\ \A m \in DOMAIN lefts, n \in DOMAIN rights :
       /\ JoinedKey(p, lefts[m], rights[n], is_body) \in Keys
       /\ \A a \in ToSet(p.ors[lefts[m]].daughters), y \in SetsOf(p, rights[n]) :
            <<JoinedKey(p, lefts[m], rights[n], is_body), Led(a, y)>> \in tell

Lefts(p, ids, n) == UNION { ToSet(p.ors[ids[k]].daughters) : k \in 1..n }

(* The ids that one more leaf lists.                                       *)
LEMMA LeftsNext ==
  ASSUME NEW p, NEW ids, NEW n \in Nat, n # 0
  PROVE  Lefts(p, ids, n) = Lefts(p, ids, n - 1) \union ToSet(p.ors[ids[n]].daughters)
<1>1. \A k : k \in 1..n <=> k \in 1..(n - 1) \/ k = n
  OBVIOUS
<1>. QED
  BY <1>1 DEF Lefts

(* The leaves on the left: they list the ids of I, each one once.          *)
LEMMA LeftsAre ==
  ASSUME NEW p \in Pools, NEW ids, NEW I,
         Holds(p, ids, { <<a>> : a \in I }),
         \A m \in DOMAIN ids : p.ors[ids[m]].tag = "ARMORS"
  PROVE  /\ Lefts(p, ids, Len(ids)) = I
         /\ \A m \in DOMAIN ids : ids[m] \in DOMAIN p.ors /\ ToSet(p.ors[ids[m]].daughters) \subseteq I
         /\ \A m, n \in DOMAIN ids : m # n =>
              ToSet(p.ors[ids[m]].daughters) \cap ToSet(p.ors[ids[n]].daughters) = {}
<1>1. DOMAIN ids = 1..Len(ids) /\ \A m \in DOMAIN ids : ids[m] \in DOMAIN p.ors
  BY DEF Holds
<1>2. ASSUME NEW m \in DOMAIN ids
      PROVE  SetsOf(p, ids[m]) = { <<a>> : a \in ToSet(p.ors[ids[m]].daughters) }
  BY <1>1, SetsUnfold
<1>3. \A a, b : <<a>> = <<b>> => a = b
  OBVIOUS
<1>4. ASSUME NEW m \in DOMAIN ids, NEW a
      PROVE  a \in ToSet(p.ors[ids[m]].daughters) <=> <<a>> \in SetsOf(p, ids[m])
  BY <1>2, <1>3
<1>5. \A a : <<a>> \in { <<b>> : b \in I } <=> a \in I
  BY <1>3
<1>6. ASSUME NEW a \in I PROVE \E m \in DOMAIN ids : a \in ToSet(p.ors[ids[m]].daughters)
  <2>1. <<a>> \in { <<b>> : b \in I }
    BY <1>5
  <2>2. PICK m \in DOMAIN ids : <<a>> \in SetsOf(p, ids[m])
    BY <2>1, Zenon DEF Holds
  <2>. QED
    BY <1>4, <2>2
<1>7. ASSUME NEW m \in DOMAIN ids, NEW a \in ToSet(p.ors[ids[m]].daughters) PROVE a \in I
  <2>1. <<a>> \in { <<b>> : b \in I }
    BY <1>4 DEF Holds
  <2>. QED
    BY <1>5, <2>1
<1>8. ASSUME NEW m \in DOMAIN ids, NEW n \in DOMAIN ids, m # n
      PROVE  ToSet(p.ors[ids[m]].daughters) \cap ToSet(p.ors[ids[n]].daughters) = {}
  <2>1. SetsOf(p, ids[m]) \cap SetsOf(p, ids[n]) = {}
    BY <1>8 DEF Holds
  <2>. QED
    BY <1>4, <2>1
<1>9. Lefts(p, ids, Len(ids)) = I
  BY <1>1, <1>6, <1>7 DEF Lefts
<1>. QED
  BY <1>1, <1>7, <1>8, <1>9

(* The same nodes in a pool that has grown.                                *)
LEMMA JoinedKeyStays ==
  ASSUME NEW p \in Pools, NEW q \in Pools, Extends(p, q),
         NEW i \in DOMAIN p.ors, NEW j \in DOMAIN p.ors, NEW is_body
  PROVE  /\ JoinedKey(q, i, j, is_body) = JoinedKey(p, i, j, is_body)
         /\ i \in DOMAIN q.ors /\ j \in DOMAIN q.ors
         /\ q.ors[i] = p.ors[i] /\ q.ors[j] = p.ors[j]
<1>1. q.ors[i] = p.ors[i] /\ q.ors[j] = p.ors[j]
  BY PoolParts DEF Extends
<1>2. i \in DOMAIN q.ors /\ j \in DOMAIN q.ors
  BY SetsStay
<1>3. JoinedKey(q, i, j, is_body) = JoinedKey(p, i, j, is_body)
  BY <1>1, Zenon DEF JoinedKey
<1>. QED
  BY <1>1, <1>2, <1>3

(* One step of the loop: one node on the left with one on the right.       *)
LEMMA JoinMore ==
  ASSUME NEW p, NEW lefts, NEW rights, NEW is_body, NEW I, NEW DR, NEW tell, NEW A,
         MergeReady(p, lefts, rights, is_body, I, DR, tell, A),
         NEW m \in DOMAIN lefts, NEW n \in DOMAIN rights,
         NEW acc, NEW D, Made(p, acc, Keys, D, tell, A),
         NEW X, X = Prefixed(ToSet(p.ors[lefts[m]].daughters), SetsOf(p, rights[n])),
         X \cap D = {}
  PROVE  Made(p, Join(acc, lefts[m], rights[n], is_body), Keys, D \union X, tell, A)
<1>. DEFINE i == lefts[m]
            j == rights[n]
            b == acc.pool
            k == JoinedKey(b, i, j, is_body)
            fronts == ToSet(p.ors[i].daughters)
<1>1. p \in Pools /\ A \in SUBSET Nat /\ Sound(p, A) /\ b \in Pools /\ Extends(p, b)
  BY DEF MergeReady, Made
<1>2. i \in DOMAIN p.ors /\ j \in DOMAIN p.ors /\ p.ors[i].tag = "ARMORS"
  BY DEF MergeReady, Holds
<1>3. /\ k = JoinedKey(p, i, j, is_body) /\ i \in DOMAIN b.ors /\ j \in DOMAIN b.ors
      /\ b.ors[i] = p.ors[i]
  BY <1>1, <1>2, JoinedKeyStays
<1>4. k \in Keys
  BY <1>3 DEF MergeReady
<1>5. SetsOf(b, j) = SetsOf(p, j) /\ SetsOf(p, j) # {} /\ SetsOf(p, j) \in SUBSET Seq(A)
  BY <1>1, <1>2, SetsStay, SetsAreThere
<1>6. fronts \in SUBSET A /\ fronts # {}
  <2>1. p.ors[i].daughters \in Seq(Nat) /\ p.ors[i].daughters # <<>>
    BY <1>1, <1>2, OrParts DEF Sound
  <2>2. fronts # {}
    BY <2>1, ListsSomething
  <2>. QED
    BY <1>1, <1>2, <2>2 DEF Sound
<1>. DEFINE S == SetsOf(p, j)
<1>6a. X = Prefixed(fronts, S) /\ fronts \subseteq A /\ fronts # {} /\ S \subseteq Seq(A) /\ S # {}
  BY <1>5, <1>6
<1>6b. /\ Prefixed(fronts, S) # {}
       /\ \A z : z \in Prefixed(fronts, S) => \E a \in fronts : \E y \in S : z = Led(a, y)
  <2>. HIDE DEF S, fronts
  <2>1. Prefixed(fronts, S) # {}
    BY <1>6a, PrefixedIs
  <2>. QED
    BY <2>1, PrefixedBy
<1>7. X # {} /\ X = Prefixed(ToSet(b.ors[i].daughters), SetsOf(b, j))
  BY <1>3, <1>5, <1>6a, <1>6b
<1>8. \A x \in X : <<k, x>> \in tell
  <2>1. ASSUME NEW x \in X PROVE <<k, x>> \in tell
    <3>3. PICK a \in fronts : \E y \in SetsOf(p, j) : x = Led(a, y)
      BY <1>6a, <1>6b
    <3>4. PICK y \in SetsOf(p, j) : x = Led(a, y)
      BY <3>3
    <3>5. <<JoinedKey(p, i, j, is_body), Led(a, y)>> \in tell
      BY Zenon DEF MergeReady
    <3>. QED
      BY <1>3, <3>4, <3>5
  <2>. QED
    BY <2>1
<1>9. b.ors[i].tag = "ARMORS"
  BY <1>2, <1>3
<1>10. X \cap D = {} /\ p \in Pools /\ Made(p, acc, Keys, D, tell, A)
  BY <1>1
<1>11. Join(acc, i, j, is_body)
        = [pool   |-> MakeAnd(acc.pool, i, j),
           groups |-> Push(acc.groups, k, Len(MakeAnd(acc.pool, i, j).ands))]
  BY Zenon DEF Join
<1>. HIDE DEF i, j, k, fronts
<1>12. Made(p, [pool   |-> MakeAnd(acc.pool, i, j),
           groups |-> Push(acc.groups, k, Len(MakeAnd(acc.pool, i, j).ands))],
            Keys, D \union X, tell, A)
  BY <1>3, <1>4, <1>7, <1>8, <1>9, <1>10, GatherMore
<1>. QED
  BY <1>11, <1>12 DEF i, j

(* One node on the left with all those on the right.                       *)
LEMMA JoinAllMade ==
  ASSUME NEW p, NEW lefts, NEW rights, NEW is_body, NEW I, NEW DR, NEW tell, NEW A,
         MergeReady(p, lefts, rights, is_body, I, DR, tell, A),
         NEW m \in DOMAIN lefts,
         NEW acc, NEW D, Made(p, acc, Keys, D, tell, A),
         NEW fronts, fronts = ToSet(p.ors[lefts[m]].daughters),
         D \cap Prefixed(fronts, DR) = {}
  PROVE  Made(p, JoinAll(acc, lefts[m], rights, is_body), Keys,
              D \union Prefixed(fronts, DR), tell, A)
<1>. DEFINE N == Len(rights)
            Accs == [pool : Pools, groups : GroupsOf(Keys)]
            E(n) == D \union Prefixed(fronts, Covered(p, rights, n))
            S == [n \in 0..N |-> { x \in Accs : Made(p, x, Keys, E(n), tell, A) }]
            i == lefts[m]
<1>1. /\ p \in Pools /\ A \in SUBSET Nat /\ Sound(p, A) /\ DR \in SUBSET Seq(A)
      /\ Holds(p, rights, DR) /\ Holds(p, lefts, { <<a>> : a \in I }) /\ I \in SUBSET A
      /\ \A n \in DOMAIN lefts : p.ors[lefts[n]].tag = "ARMORS"
  BY DEF MergeReady
<1>2. /\ N \in Nat /\ DOMAIN rights = 1..N
      /\ \A n \in 1..N : rights[n] \in DOMAIN p.ors /\ SetsOf(p, rights[n]) \subseteq DR
      /\ \A n, k \in 1..N : n # k => SetsOf(p, rights[n]) \cap SetsOf(p, rights[k]) = {}
  <2>1. N \in Nat /\ DOMAIN rights = 1..N
    BY <1>1 DEF Holds
  <2>. HIDE DEF N
  <2>. QED
    BY <1>1, <2>1 DEF Holds
<1>3. fronts \in SUBSET A
  BY <1>1, LeftsAre
<1>4. \A n \in 0..N : Covered(p, rights, n) \in SUBSET Seq(A) /\ Covered(p, rights, n) \subseteq DR
  BY <1>1, <1>2 DEF Covered
<1>5. \A n \in 0..N : S[n] \subseteq Accs
  OBVIOUS
<1>6. \A x : \A n \in 0..N : x \in S[n] <=> Made(p, x, Keys, E(n), tell, A)
  BY DEF Made
<1>7. acc \in S[0]
  <2>1. Covered(p, rights, 0) = {}
    BY DEF Covered
  <2>2. Prefixed(fronts, {}) = {}
    BY PrefixedNone
  <2>3. E(0) = D
    BY <2>1, <2>2
  <2>. HIDE DEF E, S
  <2>. QED
    BY <1>2, <1>6, <2>3
<1>8. ASSUME NEW n \in 1..N, NEW x \in S[n - 1]
      PROVE  Join(x, i, rights[n], is_body) \in S[n]
  <2>. DEFINE X == Prefixed(fronts, SetsOf(p, rights[n]))
              C == Covered(p, rights, n - 1)
              T == SetsOf(p, rights[n])
  <2>0. n - 1 \in 0..N /\ n \in 0..N /\ n \in Nat /\ n # 0 /\ n \in DOMAIN rights
    BY <1>2
  <2>1. Made(p, x, Keys, E(n - 1), tell, A)
    <3>. HIDE DEF E, S
    <3>. QED
      BY <1>6, <2>0
  <2>2. C \in SUBSET Seq(A) /\ C \subseteq DR
    BY <1>4, <2>0
  <2>3. T \in SUBSET Seq(A) /\ T \subseteq DR
    BY <1>1, <1>2
  <2>4. C \cap T = {}
    <3>1. \A k \in 1..(n - 1) : k \in 1..N /\ k # n
      BY <2>0
    <3>. QED
      BY <1>2, <3>1 DEF Covered
  <2>5. X \cap E(n - 1) = {}
    <3>. HIDE DEF C, T
    <3>1. Prefixed(fronts, C) \cap Prefixed(fronts, T) = {}
      BY <1>3, <2>2, <2>3, <2>4, PrefixedApart
    <3>2. DR = T \union DR
      BY <2>3
    <3>3. Prefixed(fronts, T \union DR) = Prefixed(fronts, T) \union Prefixed(fronts, DR)
      BY PrefixedRight
    <3>4. Prefixed(fronts, T) \subseteq Prefixed(fronts, DR)
      BY <3>2, <3>3
    <3>. QED
      BY <3>1, <3>4 DEF C, T
  <2>6. E(n) = E(n - 1) \union X
    <3>1. Covered(p, rights, n) = C \union T
      BY <2>0, CoveredNext
    <3>. HIDE DEF C, T
    <3>2. Prefixed(fronts, C \union T) = Prefixed(fronts, C) \union Prefixed(fronts, T)
      BY PrefixedRight
    <3>. QED
      BY <3>1, <3>2 DEF C, T
  <2>7. Made(p, Join(x, i, rights[n], is_body), Keys, E(n - 1) \union X, tell, A)
    <3>1. X = Prefixed(ToSet(p.ors[lefts[m]].daughters), SetsOf(p, rights[n]))
      OBVIOUS
    <3>. HIDE DEF E, X
    <3>. QED
      BY <2>0, <2>1, <2>5, <3>1, JoinMore
  <2>. HIDE DEF E, S, X
  <2>. QED
    BY <1>6, <2>0, <2>6, <2>7
<1>9. JoinAll(acc, i, rights, is_body) \in S[N]
  <2>. HIDE DEF S, Accs, i
  <2>. QED
    BY <1>2, <1>5, <1>7, <1>8, JoinAllLoop
<1>10. E(N) = D \union Prefixed(fronts, DR)
  BY <1>1, CoveredAll
<1>. HIDE DEF S, E
<1>11. Made(p, JoinAll(acc, i, rights, is_body), Keys, E(N), tell, A)
  BY <1>2, <1>6, <1>9
<1>. QED
  BY <1>10, <1>11

(* All the nodes on the left.                                              *)
LEMMA JoinForestsMade ==
  ASSUME NEW p, NEW lefts, NEW rights, NEW is_body, NEW I, NEW DR, NEW tell, NEW A,
         MergeReady(p, lefts, rights, is_body, I, DR, tell, A)
  PROVE  Made(p, JoinForests(p, lefts, rights, is_body), Keys,
              Prefixed(I, DR), tell, A)
<1>. DEFINE N == Len(lefts)
            Accs == [pool : Pools, groups : GroupsOf(Keys)]
            E(n) == Prefixed(Lefts(p, lefts, n), DR)
            S == [n \in 0..N |-> { x \in Accs : Made(p, x, Keys, E(n), tell, A) }]
<1>1. /\ p \in Pools /\ A \in SUBSET Nat /\ Sound(p, A) /\ DR \in SUBSET Seq(A)
      /\ Holds(p, lefts, { <<a>> : a \in I }) /\ I \in SUBSET A
      /\ \A n \in DOMAIN lefts : p.ors[lefts[n]].tag = "ARMORS"
  BY DEF MergeReady
<1>2. N \in Nat /\ DOMAIN lefts = 1..N
  BY <1>1 DEF Holds
<1>3. /\ Lefts(p, lefts, N) = I
      /\ \A m \in 1..N : ToSet(p.ors[lefts[m]].daughters) \subseteq I
      /\ \A m, n \in 1..N : m # n =>
           ToSet(p.ors[lefts[m]].daughters) \cap ToSet(p.ors[lefts[n]].daughters) = {}
  <2>. HIDE DEF N
  <2>. QED
    BY <1>1, <1>2, LeftsAre DEF N
<1>4. \A n \in 0..N : Lefts(p, lefts, n) \subseteq I
  BY <1>2, <1>3 DEF Lefts
<1>5. \A n \in 0..N : S[n] \subseteq Accs
  OBVIOUS
<1>6. \A x : \A n \in 0..N : x \in S[n] <=> Made(p, x, Keys, E(n), tell, A)
  BY DEF Made
<1>7. [pool |-> p, groups |-> <<>>] \in S[0]
  <2>1. Lefts(p, lefts, 0) = {}
    BY DEF Lefts
  <2>2. Prefixed({}, DR) = {}
    BY PrefixedNone
  <2>3. E(0) = {}
    BY <2>1, <2>2
  <2>. DEFINE start == [pool |-> p, groups |-> <<>>]
  <2>4. start.pool = p /\ start.groups = <<>> /\ start \in Accs
    BY <1>1 DEF GroupsOf
  <2>5. Grouped(<<>>, Keys, {}) /\ Gathered(p, {}, {}, tell)
    BY NothingGrouped, NothingGathered
  <2>6. Extends(p, p)
    BY <1>1, ExtendsItself
  <2>. HIDE DEF start, E
  <2>7. Made(p, start, Keys, {}, tell, A)
    BY <1>1, <2>4, <2>5, <2>6 DEF Made
  <2>. HIDE DEF S
  <2>8. start \in S[0]
    <3>1. 0 \in 0..N
      BY <1>2
    <3>2. start \in S[0] <=> Made(p, start, Keys, E(0), tell, A)
      BY <1>6, <3>1
    <3>. QED
      BY <2>3, <2>7, <3>2
  <2>. QED
    BY <2>8 DEF start
<1>8. ASSUME NEW n \in 1..N, NEW x \in S[n - 1]
      PROVE  JoinAll(x, lefts[n], rights, is_body) \in S[n]
  <2>. DEFINE fronts == ToSet(p.ors[lefts[n]].daughters)
              C == Lefts(p, lefts, n - 1)
  <2>0. n - 1 \in 0..N /\ n \in 0..N /\ n \in Nat /\ n # 0 /\ n \in DOMAIN lefts
    BY <1>2
  <2>1. Made(p, x, Keys, E(n - 1), tell, A)
    <3>. HIDE DEF E, S
    <3>. QED
      BY <1>6, <2>0
  <2>2. C \subseteq A /\ fronts \subseteq A
    BY <1>1, <1>3, <1>4, <2>0
  <2>3. C \cap fronts = {}
    <3>1. SUFFICES ASSUME NEW a, a \in C, a \in fronts PROVE FALSE
      OBVIOUS
    <3>2. PICK k \in 1..(n - 1) : a \in ToSet(p.ors[lefts[k]].daughters)
      BY <3>1 DEF Lefts
    <3>3. k \in 1..N /\ k # n
      BY <1>2, <2>0
    <3>4. ToSet(p.ors[lefts[k]].daughters) \cap fronts = {}
      BY <1>3, <3>3
    <3>. QED
      BY <3>1, <3>2, <3>4
  <2>4. E(n - 1) \cap Prefixed(fronts, DR) = {}
    <3>. HIDE DEF C, fronts
    <3>1. Prefixed(C, DR) \cap Prefixed(fronts, DR) = {}
      BY <1>1, <2>2, <2>3, PrefixedApart
    <3>. QED
      BY <3>1 DEF C
  <2>5. E(n) = E(n - 1) \union Prefixed(fronts, DR)
    <3>1. Lefts(p, lefts, n) = C \union fronts
      BY <2>0, LeftsNext
    <3>. HIDE DEF C, fronts
    <3>2. Prefixed(C \union fronts, DR) = Prefixed(C, DR) \union Prefixed(fronts, DR)
      BY PrefixedLeft
    <3>. QED
      BY <3>1, <3>2 DEF C
  <2>6. Made(p, JoinAll(x, lefts[n], rights, is_body), Keys,
             E(n - 1) \union Prefixed(fronts, DR), tell, A)
    <3>1. fronts = ToSet(p.ors[lefts[n]].daughters)
      OBVIOUS
    <3>. HIDE DEF E, fronts
    <3>. QED
      BY <2>0, <2>1, <2>4, <3>1, JoinAllMade
  <2>. HIDE DEF E, S, fronts
  <2>. QED
    BY <1>6, <2>0, <2>5, <2>6
<1>9. JoinForests(p, lefts, rights, is_body) \in S[N]
  <2>. HIDE DEF S, Accs
  <2>. QED
    BY <1>2, <1>5, <1>7, <1>8, JoinForestsLoop
<1>10. E(N) = Prefixed(I, DR)
  BY <1>3
<1>. HIDE DEF S, E
<1>11. Made(p, JoinForests(p, lefts, rights, is_body), Keys, E(N), tell, A)
  BY <1>2, <1>6, <1>9
<1>. QED
  BY <1>10, <1>11

(* A forest that holds the sets of D, whose roots' keys tell.              *)
Forested(q, ids, tag, D, tell) ==
  /\ Holds(q, ids, D)
  /\ \A m \in DOMAIN ids :
       /\ q.ors[ids[m]].tag = tag
       /\ \A x \in SetsOf(q, ids[m]) : <<q.ors[ids[m]].key, x>> \in tell

(* r is the pool p grown, and a forest in it.                              *)
Merged(p, r, D, tell, A) ==
  /\ r.pool \in Pools /\ Extends(p, r.pool) /\ Sound(r.pool, A)
  /\ Forested(r.pool, r.forest, "ANDS", D, tell)

(* The nodes of the groups are a forest.                                   *)
LEMMA ForestMade ==
  ASSUME NEW p \in Pools, NEW q, NEW tag, NEW groups, NEW D, NEW tell, NEW A,
         NodesMade(p, q, tag, groups, groups, D, tell, A)
  PROVE  Forested(q, IdsAfter(p, groups), tag, D, tell)
<1>. DEFINE ids == IdsAfter(p, groups)
<1>1. /\ Holds(q, ids, D) /\ DOMAIN ids = DOMAIN groups
  BY DEF NodesMade
<1>2. ASSUME NEW m \in DOMAIN ids
      PROVE  /\ q.ors[ids[m]].tag = tag
             /\ \A x \in SetsOf(q, ids[m]) : <<q.ors[ids[m]].key, x>> \in tell
  <2>1. m \in DOMAIN groups
    BY <1>1
  <2>2. ids[m] = Len(p.ors) + m
    BY <2>1 DEF NodesMade
  <2>. HIDE DEF ids
  <2>. QED
    BY <2>1, <2>2 DEF NodesMade
<1>. HIDE DEF ids
<1>3. Forested(q, ids, tag, D, tell)
  BY <1>1, <1>2 DEF Forested
<1>. QED
  BY <1>3 DEF ids

(* MergeForests makes a forest of all ids of I before all sets of D.       *)
LEMMA MergeMade ==
  ASSUME NEW p, NEW lefts, NEW rights, NEW is_body, NEW I, NEW DR, NEW tell, NEW A,
         MergeReady(p, lefts, rights, is_body, I, DR, tell, A)
  PROVE  Merged(p, MergeForests(p, lefts, rights, is_body), Prefixed(I, DR), tell, A)
<1>. DEFINE joined == JoinForests(p, lefts, rights, is_body)
            b == joined.pool
            groups == joined.groups
            D == Prefixed(I, DR)
            q == MakeORs(b, "ANDS", groups)
            r == MergeForests(p, lefts, rights, is_body)
<1>1. Made(p, joined, Keys, D, tell, A)
  BY JoinForestsMade
<1>2. r.pool = q /\ r.forest = IdsAfter(b, groups)
  BY DEF MergeForests
<1>. HIDE DEF joined, D
<1>3. /\ b \in Pools /\ Extends(p, b) /\ Sound(b, A)
      /\ \E rel : Grouped(groups, Keys, rel) /\ Gathered(b, rel, D, tell)
  BY <1>1 DEF Made
<1>4. PICK rel : Grouped(groups, Keys, rel) /\ Gathered(b, rel, D, tell)
  BY <1>3
<1>. HIDE DEF b, groups
<1>5. groups \in GroupsOf(Keys)
  BY <1>4 DEF Grouped
<1>6. NodesMade(b, q, "ANDS", groups, groups, D, tell, A)
  BY <1>3, <1>4, <1>5, NodesHold
<1>. HIDE DEF q, r
<1>7. q \in Pools /\ Extends(b, q) /\ Sound(q, A)
  BY <1>6 DEF NodesMade
<1>8. p \in Pools
  BY DEF MergeReady
<1>9. Extends(p, q)
  BY <1>3, <1>7, <1>8, ExtendsOn
<1>10. Forested(q, IdsAfter(b, groups), "ANDS", D, tell)
  BY <1>3, <1>6, ForestMade
<1>11. Merged(p, r, D, tell, A)
  BY <1>2, <1>7, <1>9, <1>10 DEF Merged
<1>. QED
  BY <1>11 DEF r, D

-----------------------------------------------------------------------------
(* Totals.                                                                 *)
Sums(f, numbers) ==
  f = [n \in 0..Len(numbers) |-> IF n = 0 THEN 0 ELSE f[n - 1] + numbers[n]]

Adds(f, numbers, n) ==
  /\ f[0] = 0
  /\ \A k \in 1..n : f[k] = f[k - 1] + numbers[k]
  /\ \A k \in 0..n : f[k] \in Int

(* Total goes through the numbers one by one.                              *)
LEMMA TotalAdds ==
  ASSUME NEW n \in Nat, NEW numbers \in [1..n -> Int]
  PROVE  \E f : Adds(f, numbers, n) /\ Total(numbers) = f[n]
<1>. DEFINE S == [k \in 0..n |-> Int]
            step == [kx \in (1..n) \X Int |-> kx[2] + numbers[kx[1]]]
            g == CHOOSE f : Sums(f, numbers)
<1>0. Len(numbers) = n /\ \A k \in 1..n : numbers[k] \in Int
  <2>1. numbers \in Seq(Int)
    BY SeqDef
  <2>2. DOMAIN numbers = 1..n
    OBVIOUS
  <2>. QED
    BY <2>1, <2>2, LenProperties
<1>1. ASSUME NEW k \in 1..n, NEW x \in S[k - 1]
      PROVE  step[<<k, x>>] = x + numbers[k] /\ step[<<k, x>>] \in S[k]
  <2>1. x \in Int /\ k - 1 \in 0..n /\ k \in 0..n
    OBVIOUS
  <2>2. step[<<k, x>>] = x + numbers[k]
    BY <2>1
  <2>. HIDE DEF step
  <2>. QED
    BY <1>0, <2>1, <2>2
<1>2. 0 \in S[0]
  OBVIOUS
<1>. HIDE DEF step, S
<1>3. PICK f : FunctionUpTo(f, n) /\ Steps(f, n, 0, step) /\ Within(f, n, S)
  BY <1>1, <1>2, RecursionExists
<1>4. Sums(f, numbers)
  <2>1. ASSUME NEW k \in 0..n
        PROVE  f[k] = IF k = 0 THEN 0 ELSE f[k - 1] + numbers[k]
    <3>1. CASE k = 0
      BY <1>3, <3>1, Zenon DEF Steps
    <3>2. CASE k # 0
      <4>1. k \in 1..n /\ k - 1 \in 0..n
        BY <3>2
      <4>2. f[k] = step[<<k, f[k - 1]>>] /\ f[k - 1] \in S[k - 1]
        BY <1>3, <4>1, Zenon DEF Steps, Within
      <4>. QED
        BY <1>1, <3>2, <4>1, <4>2, Zenon
    <3>. QED
      BY <3>1, <3>2
  <2>. QED
    BY <1>0, <1>3, <2>1, Zenon DEF Sums, FunctionUpTo
<1>5. Sums(g, numbers)
  BY <1>4, Zenon
<1>6. Total(numbers) = g[n]
  BY <1>0, Zenon DEF Total, Sums
<1>. HIDE DEF g
<1>7. /\ g[0] = 0
      /\ \A k \in 1..n : g[k] = g[k - 1] + numbers[k]
  <2>1. 0 \in 0..n /\ \A k \in 1..n : k \in 0..n /\ k # 0
    OBVIOUS
  <2>. QED
    BY <1>0, <1>5, <2>1 DEF Sums
<1>8. \A k \in 0..n : g[k] \in Int
  <2>. DEFINE T == { k \in 0..n : g[k] \in Int }
  <2>1. 0 \in T
    BY <1>7
  <2>2. ASSUME NEW k \in 1..n, k - 1 \in T PROVE k \in T
    BY <1>0, <1>7, <2>2
  <2>. HIDE DEF T
  <2>3. \A k \in 0..n : k \in T
    BY <2>1, <2>2, IntervalInduction
  <2>. QED
    BY <2>3 DEF T
<1>9. Adds(g, numbers, n)
  BY <1>7, <1>8 DEF Adds
<1>. QED
  BY <1>6, <1>9

(* The total of integers is one.                                           *)
LEMMA TotalInt ==
  ASSUME NEW n \in Nat, NEW numbers \in [1..n -> Int]
  PROVE  Total(numbers) \in Int
<1>1. PICK f : Adds(f, numbers, n) /\ Total(numbers) = f[n]
  BY TotalAdds
<1>. QED
  BY <1>1 DEF Adds

(* The total of no numbers.                                                *)
LEMMA TotalNone == Total(<<>>) = 0
<1>1. <<>> \in [1..0 -> Int]
  OBVIOUS
<1>2. PICK f : Adds(f, <<>>, 0) /\ Total(<<>>) = f[0]
  BY <1>1, TotalAdds
<1>. QED
  BY <1>2 DEF Adds

(* A number in front of others.                                            *)
LEMMA TotalHead ==
  ASSUME NEW n \in Nat, NEW f \in [1..(n + 1) -> Int], NEW g \in [1..n -> Int],
         \A k \in 1..n : f[k + 1] = g[k]
  PROVE  Total(f) = f[1] + Total(g)
<1>1. PICK s : Adds(s, f, n + 1) /\ Total(f) = s[n + 1]
  BY TotalAdds
<1>2. PICK r : Adds(r, g, n) /\ Total(g) = r[n]
  BY TotalAdds
<1>. DEFINE T == { k \in 0..n : s[k + 1] = f[1] + r[k] }
<1>3. f[1] \in Int
  OBVIOUS
<1>4. 0 \in T
  <2>1. s[0] = 0 /\ r[0] = 0 /\ s[1] = s[1 - 1] + f[1]
    BY <1>1, <1>2 DEF Adds
  <2>. QED
    BY <1>3, <2>1
<1>5. ASSUME NEW k \in 1..n, k - 1 \in T PROVE k \in T
  <2>1. k + 1 \in 1..(n + 1) /\ k \in 0..n /\ k - 1 \in 0..n /\ (k + 1) - 1 = k /\ (k - 1) + 1 = k
    OBVIOUS
  <2>2. s[k + 1] = s[(k + 1) - 1] + f[k + 1]
    BY <1>1, <2>1, Zenon DEF Adds
  <2>3. r[k] = r[k - 1] + g[k] /\ r[k - 1] \in Int /\ g[k] \in Int
    BY <1>2, <2>1 DEF Adds
  <2>4. s[k] = f[1] + r[k - 1]
    BY <1>5, <2>1
  <2>5. s[k + 1] = s[k] + g[k]
    BY <2>1, <2>2
  <2>6. s[k + 1] = f[1] + r[k]
    BY <1>3, <2>3, <2>4, <2>5
  <2>. QED
    BY <2>1, <2>6
<1>. HIDE DEF T
<1>6. \A k \in 0..n : k \in T
  BY <1>4, <1>5, IntervalInduction
<1>7. n \in T
  BY <1>6
<1>. QED
  BY <1>1, <1>2, <1>7 DEF T

-----------------------------------------------------------------------------
(* What an armor adds to a key, and what a sequence of armors does.        *)
Armors(q) == DOMAIN Arsenal(q)
Hole(q, id, size) == OneIf(Arsenal(q)[id].slots = size /\ ~IsTorsoUp(Arsenal(q)[id]))
Up(q, id) == OneIf(IsTorsoUp(Arsenal(q)[id]))
PointsOf(q, id, e) == EffectPoints(Arsenal(q)[id].effects, q.effects[e].id)

SlotsLike(q, x, size) == Total([n \in DOMAIN x |-> Hole(q, x[n], size)])
PartPoints(q, x, e) == Total([n \in DOMAIN x |-> PointsOf(q, x[n], e)])

(* The sequences of a query and of its arsenal.                            *)
LEMMA QueryParts ==
  ASSUME NEW q \in Queries
  PROVE  /\ Len(q.effects) \in Nat /\ DOMAIN q.effects = 1..Len(q.effects)
         /\ Len(Arsenal(q)) \in Nat /\ Armors(q) = 1..Len(Arsenal(q))
         /\ Armors(q) \subseteq Nat
<1>1. q.effects \in Seq(ToSet(q.effects)) /\ Arsenal(q) \in Seq(ToSet(Arsenal(q)))
  BY QueriesAssumption
<1>2. Len(q.effects) \in Nat /\ DOMAIN q.effects = 1..Len(q.effects)
  BY <1>1, LenProperties
<1>3. Len(Arsenal(q)) \in Nat /\ DOMAIN Arsenal(q) = 1..Len(Arsenal(q))
  BY <1>1, LenProperties
<1>. QED
  BY <1>2, <1>3 DEF Armors

(* What QueriesAssumption says of an armor.                                 *)
LEMMA ArmorParts ==
  ASSUME NEW q \in Queries, NEW id \in Armors(q)
  PROVE  /\ Arsenal(q)[id].slots \in 0..3
         /\ Arsenal(q)[id].part = "BODY" => ~IsTorsoUp(Arsenal(q)[id])
         /\ \A size : Hole(q, id, size) \in 0..1
         /\ Up(q, id) \in 0..1
         /\ Hole(q, id, 1) + Hole(q, id, 2) + Hole(q, id, 3) + Up(q, id) \in 0..1
         /\ \A e \in DOMAIN q.effects :
              /\ PointsOf(q, id, e) \in -18..18
              /\ Up(q, id) = 1 => PointsOf(q, id, e) = 0
<1>. DEFINE armor == Arsenal(q)[id]
<1>1. armor.slots \in 0..3 /\ (armor.part = "BODY" => ~IsTorsoUp(armor))
  BY QueriesAssumption DEF Armors
<1>2. ASSUME NEW e \in DOMAIN q.effects
      PROVE  PointsOf(q, id, e) \in -18..18 /\ q.effects[e].id # TorsoUp
  BY QueriesAssumption DEF Armors, PointsOf, MAX_POINTS
<1>3. ASSUME NEW e \in DOMAIN q.effects, IsTorsoUp(armor) PROVE PointsOf(q, id, e) = 0
  BY <1>2, <1>3 DEF PointsOf, EffectPoints, IsTorsoUp
<1>4. Up(q, id) = 1 <=> IsTorsoUp(armor)
  BY DEF Up, OneIf
<1>. HIDE DEF armor
<1>5. \A size : Hole(q, id, size) = IF armor.slots = size /\ ~IsTorsoUp(armor) THEN 1 ELSE 0
  BY Zenon DEF Hole, armor, OneIf
<1>6. Up(q, id) = IF IsTorsoUp(armor) THEN 1 ELSE 0
  BY Zenon DEF Up, armor, OneIf
<1>7. Hole(q, id, 1) + Hole(q, id, 2) + Hole(q, id, 3) + Up(q, id) \in 0..1
  BY <1>1, <1>5, <1>6
<1>8. \A size : Hole(q, id, size) \in 0..1
  BY <1>5
<1>9. Up(q, id) \in 0..1
  BY <1>6
<1>. QED
  BY <1>1, <1>2, <1>3, <1>4, <1>7, <1>8, <1>9 DEF armor

(* The lists of numbers that are added up.                                 *)
LEMMA NumbersOf ==
  ASSUME NEW q \in Queries, NEW x \in Seq(Armors(q))
  PROVE  /\ \A size : [n \in DOMAIN x |-> Hole(q, x[n], size)] \in [1..Len(x) -> Int]
         /\ [n \in DOMAIN x |-> OneIf(IsTorsoUp(Arsenal(q)[x[n]]))] \in [1..Len(x) -> Int]
         /\ \A e \in DOMAIN q.effects :
              [n \in DOMAIN x |-> PointsOf(q, x[n], e)] \in [1..Len(x) -> Int]
<1>1. DOMAIN x = 1..Len(x)
  BY LenProperties
<1>2. ASSUME NEW n \in 1..Len(x) PROVE x[n] \in Armors(q)
  BY <1>1, <1>2, ElementOfSeq
<1>3. ASSUME NEW n \in 1..Len(x)
      PROVE  /\ \A size : Hole(q, x[n], size) \in Int
             /\ OneIf(IsTorsoUp(Arsenal(q)[x[n]])) \in Int
             /\ \A e \in DOMAIN q.effects : PointsOf(q, x[n], e) \in Int
  <2>1. /\ \A size : Hole(q, x[n], size) \in 0..1
        /\ \A e \in DOMAIN q.effects : PointsOf(q, x[n], e) \in -18..18
    BY <1>2, ArmorParts
  <2>2. OneIf(IsTorsoUp(Arsenal(q)[x[n]])) \in Int
    BY DEF OneIf
  <2>3. \A size : Hole(q, x[n], size) \in Int
    BY <2>1
  <2>4. ASSUME NEW e \in DOMAIN q.effects PROVE PointsOf(q, x[n], e) \in Int
    <3>1. PointsOf(q, x[n], e) \in -18..18
      BY <2>1
    <3>. DEFINE v == PointsOf(q, x[n], e)
    <3>. HIDE DEF v
    <3>2. v \in -18..18
      BY <3>1 DEF v
    <3>3. v \in Int
      BY <3>2
    <3>. QED
      BY <3>3 DEF v
  <2>. QED
    BY <2>2, <2>3, <2>4
<1>4. \A size : [n \in DOMAIN x |-> Hole(q, x[n], size)] \in [1..Len(x) -> Int]
  BY <1>1, <1>3
<1>5. [n \in DOMAIN x |-> OneIf(IsTorsoUp(Arsenal(q)[x[n]]))] \in [1..Len(x) -> Int]
  BY <1>1, <1>3
<1>6. \A e \in DOMAIN q.effects :
        [n \in DOMAIN x |-> PointsOf(q, x[n], e)] \in [1..Len(x) -> Int]
  BY <1>1, <1>3
<1>. QED
  BY <1>4, <1>5, <1>6

(* One more armor in front.                                                *)
LEMMA NumbersLed ==
  ASSUME NEW q \in Queries, NEW a \in Armors(q), NEW x \in Seq(Armors(q))
  PROVE  /\ \A size : SlotsLike(q, Led(a, x), size) = Hole(q, a, size) + SlotsLike(q, x, size)
         /\ TorsoUps(q, Led(a, x)) = Up(q, a) + TorsoUps(q, x)
         /\ \A e \in DOMAIN q.effects :
              PartPoints(q, Led(a, x), e) = PointsOf(q, a, e) + PartPoints(q, x, e)
<1>. DEFINE y == Led(a, x)
            N == Len(x)
<1>1. /\ y \in Seq(Armors(q)) /\ Len(y) = N + 1 /\ y[1] = a /\ N \in Nat
      /\ \A n \in 1..N : y[n + 1] = x[n]
      /\ DOMAIN y = 1..(N + 1) /\ DOMAIN x = 1..N
  <2>1. DOMAIN x = 1..N /\ N \in Nat
    BY LenProperties
  <2>2. a \in Armors(q) /\ x \in Seq(Armors(q))
    OBVIOUS
  <2>. DEFINE A == Armors(q)
  <2>. HIDE DEF A
  <2>3. /\ Led(a, x) \in Seq(A) /\ Len(Led(a, x)) = Len(x) + 1 /\ Led(a, x)[1] = a
        /\ \A n \in 1..Len(x) : Led(a, x)[n + 1] = x[n]
        /\ DOMAIN Led(a, x) = 1..(Len(x) + 1)
    BY <2>2, InFront DEF A
  <2>. QED
    BY <2>1, <2>3 DEF A
<1>. HIDE DEF y
<1>2. ASSUME NEW size PROVE SlotsLike(q, y, size) = Hole(q, a, size) + SlotsLike(q, x, size)
  <2>. DEFINE f == [n \in DOMAIN y |-> Hole(q, y[n], size)]
              g == [n \in DOMAIN x |-> Hole(q, x[n], size)]
  <2>0. f \in [1..Len(y) -> Int] /\ g \in [1..Len(x) -> Int]
    BY <1>1, NumbersOf, Zenon
  <2>1. f \in [1..(N + 1) -> Int] /\ g \in [1..N -> Int]
    <3>. HIDE DEF f, g
    <3>. QED
      BY <1>1, <2>0
  <2>2. \A n \in 1..N : f[n + 1] = g[n]
    BY <1>1
  <2>3. f[1] = Hole(q, a, size)
    BY <1>1
  <2>4. SlotsLike(q, y, size) = Total(f) /\ SlotsLike(q, x, size) = Total(g)
    BY Zenon DEF SlotsLike
  <2>. HIDE DEF f, g
  <2>. QED
    BY <1>1, <2>1, <2>2, <2>3, <2>4, TotalHead
<1>3. TorsoUps(q, y) = Up(q, a) + TorsoUps(q, x)
  <2>. DEFINE f == [n \in DOMAIN y |-> OneIf(IsTorsoUp(Arsenal(q)[y[n]]))]
              g == [n \in DOMAIN x |-> OneIf(IsTorsoUp(Arsenal(q)[x[n]]))]
  <2>0. f \in [1..Len(y) -> Int] /\ g \in [1..Len(x) -> Int]
    BY <1>1, NumbersOf, Zenon
  <2>1. f \in [1..(N + 1) -> Int] /\ g \in [1..N -> Int]
    <3>. HIDE DEF f, g
    <3>. QED
      BY <1>1, <2>0
  <2>2. \A n \in 1..N : f[n + 1] = g[n]
    BY <1>1
  <2>3. f[1] = Up(q, a)
    BY <1>1 DEF Up
  <2>4. TorsoUps(q, y) = Total(f) /\ TorsoUps(q, x) = Total(g)
    BY Zenon DEF TorsoUps
  <2>. HIDE DEF f, g
  <2>. QED
    BY <1>1, <2>1, <2>2, <2>3, <2>4, TotalHead
<1>4. ASSUME NEW e \in DOMAIN q.effects
      PROVE  PartPoints(q, y, e) = PointsOf(q, a, e) + PartPoints(q, x, e)
  <2>. DEFINE f == [n \in DOMAIN y |-> PointsOf(q, y[n], e)]
              g == [n \in DOMAIN x |-> PointsOf(q, x[n], e)]
  <2>0. f \in [1..Len(y) -> Int] /\ g \in [1..Len(x) -> Int]
    BY <1>1, NumbersOf, Zenon
  <2>1. f \in [1..(N + 1) -> Int] /\ g \in [1..N -> Int]
    <3>. HIDE DEF f, g
    <3>. QED
      BY <1>1, <2>0
  <2>2. \A n \in 1..N : f[n + 1] = g[n]
    BY <1>1
  <2>3. f[1] = PointsOf(q, a, e)
    BY <1>1
  <2>4. PartPoints(q, y, e) = Total(f) /\ PartPoints(q, x, e) = Total(g)
    BY Zenon DEF PartPoints
  <2>. HIDE DEF f, g
  <2>. QED
    BY <1>1, <2>1, <2>2, <2>3, <2>4, TotalHead
<1>. QED
  BY <1>2, <1>3, <1>4 DEF y

(* No armors add nothing.                                                  *)
LEMMA NumbersNone ==
  ASSUME NEW q
  PROVE  /\ \A size : SlotsLike(q, <<>>, size) = 0
         /\ TorsoUps(q, <<>>) = 0
         /\ \A e : PartPoints(q, <<>>, e) = 0
<1>1. \A size : [n \in DOMAIN << >> |-> Hole(q, <<>>[n], size)] = <<>>
  OBVIOUS
<1>2. [n \in DOMAIN << >> |-> OneIf(IsTorsoUp(Arsenal(q)[<<>>[n]]))] = <<>>
  OBVIOUS
<1>3. \A e : [n \in DOMAIN << >> |-> PointsOf(q, <<>>[n], e)] = <<>>
  OBVIOUS
<1>4. \A size : SlotsLike(q, <<>>, size) = 0
  BY <1>1, TotalNone, Zenon DEF SlotsLike
<1>5. TorsoUps(q, <<>>) = 0
  BY <1>2, TotalNone, Zenon DEF TorsoUps
<1>6. \A e : PartPoints(q, <<>>, e) = 0
  BY <1>3, TotalNone, Zenon DEF PartPoints
<1>. QED
  BY <1>4, <1>5, <1>6

-----------------------------------------------------------------------------
(* A byte holds what is between -128 and 127.                              *)
LEMMA ByteKeeps == \A v \in -128..127 : Char8(v) = v
  BY DEF Char8

(* What a byte holds is a number.                                          *)
LEMMA BytesAreInts == \A v \in -128..127 : v \in Int
  OBVIOUS

(* What is put into a byte is a number.                                    *)
LEMMA ByteIsInt == \A v \in Int : Char8(v) \in Int
  BY DEF Char8

(* The members of a key.                                                   *)
LEMMA KeyFields ==
  ASSUME NEW key \in Keys
  PROVE  /\ key.b0 \in Int /\ key.b1 \in Int /\ key.b2 \in Int
         /\ key.pts \in Seq(Int)
  BY DEF Keys

(* The key of an armor, by what the armor adds.                            *)
ArmorTells(q, key, id) ==
  /\ key \in Keys
  /\ key.b0 = Hole(q, id, 1)
  /\ key.b1 = Hole(q, id, 2) + 16 * Hole(q, id, 3)
  /\ key.b2 = IF Arsenal(q)[id].part = "BODY" THEN 1 ELSE Up(q, id)
  /\ DOMAIN key.pts = DOMAIN q.effects
  /\ \A e \in DOMAIN q.effects :
       key.pts[e] = IF e <= FoundationEffects(q) THEN PointsOf(q, id, e) ELSE 0

(* ArmorKey makes such a key.                                              *)
LEMMA ArmorKeyTells ==
  ASSUME NEW q \in Queries, NEW id \in Armors(q)
  PROVE  ArmorTells(q, ArmorKey(Arsenal(q)[id], q.effects, FoundationEffects(q)), id)
<1>. DEFINE armor == Arsenal(q)[id]
            L == Len(q.effects)
            k == FoundationEffects(q)
            key == ArmorKey(armor, q.effects, k)
<1>1. L \in Nat /\ DOMAIN q.effects = 1..L
  BY QueryParts
<1>2. /\ armor.slots \in 0..3 /\ (armor.part = "BODY" => ~IsTorsoUp(armor))
      /\ \A e \in 1..L : PointsOf(q, id, e) \in -18..18
                         /\ (Up(q, id) = 1 => PointsOf(q, id, e) = 0)
  BY <1>1, ArmorParts
<1>3. /\ \A size : Hole(q, id, size) = IF armor.slots = size /\ ~IsTorsoUp(armor) THEN 1 ELSE 0
      /\ Up(q, id) = IF IsTorsoUp(armor) THEN 1 ELSE 0
  BY Zenon DEF Hole, Up, OneIf
<1>4. \A e : PointsOf(q, id, e) = EffectPoints(armor.effects, q.effects[e].id)
  BY Zenon DEF PointsOf
<1>. HIDE DEF armor
<1>5. CASE IsTorsoUp(armor)
  <2>. DEFINE pts == [e \in 1..L |-> 0]
  <2>1. key = [[b0 |-> 0, b1 |-> 0, b2 |-> 0, pts |-> pts] EXCEPT !.b2 = 1]
    BY <1>5, Zenon DEF ArmorKey, ZeroKey, ZeroPts
  <2>2. key = [b0 |-> 0, b1 |-> 0, b2 |-> 1, pts |-> pts]
    BY <2>1
  <2>3. pts \in [1..L -> Int]
    OBVIOUS
  <2>4. pts \in Seq(Int)
    BY <1>1, <2>3, SeqDef
  <2>5. DOMAIN pts = 1..L /\ \A e \in 1..L : pts[e] = 0
    OBVIOUS
  <2>. HIDE DEF key, pts
  <2>6. key \in Keys /\ key.b0 = 0 /\ key.b1 = 0 /\ key.b2 = 1 /\ key.pts = pts
    BY <2>2, <2>4 DEF Keys
  <2>7. \A e \in 1..L : key.pts[e] = IF e <= k THEN PointsOf(q, id, e) ELSE 0
    BY <1>2, <1>3, <1>5, <2>5, <2>6
  <2>8. Hole(q, id, 1) = 0 /\ Hole(q, id, 2) = 0 /\ Hole(q, id, 3) = 0 /\ Up(q, id) = 1
    BY <1>3, <1>5
  <2>9. armor.part # "BODY"
    BY <1>2, <1>5
  <2>10. ArmorTells(q, key, id)
    BY <1>1, <2>5, <2>6, <2>7, <2>8, <2>9 DEF ArmorTells, armor
  <2>. QED
    BY <2>10 DEF key, armor
<1>6. CASE ~IsTorsoUp(armor)
  <2>. DEFINE pts == [e \in 1..L |-> IF e <= k THEN Char8(PointsOf(q, id, e)) ELSE 0]
              b1 == CASE armor.slots = 2 -> 1 [] armor.slots = 3 -> 16 [] OTHER -> 0
  <2>1. key = [b0 |-> IF armor.slots = 1 THEN 1 ELSE 0, b1 |-> b1,
               b2 |-> IF armor.part = "BODY" THEN 1 ELSE 0, pts |-> pts]
    <3>1. pts = PtsOf(armor, q.effects, k)
      BY <1>4 DEF PtsOf
    <3>. HIDE DEF pts
    <3>2. SlotBytes(armor.slots).b0 = (IF armor.slots = 1 THEN 1 ELSE 0)
          /\ SlotBytes(armor.slots).b1 = b1
      BY DEF SlotBytes
    <3>. QED
      BY <1>6, <3>1, <3>2 DEF ArmorKey
  <2>2. ASSUME NEW e \in 1..L
        PROVE  pts[e] = (IF e <= k THEN PointsOf(q, id, e) ELSE 0) /\ pts[e] \in Int
    <3>. DEFINE v == PointsOf(q, id, e)
    <3>1. v \in -18..18
      BY <1>2
    <3>. HIDE DEF v
    <3>2. v \in -128..127 /\ v \in Int
      BY <3>1
    <3>3. Char8(v) = v
      BY <3>2, ByteKeeps
    <3>4. pts[e] = IF e <= k THEN v ELSE 0
      BY <3>3 DEF v
    <3>. HIDE DEF pts
    <3>. QED
      BY <3>2, <3>4 DEF v
  <2>3. pts = [e \in 1..L |-> pts[e]] /\ DOMAIN pts = 1..L
    OBVIOUS
  <2>. HIDE DEF pts, key
  <2>4. pts \in [1..L -> Int]
    BY <2>2, <2>3
  <2>5. pts \in Seq(Int)
    BY <1>1, <2>4, SeqDef
  <2>6. b1 = Hole(q, id, 2) + 16 * Hole(q, id, 3) /\ b1 \in Int
    <3>1. CASE armor.slots = 2
      BY <1>3, <1>6, <3>1
    <3>2. CASE armor.slots = 3
      BY <1>3, <1>6, <3>2
    <3>3. CASE armor.slots # 2 /\ armor.slots # 3
      BY <1>3, <1>6, <3>3
    <3>. QED
      BY <3>1, <3>2, <3>3
  <2>. HIDE DEF b1
  <2>7. key \in Keys /\ key.b0 = (IF armor.slots = 1 THEN 1 ELSE 0) /\ key.b1 = b1
        /\ key.b2 = (IF armor.part = "BODY" THEN 1 ELSE 0) /\ key.pts = pts
    BY <2>1, <2>5, <2>6 DEF Keys
  <2>8. key.b0 = Hole(q, id, 1) /\ Up(q, id) = 0
    BY <1>3, <1>6, <2>7
  <2>9. \A e \in DOMAIN q.effects :
          key.pts[e] = IF e <= k THEN PointsOf(q, id, e) ELSE 0
    BY <1>1, <2>2, <2>7
  <2>10. ArmorTells(q, key, id)
    BY <1>1, <2>3, <2>6, <2>7, <2>8, <2>9 DEF ArmorTells, armor
  <2>. QED
    BY <2>10 DEF key, armor
<1>. QED
  BY <1>5, <1>6 DEF armor

-----------------------------------------------------------------------------
(* A sequence of n armors that are no bodies: how much it adds at most, and *)
(* the key of a tree of them.                                               *)
PartBounds(q, x, n) ==
  /\ SlotsLike(q, x, 1) \in 0..n /\ SlotsLike(q, x, 2) \in 0..n /\ SlotsLike(q, x, 3) \in 0..n
  /\ TorsoUps(q, x) \in 0..n
  /\ SlotsLike(q, x, 1) + SlotsLike(q, x, 2) + SlotsLike(q, x, 3) + TorsoUps(q, x) <= n
  /\ \A e \in DOMAIN q.effects :
       PartPoints(q, x, e) \in (-18 * (n - TorsoUps(q, x)))..(18 * (n - TorsoUps(q, x)))

PartTells(q, key, x) ==
  /\ key \in Keys
  /\ key.b0 = SlotsLike(q, x, 1)
  /\ key.b1 = SlotsLike(q, x, 2) + 16 * SlotsLike(q, x, 3)
  /\ key.b2 = TorsoUps(q, x)
  /\ DOMAIN key.pts = DOMAIN q.effects
  /\ \A e \in DOMAIN q.effects :
       key.pts[e] = IF e <= FoundationEffects(q) THEN PartPoints(q, x, e) ELSE 0

(* Arithmetic: one armor more adds one slot or a torso-up at most.         *)
LEMMA OneMore ==
  ASSUME NEW n \in Nat, NEW a \in 0..1, NEW b \in 0..1, NEW c \in 0..1, NEW d \in 0..1,
         a + b + c + d \in 0..1,
         NEW i \in 0..n, NEW j \in 0..n, NEW k \in 0..n, NEW l \in 0..n,
         i + j + k + l <= n
  PROVE  /\ a + i \in 0..(n + 1) /\ b + j \in 0..(n + 1)
         /\ c + k \in 0..(n + 1) /\ d + l \in 0..(n + 1)
         /\ (a + i) + (b + j) + (c + k) + (d + l) <= n + 1
  OBVIOUS

(* Arithmetic: the same for its points; a torso-up has none.               *)
LEMMA OneMoreScore ==
  ASSUME NEW n \in Nat, NEW d \in 0..1, NEW l \in 0..n,
         NEW v \in -18..18, d = 1 => v = 0,
         NEW w \in (-18 * (n - l))..(18 * (n - l))
  PROVE  v + w \in (-18 * ((n + 1) - (d + l)))..(18 * ((n + 1) - (d + l)))
  OBVIOUS

(* The bounds with one more armor in front.                                *)
LEMMA BoundsLed ==
  ASSUME NEW q \in Queries, NEW a \in Armors(q), NEW x \in Seq(Armors(q)),
         NEW n \in Nat, PartBounds(q, x, n)
  PROVE  PartBounds(q, Led(a, x), n + 1)
<1>. DEFINE y == Led(a, x)
<1>1. /\ SlotsLike(q, y, 1) = Hole(q, a, 1) + SlotsLike(q, x, 1)
      /\ SlotsLike(q, y, 2) = Hole(q, a, 2) + SlotsLike(q, x, 2)
      /\ SlotsLike(q, y, 3) = Hole(q, a, 3) + SlotsLike(q, x, 3)
      /\ TorsoUps(q, y) = Up(q, a) + TorsoUps(q, x)
  BY NumbersLed
<1>2. /\ Hole(q, a, 1) \in 0..1 /\ Hole(q, a, 2) \in 0..1 /\ Hole(q, a, 3) \in 0..1
      /\ Up(q, a) \in 0..1
      /\ Hole(q, a, 1) + Hole(q, a, 2) + Hole(q, a, 3) + Up(q, a) \in 0..1
  BY ArmorParts
<1>3. /\ SlotsLike(q, x, 1) \in 0..n /\ SlotsLike(q, x, 2) \in 0..n /\ SlotsLike(q, x, 3) \in 0..n
      /\ TorsoUps(q, x) \in 0..n
      /\ SlotsLike(q, x, 1) + SlotsLike(q, x, 2) + SlotsLike(q, x, 3) + TorsoUps(q, x) <= n
  BY DEF PartBounds
<1>. HIDE DEF y
<1>4. /\ SlotsLike(q, y, 1) \in 0..(n + 1) /\ SlotsLike(q, y, 2) \in 0..(n + 1)
      /\ SlotsLike(q, y, 3) \in 0..(n + 1) /\ TorsoUps(q, y) \in 0..(n + 1)
      /\ SlotsLike(q, y, 1) + SlotsLike(q, y, 2) + SlotsLike(q, y, 3) + TorsoUps(q, y) <= n + 1
  <2>. DEFINE a1 == Hole(q, a, 1)
              a2 == Hole(q, a, 2)
              a3 == Hole(q, a, 3)
              a4 == Up(q, a)
              x1 == SlotsLike(q, x, 1)
              x2 == SlotsLike(q, x, 2)
              x3 == SlotsLike(q, x, 3)
              x4 == TorsoUps(q, x)
  <2>1. a1 \in 0..1 /\ a2 \in 0..1 /\ a3 \in 0..1 /\ a4 \in 0..1 /\ a1 + a2 + a3 + a4 \in 0..1
    BY <1>2
  <2>2. x1 \in 0..n /\ x2 \in 0..n /\ x3 \in 0..n /\ x4 \in 0..n /\ x1 + x2 + x3 + x4 <= n
    BY <1>3
  <2>. HIDE DEF a1, a2, a3, a4, x1, x2, x3, x4
  <2>3. /\ a1 + x1 \in 0..(n + 1) /\ a2 + x2 \in 0..(n + 1)
        /\ a3 + x3 \in 0..(n + 1) /\ a4 + x4 \in 0..(n + 1)
        /\ (a1 + x1) + (a2 + x2) + (a3 + x3) + (a4 + x4) <= n + 1
    BY <2>1, <2>2, OneMore
  <2>. QED
    BY <1>1, <2>3, Zenon DEF a1, a2, a3, a4, x1, x2, x3, x4
<1>5. ASSUME NEW e \in DOMAIN q.effects
      PROVE  PartPoints(q, y, e)
               \in (-18 * ((n + 1) - TorsoUps(q, y)))..(18 * ((n + 1) - TorsoUps(q, y)))
  <2>1. PartPoints(q, y, e) = PointsOf(q, a, e) + PartPoints(q, x, e)
    BY NumbersLed DEF y
  <2>2. PointsOf(q, a, e) \in -18..18 /\ (Up(q, a) = 1 => PointsOf(q, a, e) = 0)
    BY ArmorParts
  <2>3. PartPoints(q, x, e) \in (-18 * (n - TorsoUps(q, x)))..(18 * (n - TorsoUps(q, x)))
    BY DEF PartBounds
  <2>. QED
    <3>. DEFINE d == Up(q, a)
                l == TorsoUps(q, x)
                v == PointsOf(q, a, e)
                w == PartPoints(q, x, e)
    <3>1. d \in 0..1 /\ l \in 0..n /\ v \in -18..18 /\ (d = 1 => v = 0)
          /\ w \in (-18 * (n - l))..(18 * (n - l))
      BY <1>2, <1>3, <2>2, <2>3, Zenon
    <3>2. TorsoUps(q, y) = d + l /\ PartPoints(q, y, e) = v + w
      BY <1>1, <2>1
    <3>. HIDE DEF d, l, v, w
    <3>3. v + w \in (-18 * ((n + 1) - (d + l)))..(18 * ((n + 1) - (d + l)))
      BY <3>1, OneMoreScore
    <3>. QED
      BY <3>2, <3>3, Zenon
<1>6. PartBounds(q, y, n + 1)
  BY <1>4, <1>5 DEF PartBounds
<1>. QED
  BY <1>6 DEF y

(* The bounds of no armors.                                                *)
LEMMA BoundsNone == ASSUME NEW q PROVE PartBounds(q, <<>>, 0)
<1>1. /\ SlotsLike(q, <<>>, 1) = 0 /\ SlotsLike(q, <<>>, 2) = 0 /\ SlotsLike(q, <<>>, 3) = 0
      /\ TorsoUps(q, <<>>) = 0
      /\ \A e : PartPoints(q, <<>>, e) = 0
  BY NumbersNone
<1>. QED
  BY <1>1 DEF PartBounds

-----------------------------------------------------------------------------
(* Keys added: a byte of the result holds the sum of two, if that fits.    *)
BytesFit(l, r, effects) ==
  /\ l.b0 + r.b0 \in -128..127 /\ l.b1 + r.b1 \in -128..127 /\ l.b2 + r.b2 \in -128..127
  /\ DOMAIN l.pts = DOMAIN effects /\ DOMAIN r.pts = DOMAIN effects
  /\ \A e \in DOMAIN effects : l.pts[e] + r.pts[e] \in -128..127

Joined(key, l, r, effects) ==
  /\ key \in Keys
  /\ key.b0 = l.b0 + r.b0 /\ key.b1 = l.b1 + r.b1 /\ key.b2 = l.b2 + r.b2
  /\ DOMAIN key.pts = DOMAIN effects
  /\ \A e \in DOMAIN effects : key.pts[e] = l.pts[e] + r.pts[e]

(* Operator + of signatures, where nothing wraps around.                   *)
LEMMA KeysAdd ==
  ASSUME NEW q \in Queries, NEW l, NEW r, BytesFit(l, r, q.effects)
  PROVE  Joined(l ++ r, l, r, q.effects)
<1>. DEFINE key == l ++ r
            L == Len(q.effects)
<1>1. L \in Nat /\ DOMAIN q.effects = 1..L
  BY QueryParts
<1>2. key.b0 = Char8(l.b0 + r.b0) /\ key.b1 = Char8(l.b1 + r.b1)
      /\ key.b2 = Char8(l.b2 + r.b2) /\ key.pts = [e \in 1..L |-> Char8(l.pts[e] + r.pts[e])]
      /\ key = [b0 |-> key.b0, b1 |-> key.b1, b2 |-> key.b2, pts |-> key.pts]
  BY <1>1 DEF ++, AddPts, BytesFit
<1>. HIDE DEF key
<1>3. key.b0 = l.b0 + r.b0 /\ key.b1 = l.b1 + r.b1 /\ key.b2 = l.b2 + r.b2
  BY <1>2, ByteKeeps DEF BytesFit
<1>4. ASSUME NEW e \in 1..L PROVE key.pts[e] = l.pts[e] + r.pts[e] /\ key.pts[e] \in Int
  <2>1. l.pts[e] + r.pts[e] \in -128..127
    BY <1>1 DEF BytesFit
  <2>2. key.pts[e] = Char8(l.pts[e] + r.pts[e])
    BY <1>2
  <2>. DEFINE v == l.pts[e] + r.pts[e]
  <2>. HIDE DEF v
  <2>3. v \in -128..127 /\ key.pts[e] = Char8(v)
    BY <2>1, <2>2 DEF v
  <2>4. Char8(v) = v
    BY <2>3, ByteKeeps
  <2>5. v \in Int
    BY <2>3, BytesAreInts, Zenon
  <2>6. key.pts[e] = v /\ v \in Int
    BY <2>3, <2>4, <2>5, Zenon
  <2>. QED
    BY <2>6 DEF v
<1>5. key.pts \in [1..L -> Int]
  BY <1>2, <1>4
<1>6. key.pts \in Seq(Int)
  BY <1>1, <1>5, SeqDef
<1>7. key.b0 \in Int /\ key.b1 \in Int /\ key.b2 \in Int
  <2>. DEFINE u == l.b0 + r.b0
              v == l.b1 + r.b1
              w == l.b2 + r.b2
  <2>1. u \in -128..127 /\ v \in -128..127 /\ w \in -128..127
    BY DEF BytesFit
  <2>2. key.b0 = u /\ key.b1 = v /\ key.b2 = w
    BY <1>3
  <2>. HIDE DEF u, v, w
  <2>. QED
    BY <2>1, <2>2
<1>8. key \in Keys
  BY <1>2, <1>6, <1>7 DEF Keys
<1>9. Joined(key, l, r, q.effects)
  BY <1>1, <1>3, <1>4, <1>5, <1>8 DEF Joined
<1>. QED
  BY <1>9 DEF key

(* Arithmetic: the points of seven parts fit into a byte.                  *)
LEMMA ScoreFits ==
  ASSUME NEW n \in 0..6, NEW d \in 0..(n + 1),
         NEW w, w \in (-18 * ((n + 1) - d))..(18 * ((n + 1) - d))
  PROVE  w \in -128..127
  OBVIOUS

(* One more part in front.                                                 *)
LEMMA PartsJoin ==
  ASSUME NEW q \in Queries, NEW a \in Armors(q), NEW x \in Seq(Armors(q)),
         NEW n \in 0..6, PartBounds(q, x, n),
         Arsenal(q)[a].part # "BODY",
         NEW l, ArmorTells(q, l, a), NEW r, PartTells(q, r, x)
  PROVE  PartTells(q, l ++ r, Led(a, x))
<1>. DEFINE y == Led(a, x)
            k == FoundationEffects(q)
<1>1. n \in Nat /\ PartBounds(q, y, n + 1)
  BY BoundsLed
<1>2. /\ SlotsLike(q, y, 1) = Hole(q, a, 1) + SlotsLike(q, x, 1)
      /\ SlotsLike(q, y, 2) = Hole(q, a, 2) + SlotsLike(q, x, 2)
      /\ SlotsLike(q, y, 3) = Hole(q, a, 3) + SlotsLike(q, x, 3)
      /\ TorsoUps(q, y) = Up(q, a) + TorsoUps(q, x)
      /\ \A e \in DOMAIN q.effects : PartPoints(q, y, e) = PointsOf(q, a, e) + PartPoints(q, x, e)
  BY NumbersLed
<1>. HIDE DEF y
<1>3. BytesFit(l, r, q.effects) /\ /\ l.b0 + r.b0 = SlotsLike(q, y, 1)
                               /\ l.b1 + r.b1 = SlotsLike(q, y, 2) + 16 * SlotsLike(q, y, 3)
                               /\ l.b2 + r.b2 = TorsoUps(q, y)
  <2>. DEFINE y1 == SlotsLike(q, y, 1)
              y2 == SlotsLike(q, y, 2)
              y3 == SlotsLike(q, y, 3)
              y4 == TorsoUps(q, y)
  <2>1. l.b0 + r.b0 = y1 /\ l.b2 + r.b2 = y4
    BY <1>2 DEF ArmorTells, PartTells
  <2>2. l.b1 + r.b1 = y2 + 16 * y3
    <3>. DEFINE a2 == Hole(q, a, 2)
                a3 == Hole(q, a, 3)
                x2 == SlotsLike(q, x, 2)
                x3 == SlotsLike(q, x, 3)
    <3>1. a2 \in 0..1 /\ a3 \in 0..1 /\ x2 \in 0..n /\ x3 \in 0..n
      BY ArmorParts DEF PartBounds
    <3>2. l.b1 = a2 + 16 * a3 /\ r.b1 = x2 + 16 * x3 /\ y2 = a2 + x2 /\ y3 = a3 + x3
      BY <1>2 DEF ArmorTells, PartTells
    <3>. HIDE DEF a2, a3, x2, x3
    <3>. QED
      BY <3>1, <3>2
  <2>3. y1 \in 0..(n + 1) /\ y2 \in 0..(n + 1) /\ y3 \in 0..(n + 1) /\ y4 \in 0..(n + 1)
        /\ y1 + y2 + y3 + y4 <= n + 1
    BY <1>1 DEF PartBounds
  <2>4. ASSUME NEW e \in DOMAIN q.effects
        PROVE  l.pts[e] + r.pts[e] \in -128..127
    <3>. DEFINE w == PartPoints(q, y, e)
                v == PointsOf(q, a, e)
                u == PartPoints(q, x, e)
    <3>1. w \in (-18 * ((n + 1) - y4))..(18 * ((n + 1) - y4))
      BY <1>1 DEF PartBounds
    <3>2. l.pts[e] = (IF e <= k THEN v ELSE 0) /\ r.pts[e] = (IF e <= k THEN u ELSE 0)
      BY DEF ArmorTells, PartTells
    <3>3. w = v + u
      BY <1>2
    <3>. HIDE DEF w, v, u, k, y4
    <3>4. CASE e <= k
      <4>1. y4 \in 0..(n + 1) /\ n \in 0..6
        BY <2>3
      <4>. HIDE DEF y4
      <4>2. w \in -128..127
        BY <3>1, <4>1, ScoreFits
      <4>3. l.pts[e] + r.pts[e] = w
        BY <3>2, <3>3, <3>4
      <4>. QED
        BY <4>2, <4>3, Zenon
    <3>5. CASE ~(e <= k)
      BY <3>2, <3>5
    <3>. QED
      BY <3>4, <3>5
  <2>5. DOMAIN l.pts = DOMAIN q.effects /\ DOMAIN r.pts = DOMAIN q.effects
    BY DEF ArmorTells, PartTells
  <2>. HIDE DEF y1, y2, y3, y4
  <2>6. y1 \in -128..127 /\ y4 \in -128..127 /\ y2 + 16 * y3 \in -128..127
    BY <2>3
  <2>7. BytesFit(l, r, q.effects)
    BY <2>1, <2>2, <2>4, <2>5, <2>6 DEF BytesFit
  <2>. QED
    BY <2>1, <2>2, <2>7 DEF y1, y2, y3, y4
<1>4. Joined(l ++ r, l, r, q.effects)
  BY <1>3, KeysAdd
<1>. DEFINE key == l ++ r
<1>. HIDE DEF key
<1>5. ASSUME NEW e \in DOMAIN q.effects
      PROVE  key.pts[e] = IF e <= k THEN PartPoints(q, y, e) ELSE 0
  <2>1. key.pts[e] = l.pts[e] + r.pts[e]
    BY <1>4 DEF Joined, key
  <2>2. l.pts[e] = (IF e <= k THEN PointsOf(q, a, e) ELSE 0)
        /\ r.pts[e] = (IF e <= k THEN PartPoints(q, x, e) ELSE 0)
    BY DEF ArmorTells, PartTells
  <2>. HIDE DEF k
  <2>. QED
    BY <1>2, <2>1, <2>2
<1>6. PartTells(q, key, y)
  <2>1. key \in Keys /\ key.b0 = l.b0 + r.b0 /\ key.b1 = l.b1 + r.b1 /\ key.b2 = l.b2 + r.b2
        /\ DOMAIN key.pts = DOMAIN q.effects
    BY <1>4 DEF Joined, key
  <2>. QED
    BY <1>3, <1>5, <2>1 DEF PartTells
<1>. QED
  BY <1>6 DEF key, y

-----------------------------------------------------------------------------
(* A body in front of the other parts: what the set promises.              *)
LEMMA BodyCounts ==
  ASSUME NEW q \in Queries, NEW a \in Armors(q), NEW x \in Seq(Armors(q)),
         Arsenal(q)[a].part = "BODY", NEW n \in Nat, PartBounds(q, x, n)
  PROVE  /\ TorsoUps(q, Led(a, x)) = TorsoUps(q, x)
         /\ \A size : SlotCount(q, Led(a, x), size)
              = (IF TorsoUps(q, x) = 0 THEN Hole(q, a, size) ELSE 0) + SlotsLike(q, x, size)
         /\ BodyHoles(q, Led(a, x))
              = IF TorsoUps(q, x) = 0 THEN 0 ELSE Arsenal(q)[a].slots
         /\ \A e \in DOMAIN q.effects : SetPoints(q, Led(a, x), e)
              = PointsOf(q, a, e) * (1 + TorsoUps(q, x)) + PartPoints(q, x, e)
<1>. DEFINE y == Led(a, x)
            N == Len(x)
            t == TorsoUps(q, x)
<1>0. a \in Armors(q) /\ x \in Seq(Armors(q))
  OBVIOUS
<1>1. /\ y \in Seq(Armors(q)) /\ Len(y) = N + 1 /\ y[1] = a /\ N \in Nat
      /\ \A m \in 1..N : y[m + 1] = x[m]
      /\ DOMAIN y = 1..(N + 1) /\ DOMAIN x = 1..N
  <2>. DEFINE A == Armors(q)
  <2>. HIDE DEF A
  <2>1. DOMAIN x = 1..N /\ N \in Nat
    BY LenProperties
  <2>3. /\ Led(a, x) \in Seq(A) /\ Len(Led(a, x)) = Len(x) + 1 /\ Led(a, x)[1] = a
        /\ \A m \in 1..Len(x) : Led(a, x)[m + 1] = x[m]
        /\ DOMAIN Led(a, x) = 1..(Len(x) + 1)
    BY <1>0, InFront DEF A
  <2>. QED
    BY <2>1, <2>3 DEF A
<1>2. ~IsTorsoUp(Arsenal(q)[a]) /\ Up(q, a) = 0
  BY ArmorParts DEF Up, OneIf
<1>3. t \in 0..n
  BY DEF PartBounds
<1>4. TorsoUps(q, y) = t
  <2>1. TorsoUps(q, y) = Up(q, a) + t
    BY NumbersLed
  <2>. HIDE DEF y, t
  <2>. QED
    BY <1>2, <1>3, <2>1
<1>5. \A m \in 1..N : m + 1 \in DOMAIN y /\ m + 1 # 1 /\ m \in DOMAIN x
  BY <1>1
<1>. HIDE DEF y, t
<1>6. ASSUME NEW size
      PROVE  SlotCount(q, y, size) = (IF t = 0 THEN Hole(q, a, size) ELSE 0) + SlotsLike(q, x, size)
  <2>. DEFINE f == [p \in DOMAIN y |-> OneIf(/\ Arsenal(q)[y[p]].slots = size
                                             /\ ~IsTorsoUp(Arsenal(q)[y[p]])
                                             /\ p = 1 => TorsoUps(q, y) = 0)]
              g == [p \in DOMAIN x |-> Hole(q, x[p], size)]
  <2>1. g \in [1..N -> Int]
    BY NumbersOf
  <2>2. f \in [1..(N + 1) -> Int]
    BY <1>1 DEF OneIf
  <2>3. \A m \in 1..N : f[m + 1] = g[m]
    <3>1. ASSUME NEW m \in 1..N PROVE f[m + 1] = g[m]
      <4>1. y[m + 1] = x[m] /\ m + 1 \in DOMAIN y /\ m + 1 # 1 /\ m \in DOMAIN x
        BY <1>1, <1>5
      <4>. QED
        BY <4>1 DEF Hole, OneIf
    <3>. QED
      BY <3>1
  <2>4. f[1] = IF t = 0 THEN Hole(q, a, size) ELSE 0
    <3>1. 1 \in DOMAIN y /\ y[1] = a
      BY <1>1
    <3>. QED
      BY <1>4, <3>1 DEF Hole, OneIf
  <2>5. SlotCount(q, y, size) = Total(f) /\ SlotsLike(q, x, size) = Total(g)
    BY Zenon DEF SlotCount, SlotsLike
  <2>. HIDE DEF f, g
  <2>. QED
    BY <1>1, <2>1, <2>2, <2>3, <2>4, <2>5, TotalHead
<1>7. ASSUME NEW e \in DOMAIN q.effects
      PROVE  SetPoints(q, y, e) = PointsOf(q, a, e) * (1 + t) + PartPoints(q, x, e)
  <2>. DEFINE f == [p \in DOMAIN y |-> PointsOf(q, y[p], e)
                                       * (IF p = 1 THEN 1 + TorsoUps(q, y) ELSE 1)]
              g == [p \in DOMAIN x |-> PointsOf(q, x[p], e)]
  <2>1. g \in [1..N -> Int]
    BY NumbersOf
  <2>2. ASSUME NEW p \in 1..(N + 1) PROVE f[p] \in Int /\ PointsOf(q, y[p], e) \in Int
    <3>1. y[p] \in Armors(q)
      BY <1>1, ElementOfSeq
    <3>. DEFINE v == PointsOf(q, y[p], e)
    <3>2. v \in -18..18
      BY <3>1, ArmorParts
    <3>3. f[p] = v * (IF p = 1 THEN 1 + t ELSE 1)
      BY <1>1, <1>4
    <3>. HIDE DEF v, f
    <3>4. v \in Int /\ t \in Int
      BY <1>3, <3>2
    <3>5. v * (IF p = 1 THEN 1 + t ELSE 1) \in Int
      BY <3>4
    <3>. QED
      BY <3>3, <3>4, <3>5 DEF v
  <2>3. f \in [1..(N + 1) -> Int]
    <3>1. f = [p \in 1..(N + 1) |-> f[p]]
      BY <1>1
    <3>. HIDE DEF f
    <3>. QED
      BY <2>2, <3>1
  <2>4. \A m \in 1..N : f[m + 1] = g[m]
    <3>1. ASSUME NEW m \in 1..N PROVE f[m + 1] = g[m]
      <4>1. y[m + 1] = x[m] /\ m + 1 \in DOMAIN y /\ m + 1 # 1 /\ m \in DOMAIN x
        BY <1>1, <1>5
      <4>. DEFINE v == PointsOf(q, y[m + 1], e)
      <4>2. f[m + 1] = v * 1 /\ g[m] = v
        BY <4>1
      <4>3. v \in Int
        BY <1>1, <2>2, <4>1
      <4>. HIDE DEF v, f, g
      <4>. QED
        BY <4>2, <4>3
    <3>. QED
      BY <3>1
  <2>5. f[1] = PointsOf(q, a, e) * (1 + t)
    BY <1>1, <1>4
  <2>6. SetPoints(q, y, e) = Total(f) /\ PartPoints(q, x, e) = Total(g)
    BY Zenon DEF SetPoints, PartPoints, PointsOf
  <2>. HIDE DEF f, g
  <2>. QED
    BY <1>1, <2>1, <2>3, <2>4, <2>5, <2>6, TotalHead
<1>8. BodyHoles(q, y) = IF t = 0 THEN 0 ELSE Arsenal(q)[a].slots
  BY <1>1, <1>4 DEF BodyHoles
<1>. QED
  BY <1>4, <1>6, <1>7, <1>8 DEF y, t

-----------------------------------------------------------------------------
(* The key of a body that is multiplied t + 1 times.                       *)
BodyBits(slots) ==
  IF slots = 1 THEN 8 ELSE IF slots = 2 THEN 32 ELSE IF slots = 3 THEN 64 ELSE 0

BodyTells(q, key, a, t) ==
  /\ key.b0 = IF t = 0 THEN Hole(q, a, 1) ELSE 0
  /\ key.b1 = IF t = 0 THEN Hole(q, a, 2) + 16 * Hole(q, a, 3) ELSE 0
  /\ key.b2 = IF t = 0 THEN 1 ELSE 1 + BodyBits(Arsenal(q)[a].slots)
  /\ DOMAIN key.pts = DOMAIN q.effects
  /\ \A e \in DOMAIN q.effects :
       key.pts[e] = IF e <= FoundationEffects(q) THEN PointsOf(q, a, e) * (1 + t) ELSE 0

(* Arithmetic: the points of a body fit, however often they count.         *)
LEMMA Product ==
  ASSUME NEW v \in -18..18, NEW t \in 0..6
  PROVE  v * (1 + t) \in -126..126
<1>1. t = 0 \/ t = 1 \/ t = 2 \/ t = 3 \/ t = 4 \/ t = 5 \/ t = 6
  OBVIOUS
<1>. QED
  BY <1>1

(* BodyRefactor makes such a key.                                          *)
LEMMA BodyRefactored ==
  ASSUME NEW q \in Queries, NEW a \in Armors(q), Arsenal(q)[a].part = "BODY",
         NEW l, ArmorTells(q, l, a), NEW t \in 0..6
  PROVE  BodyTells(q, BodyRefactor(l, t + 1), a, t)
<1>. DEFINE key == BodyRefactor(l, t + 1)
            k == FoundationEffects(q)
            slots == Arsenal(q)[a].slots
<1>1. /\ slots \in 0..3
      /\ Hole(q, a, 1) = (IF slots = 1 THEN 1 ELSE 0)
      /\ Hole(q, a, 2) = (IF slots = 2 THEN 1 ELSE 0)
      /\ Hole(q, a, 3) = (IF slots = 3 THEN 1 ELSE 0)
  BY ArmorParts DEF Hole, OneIf
<1>2. /\ l.b0 = Hole(q, a, 1) /\ l.b1 = Hole(q, a, 2) + 16 * Hole(q, a, 3) /\ l.b2 = 1
      /\ DOMAIN l.pts = DOMAIN q.effects
      /\ \A e \in DOMAIN q.effects : l.pts[e] = IF e <= k THEN PointsOf(q, a, e) ELSE 0
  BY DEF ArmorTells
<1>. HIDE DEF slots, k
<1>3. CASE t = 0
  <2>1. key = l
    BY <1>3 DEF BodyRefactor
  <2>2. ASSUME NEW e \in DOMAIN q.effects
        PROVE  key.pts[e] = IF e <= k THEN PointsOf(q, a, e) * (1 + t) ELSE 0
    <3>1. PointsOf(q, a, e) \in -18..18
      BY ArmorParts
    <3>. DEFINE v == PointsOf(q, a, e)
    <3>. HIDE DEF v, key
    <3>2. v * (1 + t) = v
      BY <1>3, <3>1 DEF v
    <3>. QED
      BY <1>2, <2>1, <3>2 DEF v
  <2>. QED
    BY <1>2, <1>3, <2>1, <2>2 DEF BodyTells, k
<1>4. CASE t # 0
  <2>. DEFINE b2 == l.b2 + 8 * l.b0 + (IF Twos(l) # 0 THEN 32 ELSE 0)
                    + (IF Threes(l) # 0 THEN 64 ELSE 0)
  <2>1. ~(t + 1 <= 1)
    BY <1>4
  <2>2. key = [b0 |-> 0, b1 |-> 0, b2 |-> Char8(b2), pts |-> Scale(l.pts, t + 1)]
    BY <2>1 DEF BodyRefactor
  <2>3. b2 = 1 + BodyBits(slots)
    <3>1. slots = 0 \/ slots = 1 \/ slots = 2 \/ slots = 3
      BY <1>1
    <3>. DEFINE d0 == l.b0
                d1 == l.b1
    <3>2. b2 = 1 + 8 * d0 + (IF d1 % 16 # 0 THEN 32 ELSE 0) + (IF d1 \div 16 # 0 THEN 64 ELSE 0)
      BY <1>2 DEF Twos, Threes
    <3>3. d0 = (IF slots = 1 THEN 1 ELSE 0)
          /\ d1 = (IF slots = 2 THEN 1 ELSE 0) + 16 * (IF slots = 3 THEN 1 ELSE 0)
      BY <1>1, <1>2
    <3>. HIDE DEF b2, d0, d1
    <3>. QED
      BY <3>1, <3>2, <3>3 DEF BodyBits
  <2>. HIDE DEF b2
  <2>4. Char8(b2) = b2
    <3>1. b2 \in -128..127
      BY <2>3 DEF BodyBits
    <3>. QED
      BY <3>1, ByteKeeps
  <2>5. key.pts = [e \in DOMAIN q.effects |-> Char8(l.pts[e] * (t + 1))]
    BY <1>2, <2>2 DEF Scale
  <2>6. key.b0 = 0 /\ key.b1 = 0 /\ key.b2 = 1 + BodyBits(slots)
    BY <2>2, <2>3, <2>4
  <2>. HIDE DEF key
  <2>7. ASSUME NEW e \in DOMAIN q.effects
        PROVE  key.pts[e] = IF e <= k THEN PointsOf(q, a, e) * (1 + t) ELSE 0
    <3>. DEFINE v == PointsOf(q, a, e)
                w == l.pts[e]
    <3>1. v \in -18..18
      BY ArmorParts
    <3>2. key.pts[e] = Char8(w * (t + 1)) /\ w = (IF e <= k THEN v ELSE 0)
      BY <1>2, <2>5
    <3>. HIDE DEF v, w
    <3>3. v * (1 + t) \in -126..126
      BY <3>1, Product
    <3>4. CASE e <= k
      <4>1. w * (t + 1) = v * (1 + t)
        BY <3>1, <3>2, <3>4
      <4>. DEFINE u == v * (1 + t)
      <4>. HIDE DEF u
      <4>2. u \in -128..127
        BY <3>3 DEF u
      <4>3. Char8(u) = u
        BY <4>2, ByteKeeps
      <4>. QED
        BY <3>2, <3>4, <4>1, <4>3 DEF u, v
    <3>5. CASE ~(e <= k)
      <4>1. w = 0
        BY <3>2, <3>5
      <4>2. w * (t + 1) = 0
        BY <4>1
      <4>3. Char8(0) = 0
        BY ByteKeeps
      <4>. QED
        BY <3>2, <3>5, <4>2, <4>3
    <3>. QED
      BY <3>4, <3>5
  <2>8. BodyTells(q, key, a, t)
    BY <1>4, <2>5, <2>6, <2>7 DEF BodyTells, k, slots
  <2>. QED
    BY <2>8 DEF key
<1>. QED
  BY <1>3, <1>4 DEF key

(* Arithmetic: so do those of a body with the other parts.                 *)
LEMMA ProductFits ==
  ASSUME NEW n \in 0..6, NEW t \in 0..n, NEW v \in -18..18,
         NEW w \in (-18 * (n - t))..(18 * (n - t))
  PROVE  v * (1 + t) + w \in -126..126
<1>1. t = 0 \/ t = 1 \/ t = 2 \/ t = 3 \/ t = 4 \/ t = 5 \/ t = 6
  OBVIOUS
<1>. QED
  BY <1>1

(* The bytes of the key of a body and of the parts behind it.              *)
BodyBytes(n, t, slots, x1, x2, x3, h1, h2, h3, b0, b1, b2) ==
  /\ b0 \in -128..127 /\ b1 \in -128..127 /\ b2 \in -128..127
  /\ b1 % 16 = (IF t = 0 THEN h2 ELSE 0) + x2
  /\ b1 \div 16 = (IF t = 0 THEN h3 ELSE 0) + x3
  /\ b2 % 8 = 1 + t
  /\ (IF (b2 \div 64) % 2 # 0 THEN 3 ELSE 2 * ((b2 \div 32) % 2) + ((b2 \div 8) % 4))
       = IF t = 0 THEN 0 ELSE slots

(* Arithmetic: the bits of the slots and of the multiplier stay apart.     *)
LEMMA BodyBytesFit ==
  ASSUME NEW n \in 0..6, NEW t \in 0..n, NEW slots \in 0..3,
         NEW x1 \in 0..n, NEW x2 \in 0..n, NEW x3 \in 0..n, x1 + x2 + x3 + t <= n,
         NEW h1, h1 = IF slots = 1 THEN 1 ELSE 0,
         NEW h2, h2 = IF slots = 2 THEN 1 ELSE 0,
         NEW h3, h3 = IF slots = 3 THEN 1 ELSE 0,
         NEW b0, b0 = (IF t = 0 THEN h1 ELSE 0) + x1,
         NEW b1, b1 = (IF t = 0 THEN h2 + 16 * h3 ELSE 0) + x2 + 16 * x3,
         NEW b2, b2 = (IF t = 0 THEN 1 ELSE 1 + BodyBits(slots)) + t
  PROVE  BodyBytes(n, t, slots, x1, x2, x3, h1, h2, h3, b0, b1, b2)
<1>1. slots = 0 \/ slots = 1 \/ slots = 2 \/ slots = 3
  OBVIOUS
<1>2. b0 \in -128..127 /\ b1 \in -128..127 /\ b2 \in -128..127
  BY DEF BodyBits
<1>3. b1 % 16 = (IF t = 0 THEN h2 ELSE 0) + x2
      /\ b1 \div 16 = (IF t = 0 THEN h3 ELSE 0) + x3
  <2>. DEFINE u == (IF t = 0 THEN h2 ELSE 0) + x2
              v == (IF t = 0 THEN h3 ELSE 0) + x3
  <2>1. u \in 0..15 /\ v \in 0..15 /\ b1 = u + 16 * v
    OBVIOUS
  <2>. HIDE DEF u, v
  <2>2. b1 % 16 = u /\ b1 \div 16 = v
    BY <2>1
  <2>. QED
    BY <2>2 DEF u, v
<1>4. b2 % 8 = 1 + t
  BY <1>1 DEF BodyBits
<1>5. (IF (b2 \div 64) % 2 # 0 THEN 3 ELSE 2 * ((b2 \div 32) % 2) + ((b2 \div 8) % 4))
              = IF t = 0 THEN 0 ELSE slots
  BY <1>1 DEF BodyBits
<1>. QED
  BY <1>2, <1>3, <1>4, <1>5 DEF BodyBytes

(* The key of a root, for the sets below it.                               *)
SetTells(q, key, x, effects) ==
  /\ key \in Keys
  /\ DOMAIN key.pts = DOMAIN q.effects
  /\ KeyTells(q, key, x, effects)

(* The key of a body and of the parts behind it tells of the set.          *)
LEMMA BodyJoins ==
  ASSUME NEW q \in Queries, NEW a \in Armors(q), NEW x \in Seq(Armors(q)),
         NEW n \in 0..6, PartBounds(q, x, n),
         Arsenal(q)[a].part = "BODY",
         NEW l, ArmorTells(q, l, a), NEW r, PartTells(q, r, x)
  PROVE  /\ SetTells(q, BodyRefactor(l, Multiplier(r) + 1) ++ r, Led(a, x), FoundationEffects(q))
         /\ \A e \in DOMAIN q.effects : SetPoints(q, Led(a, x), e) \in -126..126
         /\ TorsoUps(q, Led(a, x)) \in 0..6
<1>. DEFINE y == Led(a, x)
            k == FoundationEffects(q)
            t == TorsoUps(q, x)
            slots == Arsenal(q)[a].slots
            m == BodyRefactor(l, t + 1)
            h1 == Hole(q, a, 1)
            h2 == Hole(q, a, 2)
            h3 == Hole(q, a, 3)
            x1 == SlotsLike(q, x, 1)
            x2 == SlotsLike(q, x, 2)
            x3 == SlotsLike(q, x, 3)
<1>1. /\ slots \in 0..3 /\ ~IsTorsoUp(Arsenal(q)[a])
      /\ h1 = (IF slots = 1 THEN 1 ELSE 0)
      /\ h2 = (IF slots = 2 THEN 1 ELSE 0)
      /\ h3 = (IF slots = 3 THEN 1 ELSE 0)
  BY ArmorParts DEF Hole, OneIf
<1>2. /\ x1 \in 0..n /\ x2 \in 0..n /\ x3 \in 0..n /\ t \in 0..n /\ x1 + x2 + x3 + t <= n
      /\ \A e \in DOMAIN q.effects : PartPoints(q, x, e) \in (-18 * (n - t))..(18 * (n - t))
  <2>1. x1 + x2 + x3 + t <= n
    BY DEF PartBounds
  <2>2. x1 \in 0..n /\ x2 \in 0..n /\ x3 \in 0..n /\ t \in 0..n
    BY DEF PartBounds
  <2>3. \A e \in DOMAIN q.effects : PartPoints(q, x, e) \in (-18 * (n - t))..(18 * (n - t))
    BY DEF PartBounds
  <2>. QED
    BY <2>1, <2>2, <2>3
<1>3. /\ TorsoUps(q, y) = t
      /\ \A size : SlotCount(q, y, size)
           = (IF t = 0 THEN Hole(q, a, size) ELSE 0) + SlotsLike(q, x, size)
      /\ BodyHoles(q, y) = IF t = 0 THEN 0 ELSE slots
      /\ \A e \in DOMAIN q.effects :
           SetPoints(q, y, e) = PointsOf(q, a, e) * (1 + t) + PartPoints(q, x, e)
  <2>1. n \in Nat
    OBVIOUS
  <2>. QED
    BY <2>1, BodyCounts
<1>3a. t \in 0..6
  BY <1>2
<1>4. BodyTells(q, m, a, t)
  BY <1>3a, BodyRefactored
<1>5. r.b0 = x1 /\ r.b1 = x2 + 16 * x3 /\ r.b2 = t
      /\ DOMAIN r.pts = DOMAIN q.effects
      /\ \A e \in DOMAIN q.effects : r.pts[e] = IF e <= k THEN PartPoints(q, x, e) ELSE 0
  BY DEF PartTells
<1>6. Multiplier(r) = t
  <2>1. r.b2 = t
    BY <1>5
  <2>2. r.b2 % 8 = t
    <3>. HIDE DEF t
    <3>1. t % 8 = t
      BY <1>3a
    <3>. QED
      BY <2>1, <3>1
  <2>. QED
    BY <2>2 DEF Multiplier
<1>. HIDE DEF y, k, t, slots, m, h1, h2, h3, x1, x2, x3
<1>7. /\ m.b0 = (IF t = 0 THEN h1 ELSE 0)
      /\ m.b1 = (IF t = 0 THEN h2 + 16 * h3 ELSE 0)
      /\ m.b2 = (IF t = 0 THEN 1 ELSE 1 + BodyBits(slots))
      /\ DOMAIN m.pts = DOMAIN q.effects
      /\ \A e \in DOMAIN q.effects :
           m.pts[e] = IF e <= k THEN PointsOf(q, a, e) * (1 + t) ELSE 0
  BY <1>4, Zenon DEF BodyTells, h1, h2, h3, slots, k
<1>. DEFINE c0 == m.b0 + r.b0
            c1 == m.b1 + r.b1
            c2 == m.b2 + r.b2
<1>8. /\ c0 = (IF t = 0 THEN h1 ELSE 0) + x1
      /\ c1 = (IF t = 0 THEN h2 + 16 * h3 ELSE 0) + x2 + 16 * x3
      /\ c2 = (IF t = 0 THEN 1 ELSE 1 + BodyBits(slots)) + t
  <2>1. h2 \in 0..1 /\ h3 \in 0..1
    BY <1>1
  <2>2. c1 = (IF t = 0 THEN h2 + 16 * h3 ELSE 0) + (x2 + 16 * x3)
    BY <1>5, <1>7
  <2>. HIDE DEF c1
  <2>3. c1 = (IF t = 0 THEN h2 + 16 * h3 ELSE 0) + x2 + 16 * x3
    BY <1>2, <2>1, <2>2
  <2>. QED
    BY <1>5, <1>7, <2>3
<1>. HIDE DEF c0, c1, c2
<1>9. /\ c0 \in -128..127 /\ c1 \in -128..127 /\ c2 \in -128..127
      /\ c1 % 16 = (IF t = 0 THEN h2 ELSE 0) + x2
      /\ c1 \div 16 = (IF t = 0 THEN h3 ELSE 0) + x3
      /\ c2 % 8 = 1 + t
      /\ (IF (c2 \div 64) % 2 # 0 THEN 3 ELSE 2 * ((c2 \div 32) % 2) + ((c2 \div 8) % 4))
              = IF t = 0 THEN 0 ELSE slots
  <2>1. BodyBytes(n, t, slots, x1, x2, x3, h1, h2, h3, c0, c1, c2)
    BY <1>1, <1>2, <1>8, BodyBytesFit
  <2>. QED
    BY <2>1, Zenon DEF BodyBytes
<1>10. ASSUME NEW e \in DOMAIN q.effects
       PROVE  /\ m.pts[e] + r.pts[e] = IF e <= k THEN SetPoints(q, y, e) ELSE 0
              /\ m.pts[e] + r.pts[e] \in -128..127
              /\ SetPoints(q, y, e) \in -126..126
  <2>. DEFINE v == PointsOf(q, a, e)
              w == PartPoints(q, x, e)
              u == SetPoints(q, y, e)
  <2>1. v \in -18..18 /\ w \in (-18 * (n - t))..(18 * (n - t)) /\ u = v * (1 + t) + w
    BY <1>2, <1>3, ArmorParts
  <2>2. m.pts[e] = (IF e <= k THEN v * (1 + t) ELSE 0) /\ r.pts[e] = (IF e <= k THEN w ELSE 0)
    BY <1>5, <1>7
  <2>. HIDE DEF v, w, u
  <2>3. v * (1 + t) + w \in -126..126
    BY <1>2, <2>1, ProductFits
  <2>4. u \in -126..126
    BY <2>1, <2>3
  <2>5. CASE e <= k
    <3>1. m.pts[e] + r.pts[e] = u
      BY <2>1, <2>2, <2>5
    <3>2. u \in -128..127
      BY <2>4
    <3>. QED
      BY <2>4, <2>5, <3>1, <3>2 DEF u
  <2>6. CASE ~(e <= k)
    <3>1. m.pts[e] + r.pts[e] = 0
      BY <2>2, <2>6
    <3>. QED
      BY <2>4, <2>6, <3>1 DEF u
  <2>. QED
    BY <2>5, <2>6
<1>11. BytesFit(m, r, q.effects)
  <2>1. \A e \in DOMAIN q.effects : m.pts[e] + r.pts[e] \in -128..127
    BY <1>10
  <2>2. m.b0 + r.b0 \in -128..127 /\ m.b1 + r.b1 \in -128..127 /\ m.b2 + r.b2 \in -128..127
    BY <1>9 DEF c0, c1, c2
  <2>. QED
    BY <1>5, <1>7, <2>1, <2>2 DEF BytesFit
<1>. DEFINE key == m ++ r
<1>12. Joined(key, m, r, q.effects)
  BY <1>11, KeysAdd
<1>. HIDE DEF key
<1>13. /\ key \in Keys /\ key.b0 = c0 /\ key.b1 = c1 /\ key.b2 = c2
       /\ DOMAIN key.pts = DOMAIN q.effects
       /\ \A e \in DOMAIN q.effects : key.pts[e] = m.pts[e] + r.pts[e]
  BY <1>12 DEF Joined, c0, c1, c2
<1>14. /\ Ones(key) = SlotCount(q, y, 1)
       /\ Twos(key) = SlotCount(q, y, 2)
       /\ Threes(key) = SlotCount(q, y, 3)
  <2>1. Ones(key) = c0 /\ Twos(key) = c1 % 16 /\ Threes(key) = c1 \div 16
    BY <1>13 DEF Ones, Twos, Threes
  <2>2. SlotCount(q, y, 1) = (IF t = 0 THEN h1 ELSE 0) + x1
    BY <1>3, Zenon DEF h1, x1
  <2>3. SlotCount(q, y, 2) = (IF t = 0 THEN h2 ELSE 0) + x2
    BY <1>3, Zenon DEF h2, x2
  <2>4. SlotCount(q, y, 3) = (IF t = 0 THEN h3 ELSE 0) + x3
    BY <1>3, Zenon DEF h3, x3
  <2>. QED
    BY <1>8, <1>9, <2>1, <2>2, <2>3, <2>4
<1>15. BodySlotSum(key) = BodyHoles(q, y)
  <2>1. BodySlotSum(key)
          = IF (c2 \div 64) % 2 # 0 THEN 3 ELSE 2 * ((c2 \div 32) % 2) + ((c2 \div 8) % 4)
    BY <1>13 DEF BodySlotSum, BodyThrees, BodyTwos, BodyOnes
  <2>. DEFINE b == IF (c2 \div 64) % 2 # 0 THEN 3 ELSE 2 * ((c2 \div 32) % 2) + ((c2 \div 8) % 4)
  <2>2. BodySlotSum(key) = b
    BY <2>1
  <2>3. b = IF t = 0 THEN 0 ELSE slots
    BY <1>9
  <2>. HIDE DEF b
  <2>4. BodyHoles(q, y) = IF t = 0 THEN 0 ELSE slots
    BY <1>3
  <2>. QED
    BY <2>2, <2>3, <2>4
<1>16. Multiplier(key) = 1 + TorsoUps(q, y)
  BY <1>3, <1>9, <1>13 DEF Multiplier
<1>17. \A e \in DOMAIN q.effects :
         GetPoints(key, e) = IF e <= k THEN SetPoints(q, y, e) ELSE 0
  BY <1>10, <1>13 DEF GetPoints
<1>18. SetTells(q, key, y, k)
  BY <1>13, <1>14, <1>15, <1>16, <1>17 DEF SetTells, KeyTells
<1>19. key = BodyRefactor(l, Multiplier(r) + 1) ++ r
  BY <1>6 DEF key, m
<1>20. SetTells(q, BodyRefactor(l, Multiplier(r) + 1) ++ r, Led(a, x), FoundationEffects(q))
  BY <1>18, <1>19, Zenon DEF y, k
<1>21. \A e \in DOMAIN q.effects : SetPoints(q, Led(a, x), e) \in -126..126
  BY <1>10 DEF y
<1>22. TorsoUps(q, Led(a, x)) \in 0..6
  BY <1>3, <1>3a DEF y
<1>. QED
  BY <1>20, <1>21, <1>22

-----------------------------------------------------------------------------
(* The armors of a part, by key.                                           *)
KeyOf(q, id) == ArmorKey(Arsenal(q)[id], q.effects, FoundationEffects(q))
PartIds(q, n) == { id \in Armors(q) : OfPart(Arsenal(q), q, PartSeq[n], id) }

KeyPairs(q, n, m) == { <<KeyOf(q, id), id>> : id \in { i \in PartIds(q, n) : i <= m } }

(* One more armor.                                                         *)
LEMMA KeyPairsNext ==
  ASSUME NEW q \in Queries, NEW n, NEW m \in Armors(q)
  PROVE  KeyPairs(q, n, m) = IF OfPart(Arsenal(q), q, PartSeq[n], m)
                             THEN KeyPairs(q, n, m - 1) \union { <<KeyOf(q, m), m>> }
                             ELSE KeyPairs(q, n, m - 1)
<1>1. m \in Nat /\ \A i \in PartIds(q, n) : i \in Nat
  BY QueryParts DEF PartIds
<1>2. \A i \in PartIds(q, n) : i <= m <=> i <= m - 1 \/ i = m
  BY <1>1
<1>3. m \in PartIds(q, n) <=> OfPart(Arsenal(q), q, PartSeq[n], m)
  BY DEF PartIds
<1>4. ~(m <= m - 1) /\ m <= m
  BY <1>1
<1>5. CASE OfPart(Arsenal(q), q, PartSeq[n], m)
  <2>1. { i \in PartIds(q, n) : i <= m } = { i \in PartIds(q, n) : i <= m - 1 } \union {m}
    BY <1>2, <1>3, <1>4, <1>5
  <2>. QED
    BY <1>5, <2>1 DEF KeyPairs
<1>6. CASE ~OfPart(Arsenal(q), q, PartSeq[n], m)
  <2>1. { i \in PartIds(q, n) : i <= m } = { i \in PartIds(q, n) : i <= m - 1 }
    BY <1>2, <1>3, <1>4, <1>6
  <2>. QED
    BY <1>6, <2>1 DEF KeyPairs
<1>. QED
  BY <1>5, <1>6

(* The members of KeyPairs.                                                *)
LEMMA PairIn ==
  ASSUME NEW q, NEW n, NEW m
  PROVE  \A k, v : <<k, v>> \in KeyPairs(q, n, m)
           <=> v \in PartIds(q, n) /\ v <= m /\ k = KeyOf(q, v)
  BY DEF KeyPairs

(* ArmorGroups groups the armors of the part by their keys.                *)
LEMMA ArmorGroupsMade ==
  ASSUME NEW q \in Queries, NEW n
  PROVE  Grouped(ArmorGroups(Arsenal(q), q, PartSeq[n]), Keys,
                 KeyPairs(q, n, Len(Arsenal(q))))
<1>. DEFINE N == Len(Arsenal(q))
            ar == Arsenal(q)
            w == PartSeq[n]
            S == [m \in 0..N |-> { x \in GroupsOf(Keys) : Grouped(x, Keys, KeyPairs(q, n, m)) }]
<1>1. N \in Nat /\ Armors(q) = 1..N
  BY QueryParts
<1>2. \A m \in 0..N : S[m] \subseteq GroupsOf(Keys)
  OBVIOUS
<1>3. \A x : \A m \in 0..N : x \in S[m] <=> Grouped(x, Keys, KeyPairs(q, n, m))
  BY DEF Grouped
<1>4. <<>> \in S[0]
  <2>1. \A i \in PartIds(q, n) : ~(i <= 0)
    BY <1>1 DEF PartIds
  <2>2. KeyPairs(q, n, 0) = {}
    BY <2>1 DEF KeyPairs
  <2>3. Grouped(<<>>, Keys, {})
    BY NothingGrouped
  <2>4. 0 \in 0..N
    BY <1>1
  <2>. HIDE DEF S
  <2>. QED
    BY <1>3, <2>2, <2>3, <2>4
<1>5. ASSUME NEW m \in 1..N, NEW x \in S[m - 1]
      PROVE  (IF OfPart(ar, q, w, m)
              THEN Push(x, ArmorKey(ar[m], q.effects, FoundationEffects(q)), m)
              ELSE x) \in S[m]
  <2>0. m \in 0..N /\ m - 1 \in 0..N /\ m \in Armors(q) /\ m \in Nat
    BY <1>1
  <2>1. Grouped(x, Keys, KeyPairs(q, n, m - 1))
    <3>. HIDE DEF S
    <3>. QED
      BY <1>3, <2>0
  <2>2. KeyOf(q, m) \in Keys
    BY <2>0, ArmorKeyTells DEF KeyOf, ArmorTells
  <2>3. \A l : <<l, m>> \notin KeyPairs(q, n, m - 1)
    <3>1. ~(m <= m - 1)
      BY <2>0
    <3>. QED
      BY <3>1, PairIn
  <2>4. Grouped(Push(x, KeyOf(q, m), m), Keys, KeyPairs(q, n, m - 1) \union { <<KeyOf(q, m), m>> })
    BY <2>0, <2>1, <2>2, <2>3, PushLists
  <2>. HIDE DEF S
  <2>5. CASE OfPart(ar, q, w, m)
    <3>1. KeyPairs(q, n, m) = KeyPairs(q, n, m - 1) \union { <<KeyOf(q, m), m>> }
      BY <2>0, <2>5, KeyPairsNext
    <3>2. Push(x, KeyOf(q, m), m) \in S[m]
      BY <1>3, <2>0, <2>4, <3>1
    <3>. QED
      BY <2>5, <3>2 DEF KeyOf
  <2>6. CASE ~OfPart(ar, q, w, m)
    <3>1. KeyPairs(q, n, m) = KeyPairs(q, n, m - 1)
      BY <2>0, <2>6, KeyPairsNext
    <3>2. x \in S[m]
      BY <1>3, <2>0, <2>1, <3>1
    <3>. QED
      BY <2>6, <3>2
  <2>. QED
    BY <2>5, <2>6
<1>. HIDE DEF S
<1>6. ArmorGroups(ar, q, w) \in S[N]
  <2>. HIDE DEF w
  <2>. QED
    BY <1>1, <1>2, <1>4, <1>5, ArmorGroupsLoop
<1>7. N \in 0..N
  BY <1>1
<1>. QED
  BY <1>3, <1>6, <1>7

-----------------------------------------------------------------------------
(* The forest of a part: a leaf for each key.                              *)
Alone(ids) == { <<a>> : a \in ids }
LeafTell(q) == { <<KeyOf(q, a), <<a>> >> : a \in Armors(q) }

(* A forest stays one while the pool grows.                                *)
LEMMA ForestStays ==
  ASSUME NEW p \in Pools, NEW r \in Pools, Extends(p, r),
         NEW ids, NEW tag, NEW D, NEW tell, Forested(p, ids, tag, D, tell)
  PROVE  Forested(r, ids, tag, D, tell)
<1>1. Holds(p, ids, D) /\ Holds(r, ids, D)
  BY HoldsStill DEF Forested
<1>2. ASSUME NEW m \in DOMAIN ids
      PROVE  r.ors[ids[m]] = p.ors[ids[m]] /\ SetsOf(r, ids[m]) = SetsOf(p, ids[m])
  <2>1. ids[m] \in DOMAIN p.ors
    BY <1>1 DEF Holds
  <2>2. ids[m] \in 1..Len(p.ors)
    BY <2>1, PoolParts
  <2>. QED
    BY <2>1, <2>2, SetsStay DEF Extends
<1>3. ASSUME NEW m \in DOMAIN ids
      PROVE  /\ r.ors[ids[m]].tag = tag
             /\ \A x \in SetsOf(r, ids[m]) : <<r.ors[ids[m]].key, x>> \in tell
  BY <1>2 DEF Forested
<1>. QED
  BY <1>1, <1>3 DEF Forested

Classified(q, acc, n) ==
  /\ acc \in [pool : Pools, forests : Seq(Seq(Nat))]
  /\ Sound(acc.pool, Armors(q))
  /\ Len(acc.forests) = n
  /\ \A m \in 1..n :
       Forested(acc.pool, acc.forests[m], "ARMORS", Alone(PartIds(q, m)), LeafTell(q))

(* One more part of ClassifyArmors.                                        *)
LEMMA PartClassified ==
  ASSUME NEW q \in Queries, NEW n \in Nat, n # 0,
         NEW acc, Classified(q, acc, n - 1)
  PROVE  Classified(q, ClassifyPart(acc, ArmorGroups(Arsenal(q), q, PartSeq[n])), n)
<1>. DEFINE p == acc.pool
            groups == ArmorGroups(Arsenal(q), q, PartSeq[n])
            rel == KeyPairs(q, n, Len(Arsenal(q)))
            r == MakeORs(p, "ARMORS", groups)
            ids == IdsAfter(p, groups)
            D == Alone(PartIds(q, n))
            tell == LeafTell(q)
            A == Armors(q)
            after == ClassifyPart(acc, groups)
<1>1. /\ p \in Pools /\ Sound(p, A)
      /\ acc.forests \in Seq(Seq(Nat)) /\ Len(acc.forests) = n - 1
      /\ \A m \in 1..(n - 1) :
           Forested(p, acc.forests[m], "ARMORS", Alone(PartIds(q, m)), tell)
  BY DEF Classified
<1>2. Grouped(groups, Keys, rel)
  BY ArmorGroupsMade
<1>3. after = [pool |-> r, forests |-> Append(acc.forests, ids)]
  BY DEF ClassifyPart
<1>4. \A k, v : <<k, v>> \in rel => v \in A /\ <<v>> \in D /\ <<k, <<v>> >> \in tell
  BY PairIn DEF PartIds, LeafTell, Alone
<1>5. \A x \in D : \E k, v : <<k, v>> \in rel /\ x = <<v>>
  <2>1. ASSUME NEW x \in D PROVE \E k, v : <<k, v>> \in rel /\ x = <<v>>
    <3>1. PICK a \in PartIds(q, n) : x = <<a>>
      BY DEF Alone
    <3>2. a <= Len(Arsenal(q))
      BY QueryParts DEF PartIds
    <3>3. <<KeyOf(q, a), a>> \in rel
      BY <3>2, PairIn
    <3>. QED
      BY <3>1, <3>3
  <2>. QED
    BY <2>1
<1>6. groups \in GroupsOf(Keys)
  BY <1>2 DEF Grouped
<1>. HIDE DEF groups, rel, D, tell, A, p
<1>7. NodesMade(p, r, "ARMORS", groups, groups, D, tell, A)
  BY <1>1, <1>2, <1>4, <1>5, <1>6, LeavesHold
<1>8. Forested(r, ids, "ARMORS", D, tell)
  BY <1>1, <1>7, ForestMade
<1>. HIDE DEF r, ids
<1>9. r \in Pools /\ Extends(p, r) /\ Sound(r, A)
  BY <1>7 DEF NodesMade
<1>10. ids \in Seq(Nat)
  BY <1>8 DEF Forested, Holds
<1>11. /\ Append(acc.forests, ids) \in Seq(Seq(Nat))
       /\ Len(Append(acc.forests, ids)) = n
       /\ Append(acc.forests, ids)[n] = ids
       /\ \A m \in 1..(n - 1) : Append(acc.forests, ids)[m] = acc.forests[m]
  <2>. DEFINE fs == acc.forests
  <2>. HIDE DEF fs
  <2>1. fs \in Seq(Seq(Nat)) /\ Len(fs) = n - 1
    BY <1>1 DEF fs
  <2>2. /\ Append(fs, ids) \in Seq(Seq(Nat)) /\ Len(Append(fs, ids)) = Len(fs) + 1
        /\ \A m \in 1..Len(fs) : Append(fs, ids)[m] = fs[m]
        /\ Append(fs, ids)[Len(fs) + 1] = ids
    BY <1>10, <2>1, AppendProperties
  <2>3. Len(fs) + 1 = n
    BY <2>1
  <2>. QED
    BY <2>1, <2>2, <2>3 DEF fs
<1>12. ASSUME NEW m \in 1..n
       PROVE  Forested(r, Append(acc.forests, ids)[m], "ARMORS", Alone(PartIds(q, m)), tell)
  <2>1. CASE m = n
    BY <1>8, <1>11, <2>1 DEF D
  <2>2. CASE m # n
    <3>1. m \in 1..(n - 1)
      BY <2>2
    <3>. QED
      BY <1>1, <1>9, <1>11, <3>1, ForestStays
  <2>. QED
    BY <2>1, <2>2
<1>13. after.pool = r /\ after.forests = Append(acc.forests, ids)
       /\ after \in [pool : Pools, forests : Seq(Seq(Nat))]
  BY <1>3, <1>9, <1>11
<1>. HIDE DEF after
<1>14. Classified(q, after, n)
  BY <1>9, <1>11, <1>12, <1>13 DEF Classified, A, tell
<1>. QED
  BY <1>14 DEF after, groups

(* Before the first part.                                                  *)
LEMMA NothingClassified ==
  ASSUME NEW q PROVE Classified(q, [pool |-> EmptyPool, forests |-> <<>>], 0)
<1>. DEFINE acc == [pool |-> EmptyPool, forests |-> <<>>]
<1>1. acc.pool = EmptyPool /\ acc.forests = <<>>
  OBVIOUS
<1>2. EmptyPool.ors = <<>> /\ EmptyPool.ands = <<>>
  BY DEF EmptyPool
<1>3. EmptyPool \in Pools
  <2>1. EmptyPool \in [ors : Seq(OrNodes), ands : Seq(AndNodes)]
    BY DEF EmptyPool
  <2>2. DOMAIN EmptyPool.ors = {} /\ DOMAIN EmptyPool.ands = {}
    BY <1>2
  <2>. QED
    BY <2>1, <2>2 DEF Pools
<1>4. Sound(EmptyPool, Armors(q))
  <2>1. DOMAIN EmptyPool.ors = {}
    BY <1>2
  <2>. QED
    BY <2>1 DEF Sound
<1>5. acc \in [pool : Pools, forests : Seq(Seq(Nat))] /\ Len(acc.forests) = 0
  BY <1>1, <1>3
<1>. HIDE DEF acc
<1>6. Classified(q, acc, 0)
  BY <1>1, <1>4, <1>5 DEF Classified
<1>. QED
  BY <1>6 DEF acc

(* There are two to seven parts, the body is the last one.                 *)
LEMMA PartNum == PART_NUM \in 2..7 /\ PART_NUM \in Nat /\ Body = PART_NUM
  BY QueriesAssumption DEF Body

(* All the parts: ClassifyArmors makes a forest for each.                  *)
LEMMA ArmorsClassified ==
  ASSUME NEW q \in Queries
  PROVE  Classified(q, ClassifyArmors(Arsenal(q), q), PART_NUM)
<1>. DEFINE Accs == [pool : Pools, forests : Seq(Seq(Nat))]
            S == [n \in 0..PART_NUM |-> { x \in Accs : Classified(q, x, n) }]
<1>1. PART_NUM \in Nat
  BY PartNum
<1>2. \A n \in 0..PART_NUM : S[n] \subseteq Accs
  OBVIOUS
<1>3. \A x : \A n \in 0..PART_NUM : x \in S[n] <=> Classified(q, x, n)
  BY DEF Classified
<1>4. [pool |-> EmptyPool, forests |-> <<>>] \in S[0]
  <2>1. 0 \in 0..PART_NUM
    BY <1>1
  <2>2. Classified(q, [pool |-> EmptyPool, forests |-> <<>>], 0)
    BY NothingClassified
  <2>. HIDE DEF S
  <2>. QED
    BY <1>3, <2>1, <2>2
<1>5. ASSUME NEW n \in 1..PART_NUM, NEW x \in S[n - 1]
      PROVE  ClassifyPart(x, ArmorGroups(Arsenal(q), q, PartSeq[n])) \in S[n]
  <2>1. n \in 0..PART_NUM /\ n - 1 \in 0..PART_NUM /\ n \in Nat /\ n # 0
    BY <1>1
  <2>. HIDE DEF S
  <2>2. Classified(q, x, n - 1)
    BY <1>3, <2>1
  <2>3. Classified(q, ClassifyPart(x, ArmorGroups(Arsenal(q), q, PartSeq[n])), n)
    BY <2>1, <2>2, PartClassified
  <2>. QED
    BY <1>3, <2>1, <2>3
<1>. HIDE DEF S
<1>6. ClassifyArmors(Arsenal(q), q) \in S[PART_NUM]
  <2>. HIDE DEF Accs
  <2>. QED
    BY <1>1, <1>2, <1>4, <1>5, ClassifyLoop
<1>7. PART_NUM \in 0..PART_NUM
  BY <1>1
<1>. QED
  BY <1>3, <1>6, <1>7

-----------------------------------------------------------------------------
(* Sequences taken apart at the front.                                     *)
LEMMA IsLed ==
  ASSUME NEW A, NEW x \in Seq(A), NEW n \in Nat, Len(x) = n + 1
  PROVE  \E y \in Seq(A) : /\ x[1] \in A /\ Len(y) = n
                           /\ x = Led(x[1], y)
                           /\ \A i \in 1..n : y[i] = x[i + 1]
<1>. DEFINE y == [i \in 1..n |-> x[i + 1]]
<1>1. DOMAIN x = 1..(n + 1)
  BY LenProperties
<1>2. x[1] \in A /\ \A i \in 1..n : x[i + 1] \in A
  <2>1. 1 \in DOMAIN x /\ \A i \in 1..n : i + 1 \in DOMAIN x
    BY <1>1
  <2>. QED
    BY <2>1, ElementOfSeq
<1>3. y \in [1..n -> A] /\ DOMAIN y = 1..n /\ \A i \in 1..n : y[i] = x[i + 1]
  BY <1>2
<1>. HIDE DEF y
<1>4. y \in Seq(A) /\ Len(y) = n
  <2>1. y \in Seq(A)
    BY <1>3, SeqDef
  <2>. QED
    BY <1>3, <2>1, LenProperties
<1>5. /\ Led(x[1], y) \in Seq(A) /\ Len(Led(x[1], y)) = n + 1
      /\ Led(x[1], y)[1] = x[1] /\ \A i \in 1..n : Led(x[1], y)[i + 1] = y[i]
  <2>. DEFINE a == x[1]
  <2>. HIDE DEF a
  <2>1. a \in A /\ y \in Seq(A)
    BY <1>2, <1>4 DEF a
  <2>2. /\ Led(a, y) \in Seq(A) /\ Len(Led(a, y)) = Len(y) + 1
        /\ Led(a, y)[1] = a /\ \A i \in 1..Len(y) : Led(a, y)[i + 1] = y[i]
    BY <2>1, InFront
  <2>. QED
    BY <1>4, <2>2 DEF a
<1>6. ASSUME NEW i \in 1..(n + 1) PROVE Led(x[1], y)[i] = x[i]
  <2>1. CASE i = 1
    BY <1>5, <2>1
  <2>2. CASE i # 1
    <3>1. i - 1 \in 1..n /\ (i - 1) + 1 = i
      BY <2>2
    <3>2. Led(x[1], y)[(i - 1) + 1] = y[i - 1] /\ y[i - 1] = x[(i - 1) + 1]
      BY <1>3, <1>5, <3>1
    <3>. QED
      BY <3>1, <3>2
  <2>. QED
    BY <2>1, <2>2
<1>7. x = Led(x[1], y)
  <2>. DEFINE z == Led(x[1], y)
  <2>1. z \in Seq(A) /\ Len(z) = Len(x) /\ \A i \in 1..Len(x) : z[i] = x[i]
    BY <1>5, <1>6
  <2>. HIDE DEF z
  <2>2. z = x
    BY <2>1, SeqEqual
  <2>. QED
    BY <2>2 DEF z
<1>. QED
  BY <1>2, <1>3, <1>4, <1>7

(* What a sequence of armors adds, whatever they are.                      *)
LEMMA BoundsHold ==
  ASSUME NEW q \in Queries
  PROVE  \A x \in Seq(Armors(q)) : PartBounds(q, x, Len(x))
<1>. DEFINE A == Armors(q)
            T == { n \in Nat : \A x \in Seq(A) : Len(x) = n => PartBounds(q, x, n) }
<1>1. 0 \in T
  <2>1. \A x \in Seq(A) : Len(x) = 0 => x = <<>>
    OBVIOUS
  <2>. QED
    BY <2>1, BoundsNone
<1>2. ASSUME NEW n \in Nat, n \in T PROVE n + 1 \in T
  <2>1. ASSUME NEW x \in Seq(A), Len(x) = n + 1 PROVE PartBounds(q, x, n + 1)
    <3>1. PICK y \in Seq(A) : x[1] \in A /\ Len(y) = n /\ x = Led(x[1], y)
      BY <2>1, IsLed
    <3>2. PartBounds(q, y, n)
      BY <1>2, <3>1
    <3>. DEFINE a == x[1]
    <3>. HIDE DEF a
    <3>3. a \in Armors(q) /\ y \in Seq(Armors(q)) /\ x = Led(a, y)
      BY <3>1 DEF a
    <3>. QED
      BY <3>2, <3>3, BoundsLed
  <2>. QED
    BY <2>1
<1>. HIDE DEF T
<1>3. Nat \subseteq T
  BY <1>1, <1>2, NatSetInduction
<1>4. ASSUME NEW x \in Seq(Armors(q)) PROVE PartBounds(q, x, Len(x))
  <2>1. Len(x) \in T
    BY <1>3
  <2>. QED
    BY <2>1 DEF T
<1>. QED
  BY <1>4

-----------------------------------------------------------------------------
(* The sets of the first n parts, the last of them in front.               *)
PartialSets(q, n) ==
  { x \in Seq(Armors(q)) : Len(x) = n /\ \A i \in 1..n : x[i] \in PartIds(q, n - i + 1) }

(* One more part in front.                                                 *)
LEMMA PartialNext ==
  ASSUME NEW q, NEW n \in Nat
  PROVE  PartialSets(q, n + 1) = Prefixed(PartIds(q, n + 1), PartialSets(q, n))
<1>. DEFINE A == Armors(q)
<1>1. ASSUME NEW x \in PartialSets(q, n + 1)
      PROVE  x \in Prefixed(PartIds(q, n + 1), PartialSets(q, n))
  <2>1. x \in Seq(A) /\ Len(x) = n + 1
        /\ \A i \in 1..(n + 1) : x[i] \in PartIds(q, (n + 1) - i + 1)
    BY DEF PartialSets
  <2>2. PICK y \in Seq(A) : /\ x[1] \in A /\ Len(y) = n /\ x = Led(x[1], y)
                            /\ \A i \in 1..n : y[i] = x[i + 1]
    <3>. HIDE DEF A
    <3>. QED
      BY <2>1, IsLed
  <2>3. x[1] \in PartIds(q, n + 1)
    <3>1. 1 \in 1..(n + 1) /\ (n + 1) - 1 + 1 = n + 1
      OBVIOUS
    <3>. QED
      BY <2>1, <3>1
  <2>4. ASSUME NEW i \in 1..n PROVE y[i] \in PartIds(q, n - i + 1)
    <3>1. i + 1 \in 1..(n + 1) /\ (n + 1) - (i + 1) + 1 = n - i + 1
      OBVIOUS
    <3>2. x[i + 1] \in PartIds(q, (n + 1) - (i + 1) + 1)
      BY <2>1, <3>1
    <3>. QED
      BY <2>2, <3>1, <3>2
  <2>5. y \in PartialSets(q, n)
    BY <2>2, <2>4 DEF PartialSets
  <2>. QED
    BY <2>2, <2>3, <2>5, PrefixedBy
<1>2. ASSUME NEW z \in Prefixed(PartIds(q, n + 1), PartialSets(q, n))
      PROVE  z \in PartialSets(q, n + 1)
  <2>1. PICK a \in PartIds(q, n + 1) : \E y \in PartialSets(q, n) : z = Led(a, y)
    BY PrefixedBy
  <2>2. PICK y \in PartialSets(q, n) : z = Led(a, y)
    BY <2>1
  <2>3. a \in A /\ y \in Seq(A) /\ Len(y) = n /\ \A i \in 1..n : y[i] \in PartIds(q, n - i + 1)
    BY DEF PartIds, PartialSets
  <2>4. /\ z \in Seq(A) /\ Len(z) = n + 1 /\ z[1] = a /\ \A i \in 1..n : z[i + 1] = y[i]
    <3>. HIDE DEF A
    <3>0. a \in A /\ y \in Seq(A)
      BY <2>3
    <3>1. /\ Led(a, y) \in Seq(A) /\ Len(Led(a, y)) = Len(y) + 1
          /\ Led(a, y)[1] = a /\ \A i \in 1..Len(y) : Led(a, y)[i + 1] = y[i]
      BY <3>0, InFront
    <3>. QED
      BY <2>2, <2>3, <3>1
  <2>5. ASSUME NEW i \in 1..(n + 1) PROVE z[i] \in PartIds(q, (n + 1) - i + 1)
    <3>1. CASE i = 1
      <4>1. (n + 1) - 1 + 1 = n + 1
        OBVIOUS
      <4>. QED
        BY <2>4, <3>1, <4>1
    <3>2. CASE i # 1
      <4>1. i - 1 \in 1..n /\ (i - 1) + 1 = i /\ n - (i - 1) + 1 = (n + 1) - i + 1
        BY <3>2
      <4>2. z[(i - 1) + 1] = y[i - 1] /\ y[i - 1] \in PartIds(q, n - (i - 1) + 1)
        BY <2>3, <2>4, <4>1
      <4>. QED
        BY <4>1, <4>2
    <3>. QED
      BY <3>1, <3>2
  <2>. QED
    BY <2>4, <2>5 DEF PartialSets
<1>. QED
  BY <1>1, <1>2

(* The sets of the first part.                                             *)
LEMMA PartialFirst ==
  ASSUME NEW q
  PROVE  PartialSets(q, 1) = Alone(PartIds(q, 1))
<1>1. ASSUME NEW x \in PartialSets(q, 1) PROVE x \in Alone(PartIds(q, 1))
  <2>1. x \in Seq(Armors(q)) /\ Len(x) = 1 /\ x[1] \in PartIds(q, 1)
    <3>1. 1 \in 1..1 /\ 1 - 1 + 1 = 1
      OBVIOUS
    <3>2. \A i \in 1..1 : x[i] \in PartIds(q, 1 - i + 1)
      BY DEF PartialSets
    <3>3. x[1] \in PartIds(q, 1 - 1 + 1)
      BY <3>1, <3>2
    <3>. QED
      BY <3>1, <3>3 DEF PartialSets
  <2>2. x = <<x[1]>>
    BY <2>1
  <2>. QED
    BY <2>1, <2>2 DEF Alone
<1>2. ASSUME NEW a \in PartIds(q, 1) PROVE <<a>> \in PartialSets(q, 1)
  <2>1. <<a>> \in Seq(Armors(q)) /\ Len(<<a>>) = 1 /\ <<a>>[1] = a
    BY DEF PartIds
  <2>2. ASSUME NEW i \in 1..1 PROVE <<a>>[i] \in PartIds(q, 1 - i + 1)
    <3>1. i = 1 /\ 1 - 1 + 1 = 1
      OBVIOUS
    <3>. QED
      BY <2>1, <3>1
  <2>. QED
    BY <2>1, <2>2 DEF PartialSets
<1>. QED
  BY <1>1, <1>2 DEF Alone

(* The sets of all parts are the sets the query admits.                    *)
LEMMA AdmittedAre ==
  ASSUME NEW q
  PROVE  AdmittedSets(q) = PartialSets(q, PART_NUM)
<1>1. PART_NUM \in Nat
  BY PartNum
<1>2. ASSUME NEW x \in AdmittedSets(q) PROVE x \in PartialSets(q, PART_NUM)
  <2>1. x \in [1..PART_NUM -> Armors(q)]
    BY DEF AdmittedSets, Armors
  <2>2. x \in Seq(Armors(q)) /\ Len(x) = PART_NUM
    <3>1. x \in Seq(Armors(q)) /\ DOMAIN x = 1..PART_NUM
      BY <1>1, <2>1, SeqDef
    <3>. QED
      BY <1>1, <3>1, LenProperties
  <2>3. \A i \in 1..PART_NUM : x[i] \in PartIds(q, PART_NUM - i + 1)
    BY <2>1 DEF AdmittedSets, PartIds
  <2>. QED
    BY <2>2, <2>3 DEF PartialSets
<1>3. ASSUME NEW x \in PartialSets(q, PART_NUM) PROVE x \in AdmittedSets(q)
  <2>1. x \in Seq(Armors(q)) /\ Len(x) = PART_NUM
        /\ \A i \in 1..PART_NUM : x[i] \in PartIds(q, PART_NUM - i + 1)
    BY DEF PartialSets
  <2>2. x \in [1..PART_NUM -> DOMAIN Arsenal(q)]
    <3>1. x \in [1..Len(x) -> Armors(q)]
      BY <2>1, LenProperties
    <3>. QED
      BY <2>1, <3>1 DEF Armors
  <2>. QED
    BY <2>1, <2>2 DEF AdmittedSets, PartIds
<1>. QED
  BY <1>2, <1>3

-----------------------------------------------------------------------------
(* What the keys of the roots promise, before the body and after it.       *)
PartTell(q) ==
  { told \in Keys \X Seq(Armors(q)) : PartTells(q, told[1], told[2]) }
SetTell(q, effects) ==
  { told \in Keys \X Seq(Armors(q)) : SetTells(q, told[1], told[2], effects) }
TellAfter(q, n) == IF n = Body THEN SetTell(q, FoundationEffects(q)) ELSE PartTell(q)

(* The members of PartTell and SetTell.                                    *)
LEMMA TellIs ==
  ASSUME NEW q
  PROVE  /\ \A k, x : <<k, x>> \in PartTell(q)
              <=> k \in Keys /\ x \in Seq(Armors(q)) /\ PartTells(q, k, x)
         /\ \A k, x, effects : <<k, x>> \in SetTell(q, effects)
              <=> k \in Keys /\ x \in Seq(Armors(q)) /\ SetTells(q, k, x, effects)
  BY DEF PartTell, SetTell

(* The armors of the last part, and only they, are bodies.                 *)
LEMMA PartIsBody ==
  ASSUME NEW q \in Queries, NEW n \in 1..PART_NUM, NEW a \in PartIds(q, n)
  PROVE  a \in Armors(q) /\ (Arsenal(q)[a].part = "BODY" <=> n = Body)
<1>1. a \in Armors(q) /\ Arsenal(q)[a].part = PartSeq[n]
  BY DEF PartIds, OfPart
<1>2. PART_NUM \in 1..PART_NUM /\ PART_NUM = Body
  BY PartNum
<1>3. PartSeq[n] = "BODY" <=> n = PART_NUM
  BY <1>2, PartsAssumption
<1>. QED
  BY <1>1, <1>2, <1>3

(* The key of an armor tells of the set that is that armor.                *)
LEMMA AloneTells ==
  ASSUME NEW q \in Queries, NEW a \in Armors(q), Arsenal(q)[a].part # "BODY",
         NEW key, ArmorTells(q, key, a)
  PROVE  PartTells(q, key, <<a>>)
<1>. DEFINE A == Armors(q)
            one == <<a>>
            two == Led(a, <<>>)
<1>1. one \in Seq(A) /\ Len(one) = 1 /\ one[1] = a /\ <<>> \in Seq(A) /\ Len(<<>>) = 0
  OBVIOUS
<1>2. two \in Seq(A) /\ Len(two) = Len(<<>>) + 1 /\ two[1] = a
  <2>. DEFINE x == <<>>
  <2>1. a \in A /\ x \in Seq(A)
    OBVIOUS
  <2>. HIDE DEF A, x
  <2>2. Led(a, x) \in Seq(A) /\ Len(Led(a, x)) = Len(x) + 1 /\ Led(a, x)[1] = a
    BY <2>1, InFront
  <2>. QED
    BY <2>2 DEF x
<1>. HIDE DEF one, two
<1>3. Len(two) = Len(one) /\ \A i \in 1..Len(one) : two[i] = one[i]
  BY <1>1, <1>2
<1>4. one = Led(a, <<>>) /\ <<>> \in Seq(A)
  <2>1. one = two
    BY <1>1, <1>2, <1>3, SeqEqual
  <2>. QED
    BY <1>1, <2>1 DEF two
<1>5. /\ SlotsLike(q, <<>>, 1) = 0 /\ SlotsLike(q, <<>>, 2) = 0 /\ SlotsLike(q, <<>>, 3) = 0
      /\ TorsoUps(q, <<>>) = 0 /\ \A e : PartPoints(q, <<>>, e) = 0
  BY NumbersNone
<1>6. /\ SlotsLike(q, one, 1) = Hole(q, a, 1) + SlotsLike(q, <<>>, 1)
      /\ SlotsLike(q, one, 2) = Hole(q, a, 2) + SlotsLike(q, <<>>, 2)
      /\ SlotsLike(q, one, 3) = Hole(q, a, 3) + SlotsLike(q, <<>>, 3)
      /\ TorsoUps(q, one) = Up(q, a) + TorsoUps(q, <<>>)
      /\ \A e \in DOMAIN q.effects :
           PartPoints(q, one, e) = PointsOf(q, a, e) + PartPoints(q, <<>>, e)
  BY <1>4, NumbersLed
<1>7. /\ Hole(q, a, 1) \in 0..1 /\ Hole(q, a, 2) \in 0..1 /\ Hole(q, a, 3) \in 0..1
      /\ Up(q, a) \in 0..1
  BY ArmorParts
<1>8. /\ SlotsLike(q, one, 1) = Hole(q, a, 1) /\ SlotsLike(q, one, 2) = Hole(q, a, 2)
      /\ SlotsLike(q, one, 3) = Hole(q, a, 3) /\ TorsoUps(q, one) = Up(q, a)
  BY <1>5, <1>6, <1>7
<1>9. ASSUME NEW e \in DOMAIN q.effects PROVE PartPoints(q, one, e) = PointsOf(q, a, e)
  <2>. DEFINE v == PointsOf(q, a, e)
  <2>1. v \in -18..18
    BY ArmorParts
  <2>2. PartPoints(q, one, e) = v + 0
    BY <1>5, <1>6
  <2>. HIDE DEF v
  <2>3. v + 0 = v
    BY <2>1
  <2>. QED
    BY <2>2, <2>3, Zenon DEF v
<1>10. PartTells(q, key, one)
  BY <1>8, <1>9 DEF ArmorTells, PartTells
<1>. QED
  BY <1>10 DEF one

(* The key of a leaf is that of its armors.                                *)
LEMMA LeafKey ==
  ASSUME NEW q \in Queries, NEW a, NEW k, <<k, <<a>> >> \in LeafTell(q)
  PROVE  a \in Armors(q) /\ ArmorTells(q, k, a)
<1>1. PICK b \in Armors(q) : k = KeyOf(q, b) /\ <<a>> = <<b>>
  BY DEF LeafTell
<1>2. a = b
  BY <1>1
<1>. QED
  BY <1>1, <1>2, ArmorKeyTells DEF KeyOf

(* The forest of the first part.                                           *)
LEMMA FirstForest ==
  ASSUME NEW q \in Queries, NEW p, NEW ids,
         Forested(p, ids, "ARMORS", Alone(PartIds(q, 1)), LeafTell(q))
  PROVE  Forested(p, ids, "ARMORS", PartialSets(q, 1), PartTell(q))
<1>1. PartialSets(q, 1) = Alone(PartIds(q, 1))
  BY PartialFirst
<1>2. 1 \in 1..PART_NUM /\ 1 # Body
  BY PartNum
<1>3. ASSUME NEW m \in DOMAIN ids, NEW x \in SetsOf(p, ids[m])
      PROVE  <<p.ors[ids[m]].key, x>> \in PartTell(q)
  <2>1. x \in Alone(PartIds(q, 1))
    BY DEF Forested, Holds
  <2>2. PICK a \in PartIds(q, 1) : x = <<a>>
    BY <2>1 DEF Alone
  <2>3. a \in Armors(q) /\ Arsenal(q)[a].part # "BODY"
    BY <1>2, PartIsBody
  <2>4. <<p.ors[ids[m]].key, <<a>> >> \in LeafTell(q)
    BY <2>2 DEF Forested
  <2>5. ArmorTells(q, p.ors[ids[m]].key, a)
    BY <2>4, LeafKey
  <2>6. PartTells(q, p.ors[ids[m]].key, <<a>>)
    BY <2>3, <2>5, AloneTells
  <2>7. <<a>> \in Seq(Armors(q)) /\ p.ors[ids[m]].key \in Keys
    BY <2>3, <2>5 DEF ArmorTells
  <2>. QED
    BY <2>2, <2>6, <2>7, TellIs
<1>. QED
  BY <1>1, <1>3 DEF Forested

(* What a merge needs, when the forests are as they should be.             *)
LEMMA MergeIsReady ==
  ASSUME NEW q \in Queries, NEW n \in 1..(PART_NUM - 1),
         NEW p \in Pools, Sound(p, Armors(q)),
         NEW lefts, Forested(p, lefts, "ARMORS", Alone(PartIds(q, n + 1)), LeafTell(q)),
         NEW rights, NEW tag, Forested(p, rights, tag, PartialSets(q, n), PartTell(q))
  PROVE  MergeReady(p, lefts, rights, n + 1 = Body, PartIds(q, n + 1), PartialSets(q, n),
                    TellAfter(q, n + 1), Armors(q))
<1>. DEFINE A == Armors(q)
            I == PartIds(q, n + 1)
            D == PartialSets(q, n)
            is_body == (n + 1 = Body)
            tell == TellAfter(q, n + 1)
<1>1. A \in SUBSET Nat /\ I \in SUBSET A /\ D \in SUBSET Seq(A)
  BY QueryParts DEF PartIds, PartialSets
<1>2. Holds(p, lefts, { <<a>> : a \in I }) /\ Holds(p, rights, D)
  BY DEF Forested, Alone
<1>3. \A m \in DOMAIN lefts : p.ors[lefts[m]].tag = "ARMORS"
  BY DEF Forested
<1>4. n \in 0..6 /\ n + 1 \in 1..PART_NUM
  BY PartNum
<1>5. ASSUME NEW m \in DOMAIN lefts, NEW j \in DOMAIN rights,
             NEW a \in ToSet(p.ors[lefts[m]].daughters), NEW y \in SetsOf(p, rights[j])
      PROVE  /\ JoinedKey(p, lefts[m], rights[j], is_body) \in Keys
             /\ <<JoinedKey(p, lefts[m], rights[j], is_body), Led(a, y)>> \in tell
  <2>. DEFINE l == p.ors[lefts[m]].key
              r == p.ors[rights[j]].key
              key == JoinedKey(p, lefts[m], rights[j], is_body)
  <2>1. <<a>> \in SetsOf(p, lefts[m])
    <3>1. lefts[m] \in DOMAIN p.ors
      BY <1>2 DEF Holds
    <3>2. SetsOf(p, lefts[m]) = { <<b>> : b \in ToSet(p.ors[lefts[m]].daughters) }
      BY <1>3, <3>1, SetsUnfold
    <3>. QED
      BY <3>2
  <2>2. <<l, <<a>> >> \in LeafTell(q)
    BY <2>1 DEF Forested
  <2>3. a \in A /\ ArmorTells(q, l, a)
    <3>. HIDE DEF l
    <3>. QED
      BY <2>2, LeafKey
  <2>4. a \in I
    <3>1. <<a>> \in { <<b>> : b \in I }
      BY <1>2, <2>1 DEF Holds
    <3>. QED
      BY <3>1
  <2>5. Arsenal(q)[a].part = "BODY" <=> is_body
    BY <1>4, <2>4, PartIsBody
  <2>6. y \in D /\ <<r, y>> \in PartTell(q)
    BY <1>2 DEF Forested, Holds
  <2>7. y \in Seq(A) /\ PartTells(q, r, y) /\ Len(y) = n
    <3>. HIDE DEF r
    <3>. QED
      BY <2>6, TellIs DEF PartialSets
  <2>8. PartBounds(q, y, n)
    BY <2>7, BoundsHold
  <2>9. Led(a, y) \in Seq(A)
    <3>1. a \in A /\ y \in Seq(A)
      BY <2>3, <2>7
    <3>. HIDE DEF A
    <3>. QED
      BY <3>1, InFront
  <2>10. key = (IF is_body THEN BodyRefactor(l, Multiplier(r) + 1) ELSE l) ++ r
    BY DEF JoinedKey
  <2>. HIDE DEF l, r, key
  <2>11. CASE is_body
    <3>1. SetTells(q, BodyRefactor(l, Multiplier(r) + 1) ++ r, Led(a, y), FoundationEffects(q))
      BY <1>4, <2>3, <2>5, <2>7, <2>8, <2>11, BodyJoins
    <3>2. SetTells(q, key, Led(a, y), FoundationEffects(q)) /\ tell = SetTell(q, FoundationEffects(q))
      BY <2>10, <2>11, <3>1 DEF TellAfter
    <3>3. key \in Keys
      BY <3>2 DEF SetTells
    <3>. QED
      BY <2>9, <3>2, <3>3, TellIs DEF key
  <2>12. CASE ~is_body
    <3>1. PartTells(q, l ++ r, Led(a, y))
      BY <1>4, <2>3, <2>5, <2>7, <2>8, <2>12, PartsJoin
    <3>2. PartTells(q, key, Led(a, y)) /\ tell = PartTell(q)
      BY <2>10, <2>12, <3>1 DEF TellAfter
    <3>3. key \in Keys
      BY <3>2 DEF PartTells
    <3>. QED
      BY <2>9, <3>2, <3>3, TellIs DEF key
  <2>. QED
    BY <2>11, <2>12
<1>6. ASSUME NEW m \in DOMAIN lefts, NEW j \in DOMAIN rights
      PROVE  JoinedKey(p, lefts[m], rights[j], is_body) \in Keys
  <2>1. lefts[m] \in DOMAIN p.ors /\ SetsOf(p, rights[j]) # {}
    BY <1>2 DEF Holds
  <2>2. PICK y : y \in SetsOf(p, rights[j])
    BY <2>1
  <2>3. p.ors[lefts[m]].daughters \in Seq(Nat) /\ p.ors[lefts[m]].daughters # <<>>
    BY <2>1, OrParts DEF Sound
  <2>4. PICK a : a \in ToSet(p.ors[lefts[m]].daughters)
    BY <2>3, ListsSomething
  <2>. QED
    BY <1>5, <2>2, <2>4
<1>. HIDE DEF A, I, D, is_body, tell
<1>7. MergeReady(p, lefts, rights, is_body, I, D, tell, A)
  <2>1. Sound(p, A)
    BY DEF A
  <2>. QED
    BY <1>1, <1>2, <1>3, <1>5, <1>6, <2>1 DEF MergeReady
<1>. QED
  BY <1>7 DEF A, I, D, is_body, tell

(* One more part: the merged forest holds the sets of the parts so far.    *)
LEMMA PartMerged ==
  ASSUME NEW q \in Queries, NEW n \in 1..(PART_NUM - 1),
         NEW p \in Pools, Sound(p, Armors(q)),
         NEW lefts, Forested(p, lefts, "ARMORS", Alone(PartIds(q, n + 1)), LeafTell(q)),
         NEW rights, NEW tag, Forested(p, rights, tag, PartialSets(q, n), PartTell(q))
  PROVE  Merged(p, MergeForests(p, lefts, rights, n + 1 = Body), PartialSets(q, n + 1),
                TellAfter(q, n + 1), Armors(q))
<1>1. MergeReady(p, lefts, rights, n + 1 = Body, PartIds(q, n + 1), PartialSets(q, n),
                 TellAfter(q, n + 1), Armors(q))
  BY MergeIsReady
<1>2. Merged(p, MergeForests(p, lefts, rights, n + 1 = Body),
             Prefixed(PartIds(q, n + 1), PartialSets(q, n)), TellAfter(q, n + 1), Armors(q))
  BY <1>1, MergeMade
<1>3. n \in Nat
  BY PartNum
<1>. QED
  BY <1>2, <1>3, PartialNext

-----------------------------------------------------------------------------
(* The points that a splitter counts for a set.                            *)
PtsEach(s, mult, x) == [n \in DOMAIN x |-> ArmorPoints(s, x[n], mult)]
Pts(s, mult, x) == Total(PtsEach(s, mult, x))

Scores(s, mult, A) == \A a \in A : ArmorPoints(s, a, mult) \in Int

(* The points of the armors of a set.                                      *)
LEMMA PtsList ==
  ASSUME NEW s, NEW mult, NEW A, Scores(s, mult, A), NEW x \in Seq(A)
  PROVE  PtsEach(s, mult, x) \in [1..Len(x) -> Int]
<1>1. DOMAIN x = 1..Len(x)
  BY LenProperties
<1>2. ASSUME NEW n \in 1..Len(x) PROVE ArmorPoints(s, x[n], mult) \in Int
  <2>1. x[n] \in A
    BY <1>1, ElementOfSeq
  <2>. QED
    BY <2>1 DEF Scores
<1>. QED
  BY <1>1, <1>2 DEF PtsEach

(* Their total is a number.                                                *)
LEMMA PtsInt ==
  ASSUME NEW s, NEW mult, NEW A, Scores(s, mult, A), NEW x \in Seq(A)
  PROVE  Pts(s, mult, x) \in Int
<1>1. Len(x) \in Nat
  OBVIOUS
<1>. QED
  BY <1>1, PtsList, TotalInt DEF Pts

(* No armors have no points.                                               *)
LEMMA PtsNone == ASSUME NEW s, NEW mult PROVE Pts(s, mult, <<>>) = 0
<1>1. [n \in DOMAIN << >> |-> ArmorPoints(s, <<>>[n], mult)] = <<>>
  OBVIOUS
<1>. QED
  BY <1>1, TotalNone, Zenon DEF Pts, PtsEach

(* One more armor in front adds its points.                                *)
LEMMA PtsLed ==
  ASSUME NEW s, NEW mult, NEW A, Scores(s, mult, A), NEW a \in A, NEW x \in Seq(A)
  PROVE  Pts(s, mult, Led(a, x)) = ArmorPoints(s, a, mult) + Pts(s, mult, x)
<1>. DEFINE y == Led(a, x)
            N == Len(x)
            f == PtsEach(s, mult, y)
            g == PtsEach(s, mult, x)
<1>1. /\ y \in Seq(A) /\ Len(y) = N + 1 /\ y[1] = a /\ N \in Nat
      /\ \A n \in 1..N : y[n + 1] = x[n]
      /\ DOMAIN y = 1..(N + 1) /\ DOMAIN x = 1..N
  <2>1. DOMAIN x = 1..N /\ N \in Nat
    BY LenProperties
  <2>2. a \in A /\ x \in Seq(A)
    OBVIOUS
  <2>3. /\ Led(a, x) \in Seq(A) /\ Len(Led(a, x)) = Len(x) + 1 /\ Led(a, x)[1] = a
        /\ \A n \in 1..Len(x) : Led(a, x)[n + 1] = x[n]
        /\ DOMAIN Led(a, x) = 1..(Len(x) + 1)
    BY <2>2, InFront
  <2>. QED
    BY <2>1, <2>3
<1>. HIDE DEF y
<1>2. f \in [1..Len(y) -> Int] /\ g \in [1..Len(x) -> Int]
  BY <1>1, PtsList
<1>3. f \in [1..(N + 1) -> Int] /\ g \in [1..N -> Int]
  <2>. HIDE DEF f, g
  <2>. QED
    BY <1>1, <1>2
<1>4. \A n \in 1..N : f[n + 1] = g[n]
  BY <1>1 DEF PtsEach
<1>5. f[1] = ArmorPoints(s, a, mult)
  BY <1>1 DEF PtsEach
<1>6. Pts(s, mult, y) = Total(f) /\ Pts(s, mult, x) = Total(g)
  BY Zenon DEF Pts
<1>. HIDE DEF f, g
<1>7. Pts(s, mult, y) = ArmorPoints(s, a, mult) + Pts(s, mult, x)
  BY <1>1, <1>3, <1>4, <1>5, <1>6, TotalHead
<1>. QED
  BY <1>7 DEF y

(* The points of one armor.                                                *)
LEMMA PtsAlone ==
  ASSUME NEW s, NEW mult, NEW A, Scores(s, mult, A), NEW a \in A
  PROVE  Pts(s, mult, <<a>>) = ArmorPoints(s, a, mult)
<1>0. <<a>> \in Seq(A)
  OBVIOUS
<1>1. <<a>> = Led(a, <<>>) /\ <<>> \in Seq(A)
  BY <1>0, ConcatEmptySeq DEF Led
<1>2. Pts(s, mult, <<a>>) = ArmorPoints(s, a, mult) + Pts(s, mult, <<>>)
  BY <1>1, PtsLed
<1>3. ArmorPoints(s, a, mult) \in Int
  BY DEF Scores
<1>. QED
  BY <1>2, <1>3, PtsNone

-----------------------------------------------------------------------------
(* The highest of the keys of a list of groups, -1000 if there is none.    *)
LEMMA MaxIs ==
  ASSUME NEW S, NEW m \in S, S \subseteq Int, \A y \in S : m >= y
  PROVE  Max(S) = m
<1>1. \E x \in S : \A y \in S : x >= y
  OBVIOUS
<1>2. Max(S) \in S /\ \A y \in S : Max(S) >= y
  BY <1>1, Zenon DEF Max
<1>. DEFINE h == Max(S)
<1>. HIDE DEF h
<1>3. h \in S /\ \A y \in S : h >= y
  BY <1>2 DEF h
<1>4. h = m
  BY <1>3
<1>. QED
  BY <1>4 DEF h

HighestFits(n, f, h) ==
  /\ h \in Int
  /\ \A k \in 1..n : f[k] <= h
  /\ h = -1000 \/ \E k \in 1..n : h = f[k]

(* Highest of the values of f.                                             *)
LEMMA HighestOf ==
  ASSUME NEW n \in Nat, NEW f \in [1..n -> Int], NEW S, S = { f[k] : k \in 1..n }
  PROVE  HighestFits(n, f, Highest(S))
<1>. DEFINE P(m, k) == /\ m \in Int /\ m >= -1000 /\ \A j \in 1..k : f[j] <= m
                       /\ m = -1000 \/ \E j \in 1..k : m = f[j]
            T == { k \in 0..n : \E m : P(m, k) }
<1>1. 0 \in T
  <2>1. P(-1000, 0)
    OBVIOUS
  <2>. HIDE DEF P
  <2>. QED
    BY <2>1
<1>2. ASSUME NEW k \in 1..n, k - 1 \in T PROVE k \in T
  <2>1. PICK m : P(m, k - 1)
    BY <1>2
  <2>2. f[k] \in Int
    OBVIOUS
  <2>3. \A j \in 1..k : j \in 1..(k - 1) \/ j = k
    OBVIOUS
  <2>4. CASE f[k] <= m
    <3>1. P(m, k)
      BY <2>1, <2>3, <2>4
    <3>. HIDE DEF P
    <3>. QED
      BY <3>1
  <2>5. CASE ~ (f[k] <= m)
    <3>. DEFINE v == f[k]
    <3>0. v = f[k] /\ v \in Int /\ v > m
      BY <2>1, <2>2, <2>5
    <3>. HIDE DEF v
    <3>1. \A j \in 1..k : f[j] <= v
      <4>1. ASSUME NEW j \in 1..(k - 1) PROVE f[j] <= v
        <5>1. f[j] <= m /\ f[j] \in Int /\ m \in Int
          BY <2>1
        <5>. QED
          BY <3>0, <5>1
      <4>. QED
        BY <2>3, <3>0, <4>1
    <3>2. v >= -1000
      BY <2>1, <3>0
    <3>3. P(v, k)
      BY <3>0, <3>1, <3>2
    <3>. HIDE DEF P
    <3>. QED
      BY <3>3
  <2>. QED
    BY <2>4, <2>5
<1>3. n \in T
  <2>. HIDE DEF T
  <2>1. \A k \in 0..n : k \in T
    BY <1>1, <1>2, IntervalInduction
  <2>. QED
    BY <2>1
<1>4. PICK m : P(m, n)
  BY <1>3
<1>5. Highest(S) = m
  <2>. DEFINE U == S \union {-1000}
  <2>1. m \in U /\ U \subseteq Int /\ \A y \in U : m >= y
    BY <1>4
  <2>. HIDE DEF U
  <2>2. Max(U) = m
    BY <2>1, MaxIs
  <2>. QED
    BY <2>2, Zenon DEF Highest, LowPoints, U
<1>6. m \in Int /\ (\A k \in 1..n : f[k] <= m) /\ (m = -1000 \/ \E k \in 1..n : m = f[k])
  BY <1>4
<1>. HIDE DEF P
<1>. QED
  BY <1>5, <1>6, Zenon DEF HighestFits

(* Highest of the keys of groups.                                          *)
LEMMA HighestIs ==
  ASSUME NEW groups \in GroupsOf(Int), NEW m, m = Highest({ groups[g].key : g \in DOMAIN groups })
  PROVE  m \in Int /\ \A g \in DOMAIN groups : groups[g].key <= m
<1>. DEFINE n == Len(groups)
            f == [g \in 1..n |-> groups[g].key]
<1>1. n \in Nat /\ DOMAIN groups = 1..n
  BY DEF GroupsOf
<1>2. \A g \in 1..n : groups[g].key \in Int
  BY <1>1, GroupFields
<1>3. f \in [1..n -> Int] /\ \A g \in 1..n : f[g] = groups[g].key
  BY <1>2
<1>. DEFINE S == { f[k] : k \in 1..n }
<1>4. S = { groups[g].key : g \in DOMAIN groups }
  BY <1>1
<1>. HIDE DEF f
<1>5. Highest(S) \in Int /\ \A k \in 1..n : f[k] <= Highest(S)
  BY <1>1, <1>3, HighestOf DEF HighestFits
<1>. HIDE DEF S
<1>6. m = Highest(S)
  BY <1>4
<1>. QED
  BY <1>1, <1>3, <1>5, <1>6

-----------------------------------------------------------------------------
(* Armors by points: rel of the groups, and what the groups list.          *)
Judged(s, mult, I) == { <<ArmorPoints(s, a, mult), a>> : a \in I }
FirstIds(ids, n) == { ids[k] : k \in 1..n }

ArmorsBy(s, mult, armors, F) ==
  /\ armors \in GroupsOf(Int)
  /\ \A g \in DOMAIN armors :
       /\ Injective(armors[g].ids) /\ armors[g].ids # <<>>
       /\ ToSet(armors[g].ids) \subseteq F
       /\ \A a \in ToSet(armors[g].ids) : ArmorPoints(s, a, mult) = armors[g].key
  /\ \A a \in F : \E g \in DOMAIN armors : a \in ToSet(armors[g].ids)
  /\ \A g, h \in DOMAIN armors : g # h =>
       ToSet(armors[g].ids) \cap ToSet(armors[h].ids) = {}

(* ByPoints groups armors by their points.                                 *)
LEMMA ByPointsGrouped ==
  ASSUME NEW s, NEW mult, NEW A \in SUBSET Nat, Scores(s, mult, A),
         NEW ids \in Seq(Nat), Injective(ids), ToSet(ids) \subseteq A
  PROVE  Grouped(ByPoints(s, ids, mult), Int, Judged(s, mult, ToSet(ids)))
<1>. DEFINE N == Len(ids)
            Accs == GroupsOf(Int)
            J(n) == Judged(s, mult, FirstIds(ids, n))
            S == [n \in 0..N |-> { x \in Accs : Grouped(x, Int, J(n)) }]
<1>1. N \in Nat /\ DOMAIN ids = 1..N
  BY LenProperties
<1>2. \A n \in 1..N : ids[n] \in ToSet(ids) /\ ids[n] \in A /\ ids[n] \in Nat
  <2>1. \A n \in 1..N : ids[n] \in ToSet(ids)
    BY <1>1 DEF ToSet
  <2>. QED
    BY <2>1
<1>3. \A n \in 0..N : S[n] \subseteq Accs
  OBVIOUS
<1>4. \A x : \A n \in 0..N : x \in S[n] <=> Grouped(x, Int, J(n))
  BY DEF Grouped
<1>5. <<>> \in S[0]
  <2>1. J(0) = {}
    BY DEF Judged, FirstIds
  <2>2. 0 \in 0..N
    BY <1>1
  <2>. HIDE DEF J, S
  <2>3. Grouped(<<>>, Int, J(0))
    BY <2>1, NothingGrouped
  <2>. QED
    BY <1>4, <2>2, <2>3
<1>6. ASSUME NEW n \in 1..N, NEW x \in S[n - 1]
      PROVE  Push(x, ArmorPoints(s, ids[n], mult), ids[n]) \in S[n]
  <2>. DEFINE k == ArmorPoints(s, ids[n], mult)
              v == ids[n]
              rel == J(n - 1)
  <2>0. n - 1 \in 0..N /\ n \in 0..N
    BY <1>1
  <2>1. Grouped(x, Int, rel)
    <3>. HIDE DEF J, S
    <3>. QED
      BY <1>4, <2>0
  <2>2. k \in Int /\ v \in Nat
    BY <1>2 DEF Scores
  <2>3. \A l : <<l, v>> \notin rel
    <3>1. \A m \in 1..(n - 1) : ids[m] # v
      BY <1>1, <2>0 DEF Injective
    <3>. QED
      BY <3>1 DEF Judged, FirstIds
  <2>4. J(n) = rel \union { <<k, v>> }
    <3>1. \A m : m \in 1..n <=> m \in 1..(n - 1) \/ m = n
      BY <2>0
    <3>2. FirstIds(ids, n) = FirstIds(ids, n - 1) \union {v}
      BY <3>1 DEF FirstIds
    <3>. QED
      BY <3>2 DEF Judged
  <2>. HIDE DEF k, v, rel
  <2>5. Grouped(Push(x, k, v), Int, rel \union { <<k, v>> })
    BY <2>1, <2>2, <2>3, PushLists
  <2>6. Grouped(Push(x, k, v), Int, J(n))
    BY <2>4, <2>5
  <2>. HIDE DEF J, S
  <2>7. Push(x, k, v) \in S[n]
    BY <1>4, <2>0, <2>6
  <2>. QED
    BY <2>7 DEF k, v
<1>7. ByPoints(s, ids, mult) \in S[N]
  <2>. HIDE DEF S, Accs
  <2>. QED
    BY <1>1, <1>3, <1>5, <1>6, ByPointsLoop
<1>8. J(N) = Judged(s, mult, ToSet(ids))
  <2>1. FirstIds(ids, N) = ToSet(ids)
    BY <1>1 DEF FirstIds, ToSet
  <2>. QED
    BY <2>1
<1>9. N \in 0..N
  BY <1>1
<1>. HIDE DEF S, J
<1>. QED
  BY <1>4, <1>7, <1>8, <1>9

(* The same, of the armors.                                                *)
LEMMA ByPointsMade ==
  ASSUME NEW s, NEW mult, NEW A \in SUBSET Nat, Scores(s, mult, A),
         NEW ids \in Seq(Nat), Injective(ids), ToSet(ids) \subseteq A
  PROVE  ArmorsBy(s, mult, ByPoints(s, ids, mult), ToSet(ids))
<1>. DEFINE armors == ByPoints(s, ids, mult)
            rel == Judged(s, mult, ToSet(ids))
            F == ToSet(ids)
<1>1. Grouped(armors, Int, rel)
  BY ByPointsGrouped
<1>2. \A k, v : <<k, v>> \in rel <=> v \in F /\ k = ArmorPoints(s, v, mult)
  BY DEF Judged
<1>3. F \subseteq Nat
  OBVIOUS
<1>. HIDE DEF armors, rel, F
<1>4. armors \in GroupsOf(Int)
  BY <1>1 DEF Grouped
<1>5. ASSUME NEW g \in DOMAIN armors
      PROVE  /\ Injective(armors[g].ids) /\ armors[g].ids # <<>>
             /\ \A a : a \in ToSet(armors[g].ids) <=> a \in F /\ ArmorPoints(s, a, mult) = armors[g].key
  <2>1. /\ Injective(armors[g].ids) /\ armors[g].ids # <<>>
        /\ ToSet(armors[g].ids) = Under(rel, armors[g].key)
    BY <1>1 DEF Grouped
  <2>. QED
    BY <1>2, <1>3, <2>1 DEF Under
<1>6. ASSUME NEW a \in F PROVE \E g \in DOMAIN armors : a \in ToSet(armors[g].ids)
  <2>1. <<ArmorPoints(s, a, mult), a>> \in rel
    BY <1>2
  <2>2. PICK g \in DOMAIN armors : armors[g].key = ArmorPoints(s, a, mult)
    BY <1>1, <2>1 DEF Grouped
  <2>. QED
    BY <1>5, <2>2
<1>7. ASSUME NEW g \in DOMAIN armors, NEW h \in DOMAIN armors, g # h
      PROVE  ToSet(armors[g].ids) \cap ToSet(armors[h].ids) = {}
  <2>1. armors[g].key # armors[h].key
    BY <1>1, <1>7 DEF Grouped
  <2>. QED
    BY <1>5, <2>1
<1>8. ArmorsBy(s, mult, armors, F)
  BY <1>4, <1>5, <1>6, <1>7 DEF ArmorsBy
<1>. QED
  BY <1>8 DEF armors, F

-----------------------------------------------------------------------------
(* AddPoints changes one byte.                                             *)
LEMMA AddPointsTo ==
  ASSUME NEW b0, NEW b1, NEW b2, NEW pts, NEW e, NEW points
  PROVE  AddPoints([b0 |-> b0, b1 |-> b1, b2 |-> b2, pts |-> pts], e, points)
           = [b0 |-> b0, b1 |-> b1, b2 |-> b2,
              pts |-> [pts EXCEPT ![e] = Char8(pts[e] + points)]]
  BY DEF AddPoints

(* A key that gains points is a key.                                       *)
LEMMA AddPointsKey ==
  ASSUME NEW key \in Keys, NEW e, NEW points \in Int
  PROVE  AddPoints(key, e, points) \in Keys
<1>1. /\ key = [b0 |-> key.b0, b1 |-> key.b1, b2 |-> key.b2, pts |-> key.pts]
      /\ key.b0 \in Int /\ key.b1 \in Int /\ key.b2 \in Int /\ key.pts \in Seq(Int)
  BY DEF Keys
<1>. DEFINE old == key.pts
            new == [old EXCEPT ![e] = Char8(old[e] + points)]
            n == Len(old)
<1>2. n \in Nat /\ DOMAIN old = 1..n /\ \A k \in 1..n : old[k] \in Int
  BY <1>1
<1>3. AddPoints(key, e, points)
        = [b0 |-> key.b0, b1 |-> key.b1, b2 |-> key.b2, pts |-> new]
  <2>. DEFINE v0 == key.b0
              v1 == key.b1
              v2 == key.b2
  <2>1. key = [b0 |-> v0, b1 |-> v1, b2 |-> v2, pts |-> old]
    BY <1>1
  <2>. HIDE DEF v0, v1, v2, old
  <2>2. AddPoints([b0 |-> v0, b1 |-> v1, b2 |-> v2, pts |-> old], e, points)
          = [b0 |-> v0, b1 |-> v1, b2 |-> v2, pts |-> new]
    BY AddPointsTo
  <2>3. AddPoints(key, e, points) = [b0 |-> v0, b1 |-> v1, b2 |-> v2, pts |-> new]
    BY <2>1, <2>2
  <2>. QED
    BY <2>3 DEF v0, v1, v2
<1>4. new = [k \in 1..n |-> IF k = e THEN Char8(old[e] + points) ELSE old[k]]
  BY <1>2
<1>5. ASSUME NEW k \in 1..n PROVE (IF k = e THEN Char8(old[e] + points) ELSE old[k]) \in Int
  <2>1. old[k] \in Int
    BY <1>2
  <2>. HIDE DEF old
  <2>. QED
    BY <2>1 DEF Char8
<1>6. new \in [1..n -> Int]
  BY <1>4, <1>5
<1>. HIDE DEF new, old
<1>7. new \in Seq(Int)
  BY <1>2, <1>6, SeqDef
<1>. QED
  BY <1>1, <1>3, <1>7 DEF Keys

(* WithPoints keeps what groups list and adds their points to the key.     *)
LEMMA WithPointsAre ==
  ASSUME NEW s, NEW key \in Keys, NEW groups \in GroupsOf(Int)
  PROVE  /\ WithPoints(s, key, groups) \in GroupsOf(Keys)
         /\ DOMAIN WithPoints(s, key, groups) = DOMAIN groups
         /\ \A g \in DOMAIN groups :
              /\ WithPoints(s, key, groups)[g].ids = groups[g].ids
              /\ WithPoints(s, key, groups)[g].key = AddPoints(key, s.effect, groups[g].key)
<1>. DEFINE w == WithPoints(s, key, groups)
            n == Len(groups)
<1>1. n \in Nat /\ DOMAIN groups = 1..n
  BY DEF GroupsOf
<1>2. /\ DOMAIN w = 1..n
      /\ w = [g \in 1..n |-> [key |-> AddPoints(key, s.effect, groups[g].key), ids |-> groups[g].ids]]
  BY <1>1 DEF WithPoints
<1>3. ASSUME NEW g \in 1..n
      PROVE  /\ [key |-> AddPoints(key, s.effect, groups[g].key), ids |-> groups[g].ids] \in GroupOf(Keys)
  <2>1. groups[g].key \in Int /\ groups[g].ids \in Seq(Nat)
    BY <1>1, GroupFields
  <2>2. AddPoints(key, s.effect, groups[g].key) \in Keys
    BY <2>1, AddPointsKey
  <2>. QED
    BY <2>1, <2>2 DEF GroupOf
<1>4. w \in [1..n -> GroupOf(Keys)]
  BY <1>2, <1>3
<1>5. \A g \in 1..n :
        /\ w[g].ids = groups[g].ids
        /\ w[g].key = AddPoints(key, s.effect, groups[g].key)
  BY <1>2
<1>. HIDE DEF w
<1>6. w \in GroupsOf(Keys)
  BY <1>1, <1>4, SeqDef DEF GroupsOf
<1>7. /\ w \in GroupsOf(Keys) /\ DOMAIN w = DOMAIN groups
      /\ \A g \in DOMAIN groups :
           /\ w[g].ids = groups[g].ids
           /\ w[g].key = AddPoints(key, s.effect, groups[g].key)
  BY <1>1, <1>2, <1>5, <1>6
<1>. QED
  BY <1>7 DEF w

-----------------------------------------------------------------------------
(* What a split of a node promises: r.pool is the pool p grown, the nodes  *)
(* of r.result hold the sets of D, each with the points of its sets, which *)
(* its key has gained.                                                     *)
ResultIds(result) == [n \in DOMAIN result |-> result[n].id]
PtsTell(s, mult, A) == { <<Pts(s, mult, x), x>> : x \in Seq(A) }

SplitInto(p, r, key, tag, D, s, mult, A) ==
  /\ r.pool \in Pools /\ Extends(p, r.pool) /\ Sound(r.pool, A)
  /\ r.max \in Int
  /\ Len(r.result) \in Nat /\ DOMAIN r.result = 1..Len(r.result)
  /\ Holds(r.pool, ResultIds(r.result), D)
  /\ \A n \in DOMAIN r.result :
       /\ r.result[n].points \in Int
       /\ r.result[n].points <= r.max
       /\ r.pool.ors[r.result[n].id].tag = tag
       /\ r.pool.ors[r.result[n].id].key = AddPoints(key, s.effect, r.result[n].points)
       /\ \A x \in SetsOf(r.pool, r.result[n].id) : Pts(s, mult, x) = r.result[n].points

(* The members of what SplitNode returns.                                  *)
LEMMA SplitNodeIs ==
  ASSUME NEW b, NEW s, NEW tag, NEW key, NEW groups
  PROVE  /\ SplitNode(b, s, tag, key, groups).pool = MakeORs(b, tag, WithPoints(s, key, groups))
         /\ SplitNode(b, s, tag, key, groups).result
              = [g \in DOMAIN groups |-> [id |-> Len(b.ors) + g, points |-> groups[g].key]]
         /\ SplitNode(b, s, tag, key, groups).max
              = Highest({ groups[g].key : g \in DOMAIN groups })
  BY DEF SplitNode

(* It is a split of the node if the OR nodes it makes hold the sets of D.  *)
LEMMA SplitNodeMade ==
  ASSUME NEW p \in Pools, NEW b \in Pools, Extends(p, b), NEW s, NEW mult, NEW A,
         NEW tag, NEW key \in Keys, NEW groups \in GroupsOf(Int), NEW D,
         NodesMade(b, MakeORs(b, tag, WithPoints(s, key, groups)), tag, groups,
                   WithPoints(s, key, groups), D, PtsTell(s, mult, A), A)
  PROVE  SplitInto(p, SplitNode(b, s, tag, key, groups), key, tag, D, s, mult, A)
<1>. DEFINE under == WithPoints(s, key, groups)
            q == MakeORs(b, tag, under)
            r == SplitNode(b, s, tag, key, groups)
            n == Len(b.ors)
            ids == IdsAfter(b, groups)
            tell == PtsTell(s, mult, A)
<1>1. /\ r.pool = q
      /\ r.result = [g \in DOMAIN groups |-> [id |-> n + g, points |-> groups[g].key]]
      /\ r.max = Highest({ groups[g].key : g \in DOMAIN groups })
  BY SplitNodeIs
<1>2. Len(groups) \in Nat /\ DOMAIN groups = 1..Len(groups)
  BY DEF GroupsOf
<1>3. /\ DOMAIN under = DOMAIN groups
      /\ \A g \in DOMAIN groups : under[g].key = AddPoints(key, s.effect, groups[g].key)
  BY WithPointsAre
<1>4. \A g \in DOMAIN groups : groups[g].key \in Int
  BY GroupFields
<1>5. NodesMade(b, q, tag, groups, under, D, tell, A)
  OBVIOUS
<1>6. r.max \in Int /\ \A g \in DOMAIN groups : groups[g].key <= r.max
  BY <1>1, HighestIs
<1>. HIDE DEF r, q, under
<1>7. /\ q \in Pools /\ Extends(b, q) /\ Sound(q, A) /\ Holds(q, ids, D)
      /\ \A g \in DOMAIN groups :
           /\ ids[g] = n + g
           /\ q.ors[n + g].key = under[g].key /\ q.ors[n + g].tag = tag
           /\ \A x \in SetsOf(q, n + g) : <<groups[g].key, x>> \in tell
  <2>. HIDE DEF tell
  <2>. QED
    BY <1>5 DEF NodesMade
<1>8. Extends(p, q)
  BY <1>7, ExtendsOn
<1>9. Len(r.result) = Len(groups) /\ DOMAIN r.result = DOMAIN groups
  BY <1>1, <1>2
<1>10. \A g \in DOMAIN groups : r.result[g].id = n + g /\ r.result[g].points = groups[g].key
  BY <1>1
<1>11. ResultIds(r.result) = ids
  BY <1>9, <1>10 DEF ResultIds, IdsAfter
<1>12. \A k, x : <<k, x>> \in tell => k = Pts(s, mult, x)
  BY DEF PtsTell
<1>. HIDE DEF ids, tell, n
<1>13. ASSUME NEW g \in DOMAIN groups
       PROVE  /\ r.result[g].points \in Int
              /\ r.result[g].points <= r.max
              /\ q.ors[r.result[g].id].tag = tag
              /\ q.ors[r.result[g].id].key = AddPoints(key, s.effect, r.result[g].points)
              /\ \A x \in SetsOf(q, r.result[g].id) : Pts(s, mult, x) = r.result[g].points
  <2>1. r.result[g].id = n + g /\ r.result[g].points = groups[g].key
    BY <1>10
  <2>2. r.result[g].points \in Int /\ r.result[g].points <= r.max
    BY <1>4, <1>6, <2>1
  <2>3. /\ q.ors[r.result[g].id].tag = tag
        /\ q.ors[r.result[g].id].key = AddPoints(key, s.effect, r.result[g].points)
    BY <1>3, <1>7, <2>1
  <2>4. \A x \in SetsOf(q, r.result[g].id) : Pts(s, mult, x) = r.result[g].points
    BY <1>7, <1>12, <2>1
  <2>. QED
    BY <2>2, <2>3, <2>4
<1>14. SplitInto(p, r, key, tag, D, s, mult, A)
  BY <1>1, <1>2, <1>6, <1>7, <1>8, <1>9, <1>11, <1>13 DEF SplitInto
<1>. QED
  BY <1>14 DEF r

(* What LeavesHold needs of the armors, as one fact.                       *)
LeavesRelate(rel, D, tell, A) ==
  /\ \A k, v : <<k, v>> \in rel => v \in A /\ <<v>> \in D /\ <<k, <<v>> >> \in tell
  /\ \A x \in D : \E k, v : <<k, v>> \in rel /\ x = <<v>>

(* LeavesHold, with that fact.                                             *)
LEMMA LeavesRelated ==
  ASSUME NEW p \in Pools, NEW A, Sound(p, A),
         NEW K, NEW groups, NEW rel, Grouped(groups, K, rel), NEW D, NEW tell,
         LeavesRelate(rel, D, tell, A),
         NEW under \in GroupsOf(Keys), DOMAIN under = DOMAIN groups,
         \A g \in DOMAIN groups : under[g].ids = groups[g].ids
  PROVE  NodesMade(p, MakeORs(p, "ARMORS", under), "ARMORS", groups, under, D, tell, A)
<1>1. \A k, v : <<k, v>> \in rel => v \in A /\ <<v>> \in D /\ <<k, <<v>> >> \in tell
  BY DEF LeavesRelate
<1>2. \A x \in D : \E k, v : <<k, v>> \in rel /\ x = <<v>>
  BY DEF LeavesRelate
<1>. QED
  BY <1>1, <1>2, LeavesHold

(* A leaf is split into leaves, by the points of its armors.               *)
LEMMA SplitArmorOrMade ==
  ASSUME NEW p \in Pools, NEW A, A \in SUBSET Nat, Sound(p, A),
         NEW s, NEW mult, Scores(s, mult, A),
         NEW id \in DOMAIN p.ors, p.ors[id].tag = "ARMORS"
  PROVE  SplitInto(p, SplitArmorOr(p, s, id, mult), p.ors[id].key, "ARMORS",
                   SetsOf(p, id), s, mult, A)
<1>. DEFINE ids == p.ors[id].daughters
            key == p.ors[id].key
            F == ToSet(ids)
            armors == ByPoints(s, ids, mult)
            rel == Judged(s, mult, F)
            tell == PtsTell(s, mult, A)
            D == SetsOf(p, id)
            under == WithPoints(s, key, armors)
<1>1. ids \in Seq(Nat) /\ key \in Keys
  BY OrParts
<1>2. Injective(ids) /\ F \subseteq A
  BY DEF Sound, ListsOnce, Injective
<1>3. D = { <<a>> : a \in F }
  BY SetsUnfold
<1>4. Grouped(armors, Int, rel)
  BY <1>1, <1>2, ByPointsGrouped
<1>5. ASSUME NEW k, NEW v, <<k, v>> \in rel
      PROVE  v \in A /\ <<v>> \in D /\ <<k, <<v>> >> \in tell
  <2>1. v \in F /\ k = ArmorPoints(s, v, mult)
    BY <1>5 DEF Judged
  <2>2. v \in A /\ <<v>> \in Seq(A)
    BY <1>2, <2>1
  <2>3. Pts(s, mult, <<v>>) = k
    BY <2>1, <2>2, PtsAlone
  <2>4. <<k, <<v>> >> \in tell
    BY <2>2, <2>3 DEF PtsTell
  <2>5. <<v>> \in D
    BY <1>3, <2>1
  <2>. QED
    BY <2>2, <2>4, <2>5
<1>6. ASSUME NEW x \in D PROVE \E k, v : <<k, v>> \in rel /\ x = <<v>>
  <2>1. PICK v \in F : x = <<v>>
    BY <1>3
  <2>2. <<ArmorPoints(s, v, mult), v>> \in rel
    BY DEF Judged
  <2>. QED
    BY <2>1, <2>2
<1>7. armors \in GroupsOf(Int)
  BY <1>4 DEF Grouped
<1>. HIDE DEF ids, key, F, armors, rel, tell, D
<1>8. /\ under \in GroupsOf(Keys) /\ DOMAIN under = DOMAIN armors
      /\ \A g \in DOMAIN armors : under[g].ids = armors[g].ids
  BY <1>1, <1>7, WithPointsAre
<1>. HIDE DEF under
<1>9. NodesMade(p, MakeORs(p, "ARMORS", under), "ARMORS", armors, under, D, tell, A)
  <2>1. \A k, v : <<k, v>> \in rel => v \in A /\ <<v>> \in D /\ <<k, <<v>> >> \in tell
    BY <1>5
  <2>2. \A x \in D : \E k, v : <<k, v>> \in rel /\ x = <<v>>
    BY <1>6
  <2>3. LeavesRelate(rel, D, tell, A)
    BY <2>1, <2>2 DEF LeavesRelate
  <2>. QED
    BY <1>4, <1>8, <2>3, LeavesRelated
<1>10. Extends(p, p)
  BY ExtendsItself
<1>11. SplitInto(p, SplitNode(p, s, "ARMORS", key, armors), key, "ARMORS", D, s, mult, A)
  BY <1>1, <1>7, <1>9, <1>10, SplitNodeMade DEF under, tell
<1>12. SplitArmorOr(p, s, id, mult) = SplitNode(p, s, "ARMORS", key, armors)
  BY DEF SplitArmorOr, key, armors, ids
<1>. QED
  BY <1>11, <1>12 DEF key, D

-----------------------------------------------------------------------------
(* The sets that reach the minimum.                                        *)
Enough(S, s, mult, sub_min) == { x \in S : Pts(s, mult, x) >= sub_min }

(* Of a union, of nothing.                                                 *)
LEMMA EnoughOf ==
  ASSUME NEW S, NEW T, NEW s, NEW mult, NEW sub_min
  PROVE  /\ Enough(S \union T, s, mult, sub_min)
              = Enough(S, s, mult, sub_min) \union Enough(T, s, mult, sub_min)
         /\ Enough(S, s, mult, sub_min) \subseteq S
         /\ Enough({}, s, mult, sub_min) = {}
<1>1. Enough(S \union T, s, mult, sub_min)
        = Enough(S, s, mult, sub_min) \union Enough(T, s, mult, sub_min)
  BY Zenon DEF Enough
<1>. QED
  BY <1>1 DEF Enough

(* What grew from a pool grew from one before it.                          *)
LEMMA MadeFrom ==
  ASSUME NEW p, NEW acc, NEW K, NEW D, NEW tell, NEW A, Made(p, acc, K, D, tell, A)
  PROVE  Made(acc.pool, acc, K, D, tell, A)
<1>1. acc.pool \in Pools
  BY DEF Made
<1>2. Extends(acc.pool, acc.pool)
  BY <1>1, ExtendsItself
<1>. QED
  BY <1>2 DEF Made

(* What grew from a later pool grew from an earlier one.                   *)
LEMMA MadeOn ==
  ASSUME NEW p \in Pools, NEW b \in Pools, Extends(p, b),
         NEW acc, NEW K, NEW D, NEW tell, NEW A, Made(b, acc, K, D, tell, A)
  PROVE  Made(p, acc, K, D, tell, A)
<1>1. acc.pool \in Pools /\ Extends(b, acc.pool)
  BY DEF Made
<1>2. Extends(p, acc.pool)
  BY <1>1, ExtendsOn
<1>. QED
  BY <1>2 DEF Made

(* A leaf of F, worth `points`, and the nodes of items, which hold DR.     *)
PairReady(b, left_id, points, items, F, DR, s, mult, A) ==
  /\ b \in Pools /\ A \in SUBSET Nat /\ Sound(b, A)
  /\ F \in SUBSET A /\ F # {} /\ DR \in SUBSET Seq(A) /\ Scores(s, mult, A)
  /\ left_id \in DOMAIN b.ors /\ b.ors[left_id].tag = "ARMORS"
  /\ ToSet(b.ors[left_id].daughters) = F
  /\ points \in Int /\ \A a \in F : ArmorPoints(s, a, mult) = points
  /\ Len(items) \in Nat /\ DOMAIN items = 1..Len(items)
  /\ Holds(b, ResultIds(items), DR)
  /\ \A n \in DOMAIN items :
       /\ items[n].points \in Int
       /\ \A x \in SetsOf(b, items[n].id) : Pts(s, mult, x) = items[n].points

(* One step of the loop: the leaf with one node on the right.              *)
LEMMA PairMore ==
  ASSUME NEW b, NEW left_id, NEW points, NEW items, NEW F, NEW DR, NEW s, NEW mult, NEW A,
         PairReady(b, left_id, points, items, F, DR, s, mult, A),
         NEW n \in DOMAIN items, NEW sub_min \in Int,
         NEW acc, NEW D, Made(b, acc, Int, D, PtsTell(s, mult, A), A),
         NEW X, X = Enough(Prefixed(F, SetsOf(b, items[n].id)), s, mult, sub_min),
         X \cap D = {}
  PROVE  Made(b, Pair(acc, left_id, points, items[n], sub_min), Int, D \union X,
              PtsTell(s, mult, A), A)
<1>. DEFINE r == items[n].id
            k == points + items[n].points
            S == SetsOf(b, r)
            c == acc.pool
            tell == PtsTell(s, mult, A)
<1>1. /\ b \in Pools /\ A \in SUBSET Nat /\ F \in SUBSET A /\ F # {} /\ DR \in SUBSET Seq(A)
      /\ Scores(s, mult, A) /\ left_id \in DOMAIN b.ors /\ b.ors[left_id].tag = "ARMORS"
      /\ ToSet(b.ors[left_id].daughters) = F
      /\ points \in Int /\ \A a \in F : ArmorPoints(s, a, mult) = points
      /\ items[n].points \in Int /\ \A x \in S : Pts(s, mult, x) = items[n].points
      /\ Holds(b, ResultIds(items), DR)
  BY DEF PairReady
<1>2. r \in DOMAIN b.ors /\ S # {} /\ S \subseteq Seq(A)
  <2>1. n \in DOMAIN ResultIds(items) /\ ResultIds(items)[n] = r
    BY DEF ResultIds
  <2>. QED
    BY <1>1, <2>1 DEF Holds
<1>3. c \in Pools /\ Extends(b, c)
  BY DEF Made
<1>4. /\ c.ors[left_id] = b.ors[left_id]
      /\ left_id \in DOMAIN c.ors /\ r \in DOMAIN c.ors /\ SetsOf(c, r) = S
  <2>1. c.ors[left_id] = b.ors[left_id]
    BY <1>1, <1>3, PoolParts DEF Extends
  <2>2. left_id \in DOMAIN c.ors /\ r \in DOMAIN c.ors /\ SetsOf(c, r) = S
    BY <1>1, <1>2, <1>3, SetsStay
  <2>. QED
    BY <2>1, <2>2
<1>5. k \in Int
  BY <1>1
<1>. HIDE DEF S, r
<1>6. ASSUME NEW x \in Prefixed(F, S) PROVE x \in Seq(A) /\ Pts(s, mult, x) = k
  <2>1. PICK a \in F : \E y \in S : x = Led(a, y)
    BY PrefixedBy
  <2>2. PICK y \in S : x = Led(a, y)
    BY <2>1
  <2>3. a \in A /\ y \in Seq(A)
    BY <1>1, <1>2
  <2>4. Pts(s, mult, Led(a, y)) = ArmorPoints(s, a, mult) + Pts(s, mult, y)
    BY <1>1, <2>3, PtsLed
  <2>5. ArmorPoints(s, a, mult) = points /\ Pts(s, mult, y) = items[n].points
    BY <1>1
  <2>6. Led(a, y) \in Seq(A)
    BY <2>3, InFront
  <2>. QED
    BY <2>2, <2>4, <2>5, <2>6
<1>7. CASE k >= sub_min
  <2>1. X = Prefixed(F, S)
    BY <1>6, <1>7 DEF Enough, S, r
  <2>2. X = Prefixed(ToSet(c.ors[left_id].daughters), SetsOf(c, r))
    BY <1>1, <1>4, <2>1
  <2>3. X # {}
    <3>1. F \subseteq A /\ F # {} /\ S \subseteq Seq(A) /\ S # {}
      BY <1>1, <1>2
    <3>2. Prefixed(F, S) # {}
      BY <3>1, PrefixedIs
    <3>. QED
      BY <2>1, <3>2
  <2>4. ASSUME NEW x \in X PROVE <<k, x>> \in tell
    BY <1>6, <2>1 DEF PtsTell
  <2>5. c.ors[left_id].tag = "ARMORS"
    BY <1>1, <1>4
  <2>6. Pair(acc, left_id, points, items[n], sub_min)
          = [pool   |-> MakeAnd(acc.pool, left_id, r),
             groups |-> Push(acc.groups, k, Len(MakeAnd(acc.pool, left_id, r).ands))]
    BY <1>7 DEF Pair, r
  <2>. HIDE DEF k, tell
  <2>7. Made(b, [pool   |-> MakeAnd(acc.pool, left_id, r),
                 groups |-> Push(acc.groups, k, Len(MakeAnd(acc.pool, left_id, r).ands))],
              Int, D \union X, tell, A)
    <3>. DEFINE K == Int
    <3>1. k \in K /\ Made(b, acc, K, D, tell, A)
      BY <1>5 DEF tell
    <3>. HIDE DEF K
    <3>2. Made(b, [pool   |-> MakeAnd(acc.pool, left_id, r),
                   groups |-> Push(acc.groups, k, Len(MakeAnd(acc.pool, left_id, r).ands))],
                K, D \union X, tell, A)
      BY <1>1, <1>4, <2>2, <2>3, <2>4, <2>5, <3>1, GatherMore
    <3>. QED
      BY <3>2 DEF K
  <2>. QED
    BY <2>6, <2>7 DEF tell
<1>8. CASE ~ (k >= sub_min)
  <2>1. X = {}
    BY <1>6, <1>8 DEF Enough, S, r
  <2>2. Pair(acc, left_id, points, items[n], sub_min) = acc
    BY <1>8 DEF Pair
  <2>3. D \union X = D
    BY <2>1
  <2>. QED
    BY <2>2, <2>3
<1>. QED
  BY <1>7, <1>8

(* The leaf with all the nodes on the right.                               *)
LEMMA PairAllMade ==
  ASSUME NEW acc, NEW left_id, NEW points, NEW items, NEW F, NEW DR, NEW s, NEW mult, NEW A,
         PairReady(acc.pool, left_id, points, items, F, DR, s, mult, A),
         NEW sub_min \in Int, NEW D, Made(acc.pool, acc, Int, D, PtsTell(s, mult, A), A),
         NEW X, X = Enough(Prefixed(F, DR), s, mult, sub_min), X \cap D = {}
  PROVE  Made(acc.pool, PairAll(acc, left_id, points, items, sub_min), Int, D \union X,
              PtsTell(s, mult, A), A)
<1>. DEFINE N == Len(items)
            b == acc.pool
            tell == PtsTell(s, mult, A)
            ids == ResultIds(items)
            Accs == [pool : Pools, groups : GroupsOf(Int)]
            Y(n) == Enough(Prefixed(F, Covered(b, ids, n)), s, mult, sub_min)
            E(n) == D \union Y(n)
            S == [n \in 0..N |-> { x \in Accs : Made(b, x, Int, E(n), tell, A) }]
<1>1. /\ b \in Pools /\ A \in SUBSET Nat /\ DR \in SUBSET Seq(A) /\ F \in SUBSET A
      /\ Holds(b, ids, DR) /\ N \in Nat /\ DOMAIN items = 1..N
  BY DEF PairReady
<1>2. DOMAIN ids = 1..N /\ Len(ids) = N /\ \A n \in 1..N : ids[n] = items[n].id
  BY <1>1 DEF ResultIds
<1>3. /\ \A n \in 1..N : ids[n] \in DOMAIN b.ors /\ SetsOf(b, ids[n]) \subseteq DR
      /\ \A n, k \in 1..N : n # k => SetsOf(b, ids[n]) \cap SetsOf(b, ids[k]) = {}
  <2>. HIDE DEF N, ids, b
  <2>. QED
    BY <1>1, <1>2 DEF Holds
<1>4. \A n \in 0..N : Covered(b, ids, n) \in SUBSET Seq(A) /\ Covered(b, ids, n) \subseteq DR
  BY <1>1, <1>3 DEF Covered
<1>5. \A n \in 0..N : S[n] \subseteq Accs
  OBVIOUS
<1>6. \A x : \A n \in 0..N : x \in S[n] <=> Made(b, x, Int, E(n), tell, A)
  BY DEF Made
<1>7. acc \in S[0]
  <2>1. Covered(b, ids, 0) = {}
    BY DEF Covered
  <2>2. Prefixed(F, {}) = {}
    BY PrefixedNone
  <2>3. Enough({}, s, mult, sub_min) = {}
    BY EnoughOf
  <2>4. E(0) = D
    BY <2>1, <2>2, <2>3
  <2>5. 0 \in 0..N
    BY <1>1
  <2>. HIDE DEF E, S
  <2>6. Made(b, acc, Int, E(0), tell, A)
    BY <2>4
  <2>. QED
    BY <1>6, <2>5, <2>6
<1>8. ASSUME NEW n \in 1..N, NEW x \in S[n - 1]
      PROVE  Pair(x, left_id, points, items[n], sub_min) \in S[n]
  <2>. DEFINE C == Covered(b, ids, n - 1)
              T == SetsOf(b, ids[n])
              Z == Enough(Prefixed(F, T), s, mult, sub_min)
  <2>0. n - 1 \in 0..N /\ n \in 0..N /\ n \in Nat /\ n # 0 /\ n \in DOMAIN items
    BY <1>1
  <2>1. Made(b, x, Int, E(n - 1), tell, A)
    <3>. HIDE DEF E, S
    <3>. QED
      BY <1>6, <2>0
  <2>2. C \in SUBSET Seq(A) /\ C \subseteq DR
    BY <1>4, <2>0
  <2>3. T \in SUBSET Seq(A) /\ T \subseteq DR
    BY <1>1, <1>3
  <2>4. C \cap T = {}
    <3>1. \A k \in 1..(n - 1) : k \in 1..N /\ k # n
      BY <2>0
    <3>. QED
      BY <1>3, <3>1 DEF Covered
  <2>5. Z \cap E(n - 1) = {}
    <3>. HIDE DEF C, T
    <3>1. Prefixed(F, C) \cap Prefixed(F, T) = {}
      BY <1>1, <2>2, <2>3, <2>4, PrefixedApart
    <3>2. DR = T \union DR
      BY <2>3
    <3>3. Prefixed(F, T \union DR) = Prefixed(F, T) \union Prefixed(F, DR)
      BY PrefixedRight
    <3>4. Prefixed(F, T) \subseteq Prefixed(F, DR)
      BY <3>2, <3>3
    <3>5. Z \subseteq X
      BY <3>4 DEF Enough
    <3>6. Y(n - 1) \subseteq Prefixed(F, C) /\ Z \subseteq Prefixed(F, T)
      BY DEF Enough, C
    <3>. HIDE DEF Y, Z
    <3>. QED
      BY <3>1, <3>5, <3>6
  <2>6. E(n) = E(n - 1) \union Z
    <3>1. Covered(b, ids, n) = C \union T
      BY <2>0, CoveredNext
    <3>. HIDE DEF C, T
    <3>2. Prefixed(F, C \union T) = Prefixed(F, C) \union Prefixed(F, T)
      BY PrefixedRight
    <3>. DEFINE U == Prefixed(F, C)
                V == Prefixed(F, T)
    <3>3. Y(n) = Enough(U \union V, s, mult, sub_min)
      BY <3>1, <3>2
    <3>4. Y(n - 1) = Enough(U, s, mult, sub_min) /\ Z = Enough(V, s, mult, sub_min)
      BY DEF C
    <3>. HIDE DEF U, V, Y, Z
    <3>5. Enough(U \union V, s, mult, sub_min)
            = Enough(U, s, mult, sub_min) \union Enough(V, s, mult, sub_min)
      BY EnoughOf
    <3>. QED
      BY <3>3, <3>4, <3>5
  <2>7. Made(b, Pair(x, left_id, points, items[n], sub_min), Int, E(n - 1) \union Z, tell, A)
    <3>1. Z = Enough(Prefixed(F, SetsOf(b, items[n].id)), s, mult, sub_min)
      BY <1>2
    <3>. HIDE DEF E, Z, b
    <3>2. PairReady(b, left_id, points, items, F, DR, s, mult, A)
      BY DEF b
    <3>. QED
      BY <2>0, <2>1, <2>5, <3>1, <3>2, PairMore DEF tell
  <2>. HIDE DEF E, S, Z
  <2>. QED
    BY <1>6, <2>0, <2>6, <2>7
<1>9. PairAll(acc, left_id, points, items, sub_min) \in S[N]
  <2>. HIDE DEF S, Accs
  <2>. QED
    BY <1>1, <1>5, <1>7, <1>8, PairAllLoop
<1>10. E(N) = D \union X
  <2>1. Covered(b, ids, N) = DR
    BY <1>1, <1>2, CoveredAll
  <2>. QED
    BY <2>1
<1>11. N \in 0..N
  BY <1>1
<1>. HIDE DEF S, E
<1>12. Made(b, PairAll(acc, left_id, points, items, sub_min), Int, E(N), tell, A)
  BY <1>6, <1>9, <1>11
<1>. QED
  BY <1>10, <1>12

-----------------------------------------------------------------------------
(* The right of an AND node, once it is split: the nodes hold DR.          *)
RightReady(b, right, DR, s, mult) ==
  /\ right.max \in Int
  /\ Len(right.result) \in Nat /\ DOMAIN right.result = 1..Len(right.result)
  /\ Holds(b, ResultIds(right.result), DR)
  /\ \A n \in DOMAIN right.result :
       /\ right.result[n].points \in Int
       /\ right.result[n].points <= right.max
       /\ \A x \in SetsOf(b, right.result[n].id) : Pts(s, mult, x) = right.result[n].points

(* It stays so while the pool grows.                                       *)
LEMMA RightStays ==
  ASSUME NEW b \in Pools, NEW q \in Pools, Extends(b, q),
         NEW right, NEW DR, NEW s, NEW mult, RightReady(b, right, DR, s, mult)
  PROVE  RightReady(q, right, DR, s, mult)
<1>1. Holds(b, ResultIds(right.result), DR)
  BY DEF RightReady
<1>2. Holds(q, ResultIds(right.result), DR)
  BY <1>1, HoldsStill
<1>3. ASSUME NEW n \in DOMAIN right.result
      PROVE  SetsOf(q, right.result[n].id) = SetsOf(b, right.result[n].id)
  <2>1. n \in DOMAIN ResultIds(right.result) /\ ResultIds(right.result)[n] = right.result[n].id
    BY DEF ResultIds
  <2>2. right.result[n].id \in DOMAIN b.ors
    BY <1>1, <2>1 DEF Holds
  <2>. QED
    BY <2>2, SetsStay
<1>4. ASSUME NEW n \in DOMAIN right.result
      PROVE  /\ right.result[n].points \in Int
             /\ right.result[n].points <= right.max
             /\ \A x \in SetsOf(q, right.result[n].id) : Pts(s, mult, x) = right.result[n].points
  BY <1>3 DEF RightReady
<1>. QED
  BY <1>2, <1>4 DEF RightReady

(* What the loop over the groups of the armors on the left starts from.    *)
GroupsReady(b, s, mult, left_key, armors, F, right, DR, A) ==
  /\ b \in Pools /\ A \in SUBSET Nat /\ Sound(b, A) /\ Scores(s, mult, A)
  /\ left_key \in Keys /\ F \in SUBSET A /\ ArmorsBy(s, mult, armors, F)
  /\ DR \in SUBSET Seq(A) /\ RightReady(b, right, DR, s, mult)

(* The leaf that is made for a group of armors.                            *)
LEMMA LeafIs ==
  ASSUME NEW p \in Pools, NEW key \in Keys, NEW ids \in Seq(Nat), NEW q,
         q = MakeOR(p, "ARMORS", key, ids)
  PROVE  /\ q \in Pools /\ Extends(p, q) /\ Len(q.ors) \in DOMAIN q.ors
         /\ q.ors[Len(q.ors)].tag = "ARMORS"
         /\ q.ors[Len(q.ors)].daughters = ids
<1>1. OrMade(p, q, key, ids)
  BY MakeORGrows
<1>. QED
  BY <1>1 DEF OrMade

(* A group that cannot reach the minimum with any of the right.            *)
LEMMA NoneEnough ==
  ASSUME NEW b, NEW s, NEW mult, NEW A, Scores(s, mult, A), NEW F, F \subseteq A, NEW k \in Int, \A a \in F : ArmorPoints(s, a, mult) = k,
         NEW right, NEW DR, DR \subseteq Seq(A), RightReady(b, right, DR, s, mult),
         NEW sub_min \in Int, ~ (right.max + k >= sub_min)
  PROVE  Enough(Prefixed(F, DR), s, mult, sub_min) = {}
<1>1. SUFFICES ASSUME NEW x, x \in Prefixed(F, DR), Pts(s, mult, x) >= sub_min PROVE FALSE
  BY DEF Enough
<1>1a. \A z : z \in Prefixed(F, DR) <=> \E i \in F : \E y \in DR : z = Led(i, y)
  BY PrefixedBy
<1>2. PICK a \in F : \E y \in DR : x = Led(a, y)
  BY <1>1, <1>1a
<1>3. PICK y \in DR : x = Led(a, y)
  BY <1>2
<1>4. a \in A /\ y \in Seq(A)
  OBVIOUS
<1>5. Pts(s, mult, Led(a, y)) = ArmorPoints(s, a, mult) + Pts(s, mult, y)
  BY <1>4, PtsLed
<1>6. PICK i \in DOMAIN ResultIds(right.result) : y \in SetsOf(b, ResultIds(right.result)[i])
  BY DEF RightReady, Holds
<1>7. i \in DOMAIN right.result /\ ResultIds(right.result)[i] = right.result[i].id
  BY DEF ResultIds
<1>. DEFINE v == Pts(s, mult, y)
            m == right.max
<1>8. v \in Int /\ v <= m /\ m \in Int
  BY <1>6, <1>7 DEF RightReady
<1>9. Pts(s, mult, x) = k + v
  BY <1>3, <1>5
<1>10. ~ (m + k >= sub_min) /\ k + v >= sub_min
  BY <1>1, <1>9
<1>. HIDE DEF v, m
<1>. QED
  BY <1>8, <1>10

(* One step of the loop: a group of armors with all of the right.          *)
LEMMA PairGroupMade ==
  ASSUME NEW b, NEW s, NEW mult, NEW left_key, NEW armors, NEW F, NEW right, NEW DR, NEW A,
         GroupsReady(b, s, mult, left_key, armors, F, right, DR, A),
         NEW g \in DOMAIN armors, NEW sub_min \in Int,
         NEW acc, NEW D, Made(b, acc, Int, D, PtsTell(s, mult, A), A),
         NEW X, X = Enough(Prefixed(ToSet(armors[g].ids), DR), s, mult, sub_min),
         X \cap D = {}
  PROVE  Made(b, PairGroup(acc, s, left_key, armors[g], right, sub_min), Int, D \union X,
              PtsTell(s, mult, A), A)
<1>. DEFINE ids == armors[g].ids
            k == armors[g].key
            I == ToSet(ids)
            c == acc.pool
            key == AddPoints(left_key, s.effect, k)
            q == MakeOR(c, "ARMORS", key, ids)
            tell == PtsTell(s, mult, A)
            grown == [pool |-> q, groups |-> acc.groups]
            m == right.max
<1>1. /\ b \in Pools /\ A \in SUBSET Nat /\ Sound(b, A) /\ Scores(s, mult, A)
      /\ left_key \in Keys /\ F \in SUBSET A /\ DR \in SUBSET Seq(A)
      /\ RightReady(b, right, DR, s, mult) /\ m \in Int
  BY DEF GroupsReady, RightReady
<1>2. ids \in Seq(Nat) /\ k \in Int
  BY GroupFields DEF GroupsReady, ArmorsBy
<1>3. /\ Injective(ids) /\ ids # <<>> /\ I \subseteq F
      /\ \A a \in I : ArmorPoints(s, a, mult) = k
  BY DEF GroupsReady, ArmorsBy
<1>4. I # {} /\ I \in SUBSET A
  BY <1>1, <1>2, <1>3, ListsSomething
<1>5. key \in Keys
  BY <1>1, <1>2, AddPointsKey
<1>6. c \in Pools /\ Extends(b, c)
  BY DEF Made
<1>7. CASE m + k >= sub_min
  <2>0. /\ PairGroup(acc, s, left_key, armors[g], right, sub_min)
             = PairAll(grown, Len(q.ors), k, right.result, sub_min)
        /\ grown.pool = q
    BY <1>7 DEF PairGroup
  <2>. HIDE DEF key, ids, k, tell, I
  <2>1. Made(b, [pool |-> MakeOR(acc.pool, "ARMORS", key, ids), groups |-> acc.groups],
              Int, D, tell, A)
    <3>. DEFINE K == Int
    <3>1. Made(b, acc, K, D, tell, A)
      BY DEF tell
    <3>2. I \subseteq A
      BY <1>4
    <3>. HIDE DEF K
    <3>3. Made(b, [pool |-> MakeOR(acc.pool, "ARMORS", key, ids), groups |-> acc.groups],
              K, D, tell, A)
      BY <1>1, <1>2, <1>3, <1>5, <3>1, <3>2, LeafMore DEF I
    <3>. QED
      BY <3>3 DEF K
  <2>2. /\ q \in Pools /\ Extends(c, q) /\ Len(q.ors) \in DOMAIN q.ors
        /\ q.ors[Len(q.ors)].tag = "ARMORS" /\ q.ors[Len(q.ors)].daughters = ids
    BY <1>2, <1>5, <1>6, LeafIs
  <2>3. Extends(b, q)
    BY <1>1, <1>6, <2>2, ExtendsOn
  <2>4. RightReady(q, right, DR, s, mult)
    BY <1>1, <2>2, <2>3, RightStays
  <2>5. Made(b, grown, Int, D, tell, A)
    BY <2>1
  <2>. HIDE DEF q, grown
  <2>6. Made(q, grown, Int, D, tell, A) /\ Sound(q, A)
    <3>1. Made(grown.pool, grown, Int, D, tell, A)
      BY <2>5, MadeFrom
    <3>. QED
      BY <2>0, <3>1 DEF Made
  <2>7. PairReady(q, Len(q.ors), k, right.result, I, DR, s, mult, A)
    BY <1>1, <1>2, <1>3, <1>4, <2>2, <2>4, <2>6 DEF PairReady, RightReady, I
  <2>8. X = Enough(Prefixed(I, DR), s, mult, sub_min) /\ X \cap D = {}
    BY DEF I, ids
  <2>9. Made(q, PairAll(grown, Len(q.ors), k, right.result, sub_min), Int, D \union X, tell, A)
    <3>1. PairReady(grown.pool, Len(q.ors), k, right.result, I, DR, s, mult, A)
      BY <2>0, <2>7
    <3>2. Made(grown.pool, grown, Int, D, PtsTell(s, mult, A), A)
      BY <2>0, <2>6 DEF tell
    <3>3. Made(grown.pool, PairAll(grown, Len(q.ors), k, right.result, sub_min), Int,
               D \union X, PtsTell(s, mult, A), A)
      BY <2>8, <3>1, <3>2, PairAllMade
    <3>. QED
      BY <2>0, <3>3 DEF tell
  <2>10. Made(b, PairAll(grown, Len(q.ors), k, right.result, sub_min), Int, D \union X, tell, A)
    BY <1>1, <2>2, <2>3, <2>9, MadeOn
  <2>. QED
    BY <2>0, <2>10 DEF tell
<1>8. CASE ~ (m + k >= sub_min)
  <2>1. PairGroup(acc, s, left_key, armors[g], right, sub_min) = acc
    BY <1>8 DEF PairGroup
  <2>2. ~ (right.max + k >= sub_min)
    BY <1>8
  <2>. HIDE DEF I, k, m
  <2>3. Enough(Prefixed(I, DR), s, mult, sub_min) = {}
    <3>1. I \subseteq A /\ DR \subseteq Seq(A)
      BY <1>1, <1>4
    <3>. QED
      BY <1>1, <1>2, <1>3, <2>2, <3>1, NoneEnough
  <2>4. D \union X = D
    BY <2>3 DEF I
  <2>. QED
    BY <2>1, <2>4
<1>. QED
  BY <1>7, <1>8

(* The armors of the first n groups.                                       *)
FirstOf(armors, n) == UNION { ToSet(armors[g].ids) : g \in 1..n }

(* All the groups of armors.                                               *)
LEMMA PairGroupsMade ==
  ASSUME NEW b, NEW s, NEW mult, NEW left_key, NEW armors, NEW F, NEW right, NEW DR, NEW A,
         GroupsReady(b, s, mult, left_key, armors, F, right, DR, A), NEW sub_min \in Int,
         NEW acc, NEW D, Made(b, acc, Int, D, PtsTell(s, mult, A), A),
         NEW X, X = Enough(Prefixed(F, DR), s, mult, sub_min), X \cap D = {}
  PROVE  Made(b, PairGroups(acc, s, left_key, armors, right, sub_min), Int, D \union X,
              PtsTell(s, mult, A), A)
<1>. DEFINE N == Len(armors)
            tell == PtsTell(s, mult, A)
            Accs == [pool : Pools, groups : GroupsOf(Int)]
            Y(n) == Enough(Prefixed(FirstOf(armors, n), DR), s, mult, sub_min)
            E(n) == D \union Y(n)
            S == [n \in 0..N |-> { x \in Accs : Made(b, x, Int, E(n), tell, A) }]
<1>1. /\ b \in Pools /\ A \in SUBSET Nat /\ F \in SUBSET A /\ DR \in SUBSET Seq(A)
      /\ ArmorsBy(s, mult, armors, F)
  BY DEF GroupsReady
<1>2. N \in Nat /\ DOMAIN armors = 1..N
  BY <1>1 DEF ArmorsBy, GroupsOf
<1>3. /\ \A n \in 1..N : ToSet(armors[n].ids) \subseteq F
      /\ \A n, k \in 1..N : n # k => ToSet(armors[n].ids) \cap ToSet(armors[k].ids) = {}
      /\ \A a \in F : \E n \in 1..N : a \in ToSet(armors[n].ids)
  <2>. HIDE DEF N
  <2>. QED
    BY <1>1, <1>2 DEF ArmorsBy
<1>4. \A n \in 0..N : FirstOf(armors, n) \subseteq F
  BY <1>2, <1>3 DEF FirstOf
<1>5. \A n \in 0..N : S[n] \subseteq Accs
  OBVIOUS
<1>6. \A x : \A n \in 0..N : x \in S[n] <=> Made(b, x, Int, E(n), tell, A)
  BY DEF Made
<1>7. acc \in S[0]
  <2>1. FirstOf(armors, 0) = {}
    BY DEF FirstOf
  <2>2. Prefixed({}, DR) = {}
    BY PrefixedNone
  <2>3. Enough({}, s, mult, sub_min) = {}
    BY EnoughOf
  <2>4. E(0) = D
    BY <2>1, <2>2, <2>3
  <2>5. 0 \in 0..N
    BY <1>2
  <2>. HIDE DEF E, S
  <2>6. Made(b, acc, Int, E(0), tell, A)
    BY <2>4
  <2>. QED
    BY <1>6, <2>5, <2>6
<1>8. ASSUME NEW n \in 1..N, NEW x \in S[n - 1]
      PROVE  PairGroup(x, s, left_key, armors[n], right, sub_min) \in S[n]
  <2>. DEFINE C == FirstOf(armors, n - 1)
              T == ToSet(armors[n].ids)
              Z == Enough(Prefixed(T, DR), s, mult, sub_min)
  <2>0. n - 1 \in 0..N /\ n \in 0..N /\ n \in Nat /\ n # 0 /\ n \in DOMAIN armors
    BY <1>2
  <2>1. Made(b, x, Int, E(n - 1), tell, A)
    <3>. HIDE DEF E, S
    <3>. QED
      BY <1>6, <2>0
  <2>2. C \subseteq A /\ T \subseteq A /\ T \subseteq F
    BY <1>1, <1>3, <1>4, <2>0
  <2>3. C \cap T = {}
    <3>1. SUFFICES ASSUME NEW a, a \in C, a \in T PROVE FALSE
      OBVIOUS
    <3>2. PICK k \in 1..(n - 1) : a \in ToSet(armors[k].ids)
      BY <3>1 DEF FirstOf
    <3>3. k \in 1..N /\ n \in 1..N /\ k # n
      BY <2>0
    <3>4. ToSet(armors[k].ids) \cap ToSet(armors[n].ids) = {}
      BY <1>3, <3>3
    <3>. QED
      BY <3>1, <3>2, <3>4
  <2>4. Z \cap E(n - 1) = {}
    <3>. HIDE DEF C, T
    <3>1. Prefixed(C, DR) \cap Prefixed(T, DR) = {}
      BY <1>1, <2>2, <2>3, PrefixedApart
    <3>2. F = T \union F
      BY <2>2
    <3>3. Prefixed(T \union F, DR) = Prefixed(T, DR) \union Prefixed(F, DR)
      BY PrefixedLeft
    <3>4. Prefixed(T, DR) \subseteq Prefixed(F, DR)
      BY <3>2, <3>3
    <3>5. Z \subseteq X
      BY <3>4 DEF Enough
    <3>6. Y(n - 1) \subseteq Prefixed(C, DR) /\ Z \subseteq Prefixed(T, DR)
      BY DEF Enough, C
    <3>. HIDE DEF Y, Z
    <3>. QED
      BY <3>1, <3>5, <3>6
  <2>5. E(n) = E(n - 1) \union Z
    <3>1. FirstOf(armors, n) = C \union T
      <4>1. \A k : k \in 1..n <=> k \in 1..(n - 1) \/ k = n
        BY <2>0
      <4>. QED
        BY <4>1 DEF FirstOf
    <3>. HIDE DEF C, T
    <3>2. Prefixed(C \union T, DR) = Prefixed(C, DR) \union Prefixed(T, DR)
      BY PrefixedLeft
    <3>. DEFINE U == Prefixed(C, DR)
                V == Prefixed(T, DR)
    <3>3. Y(n) = Enough(U \union V, s, mult, sub_min)
      BY <3>1, <3>2
    <3>4. Y(n - 1) = Enough(U, s, mult, sub_min) /\ Z = Enough(V, s, mult, sub_min)
      BY DEF C
    <3>. HIDE DEF U, V, Y, Z
    <3>5. Enough(U \union V, s, mult, sub_min)
            = Enough(U, s, mult, sub_min) \union Enough(V, s, mult, sub_min)
      BY EnoughOf
    <3>. QED
      BY <3>3, <3>4, <3>5
  <2>6. Made(b, PairGroup(x, s, left_key, armors[n], right, sub_min), Int, E(n - 1) \union Z,
             tell, A)
    <3>1. Z = Enough(Prefixed(ToSet(armors[n].ids), DR), s, mult, sub_min)
      OBVIOUS
    <3>. HIDE DEF E, Z
    <3>. QED
      BY <2>0, <2>1, <2>4, <3>1, PairGroupMade DEF tell
  <2>. HIDE DEF E, S, Z
  <2>. QED
    BY <1>6, <2>0, <2>5, <2>6
<1>9. PairGroups(acc, s, left_key, armors, right, sub_min) \in S[N]
  <2>. HIDE DEF S, Accs
  <2>. QED
    BY <1>2, <1>5, <1>7, <1>8, PairGroupsLoop
<1>10. E(N) = D \union X
  <2>1. FirstOf(armors, N) = F
    BY <1>2, <1>3, <1>4 DEF FirstOf
  <2>. QED
    BY <2>1
<1>11. N \in 0..N
  BY <1>2
<1>. HIDE DEF S, E
<1>12. Made(b, PairGroups(acc, s, left_key, armors, right, sub_min), Int, E(N), tell, A)
  BY <1>6, <1>9, <1>11
<1>. QED
  BY <1>10, <1>12

-----------------------------------------------------------------------------
(* The pool grows, the groups stay.                                        *)
LEMMA MadeGrown ==
  ASSUME NEW p \in Pools, NEW acc, NEW K, NEW D, NEW tell, NEW A,
         Made(p, acc, K, D, tell, A),
         NEW q \in Pools, Extends(acc.pool, q), Sound(q, A),
         NEW after, after = [pool |-> q, groups |-> acc.groups]
  PROVE  Made(p, after, K, D, tell, A)
<1>. DEFINE b == acc.pool
            groups == acc.groups
<1>1. /\ b \in Pools /\ Extends(p, b) /\ groups \in GroupsOf(K) /\ Extends(b, q)
      /\ \E rel : Grouped(groups, K, rel) /\ Gathered(b, rel, D, tell)
  BY DEF Made
<1>2. PICK rel : Grouped(groups, K, rel) /\ Gathered(b, rel, D, tell)
  BY <1>1
<1>3. after.pool = q /\ after.groups = groups /\ after \in [pool : Pools, groups : GroupsOf(K)]
  BY <1>1
<1>. HIDE DEF b, groups
<1>4. Gathered(q, rel, D, tell)
  BY <1>1, <1>2, GatheredStays
<1>5. Extends(p, q)
  BY <1>1, ExtendsOn
<1>. QED
  BY <1>2, <1>3, <1>4, <1>5 DEF Made

(* split does what is asked of the node id of p, whatever has been added.  *)
SplitsAt(split, p, id, s, mult, A) ==
  \A call \in SplitCalls : Extends(p, call.pool) /\ Sound(call.pool, A) =>
    SplitInto(call.pool, split[id][call], p.ors[id].key, "ANDS",
              Enough(SetsOf(p, id), s, mult, call.sub_min), s, mult, A)

(* The arguments of a call of split.                                       *)
SplitCallOf(b, sub_min) == [pool |-> b, sub_min |-> sub_min]

(* The right of an AND node, as SplitAnd computes it.                      *)
RightOf(c, s, and, below, mult, split) ==
  IF c.ors[and.right].tag = "ANDS" THEN split[and.right][SplitCallOf(c, below)]
  ELSE SplitArmorOr(c, s, and.right, mult)

(* The right has all that can reach the minimum with the best on the left. *)
LEMMA RightMade ==
  ASSUME NEW p \in Pools, NEW c \in Pools, Extends(p, c), NEW A, A \in SUBSET Nat, Sound(c, A),
         NEW s, NEW mult, Scores(s, mult, A), NEW and, and.right \in DOMAIN p.ors,
         NEW below \in Int, NEW split,
         p.ors[and.right].tag = "ANDS" => SplitsAt(split, p, and.right, s, mult, A),
         NEW r, r = RightOf(c, s, and, below, mult, split)
  PROVE  \E DR : /\ r.pool \in Pools /\ Extends(c, r.pool) /\ Sound(r.pool, A)
                 /\ RightReady(r.pool, r, DR, s, mult)
                 /\ DR \subseteq SetsOf(p, and.right)
                 /\ Enough(SetsOf(p, and.right), s, mult, below) \subseteq DR
<1>. DEFINE id == and.right
            Y == SetsOf(p, id)
<1>1. c.ors[id] = p.ors[id] /\ id \in DOMAIN c.ors /\ SetsOf(c, id) = Y
  <2>1. c.ors[id] = p.ors[id]
    BY PoolParts DEF Extends
  <2>. QED
    BY <2>1, SetsStay
<1>2. Enough(Y, s, mult, below) \subseteq Y
  BY EnoughOf
<1>3. ASSUME NEW key, NEW tag, NEW DR, SplitInto(c, r, key, tag, DR, s, mult, A)
      PROVE  /\ r.pool \in Pools /\ Extends(c, r.pool) /\ Sound(r.pool, A)
             /\ RightReady(r.pool, r, DR, s, mult)
  BY <1>3 DEF SplitInto, RightReady
<1>4. CASE p.ors[id].tag = "ANDS"
  <2>. DEFINE call == SplitCallOf(c, below)
              DR == Enough(Y, s, mult, below)
  <2>1. call \in SplitCalls /\ call.pool = c /\ call.sub_min = below
    BY DEF SplitCallOf, SplitCalls
  <2>2. r = split[id][call]
    BY <1>1, <1>4 DEF RightOf
  <2>. HIDE DEF call
  <2>3. SplitsAt(split, p, id, s, mult, A)
    BY <1>4
  <2>. HIDE DEF id, Y
  <2>4. SplitInto(c, split[id][call], p.ors[id].key, "ANDS", Enough(SetsOf(p, id), s, mult, below),
                  s, mult, A)
    BY <2>1, <2>3, Zenon DEF SplitsAt
  <2>5. SplitInto(c, r, p.ors[id].key, "ANDS", DR, s, mult, A)
    BY <2>2, <2>4 DEF Y
  <2>. HIDE DEF DR
  <2>6. /\ r.pool \in Pools /\ Extends(c, r.pool) /\ Sound(r.pool, A)
        /\ RightReady(r.pool, r, DR, s, mult)
    BY <1>3, <2>5
  <2>. QED
    BY <1>2, <2>6 DEF DR, Y, id
<1>5. CASE p.ors[id].tag # "ANDS"
  <2>1. c.ors[id].tag = "ARMORS"
    BY <1>1, <1>5, OrParts
  <2>2. r = SplitArmorOr(c, s, id, mult)
    BY <2>1 DEF RightOf
  <2>. HIDE DEF id, Y
  <2>3. SplitInto(c, SplitArmorOr(c, s, id, mult), c.ors[id].key, "ARMORS", SetsOf(c, id), s, mult, A)
    BY <1>1, <2>1, SplitArmorOrMade
  <2>4. SplitInto(c, r, c.ors[id].key, "ARMORS", Y, s, mult, A)
    BY <1>1, <2>2, <2>3
  <2>5. /\ r.pool \in Pools /\ Extends(c, r.pool) /\ Sound(r.pool, A)
        /\ RightReady(r.pool, r, Y, s, mult)
    BY <1>3, <2>4
  <2>6. Y \subseteq Y
    OBVIOUS
  <2>. QED
    BY <1>2, <2>5, <2>6 DEF Y, id
<1>. QED
  BY <1>4, <1>5

(* No armor of F has more than so many points.                             *)
AtMost(s, mult, F, high) == \A a \in F : ArmorPoints(s, a, mult) <= high

(* What reaches the minimum needs no set of the right that is too low.     *)
CutFits(s, mult, A, F, Y, high, sub_min, DR) ==
  /\ Scores(s, mult, A) /\ F \subseteq A /\ Y \subseteq Seq(A)
  /\ high \in Int /\ sub_min \in Int /\ AtMost(s, mult, F, high)
  /\ DR \subseteq Y /\ Enough(Y, s, mult, sub_min - high) \subseteq DR

(* So nothing that reaches the minimum is lost.                            *)
LEMMA EnoughOfPairs ==
  ASSUME NEW s, NEW mult, NEW A, NEW F, NEW Y, NEW high, NEW sub_min, NEW DR,
         CutFits(s, mult, A, F, Y, high, sub_min, DR)
  PROVE  Enough(Prefixed(F, DR), s, mult, sub_min) = Enough(Prefixed(F, Y), s, mult, sub_min)
<1>0. /\ Scores(s, mult, A) /\ F \subseteq A /\ Y \subseteq Seq(A)
      /\ high \in Int /\ sub_min \in Int /\ AtMost(s, mult, F, high)
      /\ DR \subseteq Y /\ Enough(Y, s, mult, sub_min - high) \subseteq DR
  BY DEF CutFits
<1>1. \A z : z \in Prefixed(F, DR) <=> \E i \in F : \E y \in DR : z = Led(i, y)
  BY PrefixedBy
<1>2. \A z : z \in Prefixed(F, Y) <=> \E i \in F : \E y \in Y : z = Led(i, y)
  BY PrefixedBy
<1>3. Prefixed(F, DR) \subseteq Prefixed(F, Y)
  BY <1>0, <1>1, <1>2
<1>4. ASSUME NEW x, x \in Prefixed(F, Y), Pts(s, mult, x) >= sub_min
      PROVE  x \in Prefixed(F, DR)
  <2>1. PICK a \in F : \E y \in Y : x = Led(a, y)
    BY <1>2, <1>4
  <2>2. PICK y \in Y : x = Led(a, y)
    BY <2>1
  <2>3. a \in A /\ y \in Seq(A)
    BY <1>0
  <2>4. Pts(s, mult, Led(a, y)) = ArmorPoints(s, a, mult) + Pts(s, mult, y)
    BY <1>0, <2>3, PtsLed
  <2>5. Pts(s, mult, y) \in Int
    BY <1>0, <2>3, PtsInt
  <2>6. ArmorPoints(s, a, mult) \in Int
    BY <1>0, <2>3 DEF Scores
  <2>. DEFINE v == Pts(s, mult, y)
              w == ArmorPoints(s, a, mult)
  <2>7. w + v >= sub_min /\ w <= high
    BY <1>0, <1>4, <2>2, <2>4 DEF AtMost
  <2>. HIDE DEF v, w
  <2>8. v >= sub_min - high
    BY <1>0, <2>5, <2>6, <2>7 DEF v, w
  <2>9. y \in DR
    BY <1>0, <2>8 DEF Enough, v
  <2>. QED
    BY <1>1, <2>2, <2>9
<1>. QED
  BY <1>3, <1>4 DEF Enough

-----------------------------------------------------------------------------
(* One AND node: what is below it and reaches the minimum.                 *)
LEMMA SplitAndMade ==
  ASSUME NEW b, b \in Pools, NEW A, A \in SUBSET Nat, NEW s, NEW mult, Scores(s, mult, A),
         NEW p, p \in Pools, Extends(p, b), Sound(p, A), NEW split,
         NEW and, and.left \in DOMAIN p.ors, and.right \in DOMAIN p.ors,
         p.ors[and.left].tag = "ARMORS",
         p.ors[and.right].tag = "ANDS" => SplitsAt(split, p, and.right, s, mult, A),
         NEW sub_min \in Int,
         NEW acc, NEW D, Made(b, acc, Int, D, PtsTell(s, mult, A), A),
         NEW X, X = Enough(Prefixed(ToSet(p.ors[and.left].daughters), SetsOf(p, and.right)),
                           s, mult, sub_min),
         X \cap D = {}
  PROVE  Made(b, SplitAnd(acc, s, and, sub_min, mult, split), Int, D \union X,
              PtsTell(s, mult, A), A)
<1>. DEFINE c == acc.pool
            left == c.ors[and.left]
            ids == left.daughters
            F == ToSet(ids)
            armors == ByPoints(s, ids, mult)
            high == Highest({ armors[g].key : g \in DOMAIN armors })
            r == RightOf(c, s, and, sub_min - high, mult, split)
            Y == SetsOf(p, and.right)
            tell == PtsTell(s, mult, A)
<1>1. c \in Pools /\ Extends(b, c) /\ Sound(c, A)
  BY DEF Made
<1>2. Extends(p, c)
  BY <1>1, ExtendsOn
<1>3. /\ left = p.ors[and.left] /\ and.left \in DOMAIN c.ors
      /\ left.key \in Keys /\ ids \in Seq(Nat)
  <2>1. left = p.ors[and.left]
    BY <1>2, PoolParts DEF Extends
  <2>2. and.left \in DOMAIN c.ors
    BY <1>1, <1>2, SetsStay
  <2>. QED
    BY <2>1, <2>2, OrParts
<1>4. Injective(ids) /\ F \subseteq A
  <2>1. ListsOnce(p, and.left) /\ ToSet(p.ors[and.left].daughters) \subseteq A
    BY DEF Sound
  <2>. QED
    BY <1>3, <2>1 DEF ListsOnce, Injective
<1>5. Y \subseteq Seq(A)
  BY SetsAreThere
<1>6. X = Enough(Prefixed(F, Y), s, mult, sub_min)
  BY <1>3
<1>7. SplitAnd(acc, s, and, sub_min, mult, split)
        = PairGroups([pool |-> r.pool, groups |-> acc.groups], s, left.key, armors, r, sub_min)
  BY Zenon DEF SplitAnd, RightOf, SplitCallOf
<1>. HIDE DEF ids, left, F, Y, armors
<1>8. ArmorsBy(s, mult, armors, F)
  BY <1>3, <1>4, ByPointsMade DEF armors, F
<1>9. armors \in GroupsOf(Int)
  BY <1>8 DEF ArmorsBy
<1>10. high \in Int /\ \A g \in DOMAIN armors : armors[g].key <= high
  BY <1>9, HighestIs
<1>. HIDE DEF high
<1>11. ASSUME NEW a \in F PROVE ArmorPoints(s, a, mult) <= high
  <2>1. PICK g \in DOMAIN armors : a \in ToSet(armors[g].ids)
    BY <1>8 DEF ArmorsBy
  <2>2. ArmorPoints(s, a, mult) = armors[g].key
    BY <1>8, <2>1 DEF ArmorsBy
  <2>. QED
    BY <1>10, <2>2
<1>12. sub_min - high \in Int
  BY <1>10
<1>13. \E DR : /\ r.pool \in Pools /\ Extends(c, r.pool) /\ Sound(r.pool, A)
               /\ RightReady(r.pool, r, DR, s, mult)
               /\ DR \subseteq SetsOf(p, and.right)
               /\ Enough(SetsOf(p, and.right), s, mult, sub_min - high) \subseteq DR
  <2>. DEFINE below == sub_min - high
  <2>1. below \in Int /\ r = RightOf(c, s, and, below, mult, split)
    BY <1>12
  <2>. HIDE DEF r, below, c
  <2>2. \E DR : /\ r.pool \in Pools /\ Extends(c, r.pool) /\ Sound(r.pool, A)
               /\ RightReady(r.pool, r, DR, s, mult)
               /\ DR \subseteq SetsOf(p, and.right)
               /\ Enough(SetsOf(p, and.right), s, mult, below) \subseteq DR
    BY <1>1, <1>2, <2>1, RightMade
  <2>. QED
    BY <2>2 DEF below
<1>. HIDE DEF r
<1>14. PICK DR : /\ r.pool \in Pools /\ Extends(c, r.pool) /\ Sound(r.pool, A)
                 /\ RightReady(r.pool, r, DR, s, mult)
                 /\ DR \subseteq Y
                 /\ Enough(Y, s, mult, sub_min - high) \subseteq DR
  BY <1>13 DEF Y
<1>15. Enough(Prefixed(F, DR), s, mult, sub_min) = X
  <2>1. AtMost(s, mult, F, high)
    BY <1>11 DEF AtMost
  <2>2. Enough(Prefixed(F, DR), s, mult, sub_min) = Enough(Prefixed(F, Y), s, mult, sub_min)
    <3>1. CutFits(s, mult, A, F, Y, high, sub_min, DR)
      BY <1>4, <1>5, <1>10, <1>14, <2>1 DEF CutFits
    <3>. QED
      BY <3>1, EnoughOfPairs
  <2>. QED
    BY <1>6, <2>2
<1>. DEFINE q == r.pool
            after == [pool |-> q, groups |-> acc.groups]
<1>16. Made(b, after, Int, D, tell, A) /\ after.pool = q
  <2>1. q \in Pools /\ Extends(acc.pool, q) /\ Sound(q, A) /\ after.pool = q
    BY <1>14
  <2>. HIDE DEF q
  <2>2. after = [pool |-> q, groups |-> acc.groups]
    OBVIOUS
  <2>. HIDE DEF after, tell
  <2>3. Made(b, acc, Int, D, tell, A)
    BY DEF tell
  <2>. QED
    BY <2>1, <2>2, <2>3, MadeGrown
<1>17. Made(q, after, Int, D, PtsTell(s, mult, A), A)
  <2>. HIDE DEF q, after, tell
  <2>1. Made(after.pool, after, Int, D, tell, A)
    BY <1>16, MadeFrom
  <2>. QED
    BY <1>16, <2>1 DEF tell
<1>18. GroupsReady(q, s, mult, left.key, armors, F, r, DR, A)
  <2>1. DR \in SUBSET Seq(A) /\ F \in SUBSET A
    BY <1>4, <1>5, <1>14
  <2>. QED
    BY <1>3, <1>8, <1>14, <2>1 DEF GroupsReady
<1>. DEFINE k == left.key
            made == PairGroups(after, s, k, armors, r, sub_min)
<1>19. Made(q, made, Int, D \union X, PtsTell(s, mult, A), A)
  <2>1. X = Enough(Prefixed(F, DR), s, mult, sub_min) /\ X \cap D = {}
    BY <1>15
  <2>. HIDE DEF q, after, k
  <2>2. GroupsReady(q, s, mult, k, armors, F, r, DR, A)
    BY <1>18 DEF k
  <2>. QED
    BY <1>17, <2>1, <2>2, PairGroupsMade
<1>20. Extends(b, q) /\ q \in Pools
  <2>1. q \in Pools /\ Extends(c, q)
    BY <1>14
  <2>. HIDE DEF q, c
  <2>. QED
    BY <1>1, <2>1, ExtendsOn
<1>21. Made(b, made, Int, D \union X, tell, A)
  <2>. HIDE DEF q, made
  <2>. QED
    BY <1>19, <1>20, MadeOn
<1>. QED
  BY <1>7, <1>21

-----------------------------------------------------------------------------
(* All that the daughters of a node hold and that reaches the minimum.     *)
SplitReady(split, p, id, b, s, mult, A) ==
  /\ p \in Pools /\ A \in SUBSET Nat /\ Sound(p, A) /\ Scores(s, mult, A)
  /\ id \in DOMAIN p.ors /\ p.ors[id].tag = "ANDS"
  /\ \A j \in 1..(id - 1) : p.ors[j].tag = "ANDS" => SplitsAt(split, p, j, s, mult, A)
  /\ b \in Pools /\ Extends(p, b) /\ Sound(b, A)

Through(p, ands, n) == UNION { SetsThrough(p, ands[k]) : k \in 1..n }

(* The AND nodes that DaughtersOf lists.                                   *)
LEMMA DaughtersAre ==
  ASSUME NEW p \in Pools, NEW id \in DOMAIN p.ors, p.ors[id].tag = "ANDS"
  PROVE  /\ Len(p.ors[id].daughters) \in Nat
         /\ DOMAIN p.ors[id].daughters = 1..Len(p.ors[id].daughters)
         /\ Len(DaughtersOf(p, id)) = Len(p.ors[id].daughters)
         /\ \A n \in DOMAIN p.ors[id].daughters :
              DaughtersOf(p, id)[n] = p.ands[p.ors[id].daughters[n]]
<1>. DEFINE d == p.ors[id].daughters
            N == Len(d)
            list == [n \in DOMAIN d |-> p.ands[d[n]]]
<1>1. d \in Seq(Nat)
  BY OrParts
<1>. HIDE DEF d
<1>2. N \in Nat /\ DOMAIN d = 1..N
  BY <1>1
<1>3. Len(list) = N /\ \A n \in DOMAIN d : list[n] = p.ands[d[n]]
  BY <1>2
<1>4. list = DaughtersOf(p, id)
  BY DEF DaughtersOf, d
<1>. QED
  BY <1>2, <1>3, <1>4 DEF d

(* The loop over the daughters of a node.                                  *)
LEMMA SplitAndsMade ==
  ASSUME NEW split, NEW p, NEW id, NEW b, NEW s, NEW mult, NEW A,
         SplitReady(split, p, id, b, s, mult, A), NEW sub_min \in Int
  PROVE  Made(b, SplitAnds(b, s, DaughtersOf(p, id), sub_min, mult, split), Int,
              Enough(SetsOf(p, id), s, mult, sub_min), PtsTell(s, mult, A), A)
<1>. DEFINE d == p.ors[id].daughters
            ands == DaughtersOf(p, id)
            N == Len(d)
            tell == PtsTell(s, mult, A)
            Accs == [pool : Pools, groups : GroupsOf(Int)]
            E(n) == Enough(Through(p, d, n), s, mult, sub_min)
            S == [n \in 0..N |-> { x \in Accs : Made(b, x, Int, E(n), tell, A) }]
            start == [pool |-> b, groups |-> <<>>]
<1>1. /\ p \in Pools /\ A \in SUBSET Nat /\ Sound(p, A) /\ Scores(s, mult, A)
      /\ id \in DOMAIN p.ors /\ p.ors[id].tag = "ANDS"
      /\ \A j \in 1..(id - 1) : p.ors[j].tag = "ANDS" => SplitsAt(split, p, j, s, mult, A)
      /\ b \in Pools /\ Extends(p, b) /\ Sound(b, A)
  BY DEF SplitReady
<1>2. /\ N \in Nat /\ DOMAIN d = 1..N /\ Len(ands) = N
      /\ \A n \in 1..N : ands[n] = p.ands[d[n]]
  BY <1>1, DaughtersAre
<1>3. ASSUME NEW n \in 1..N
      PROVE  /\ d[n] \in DOMAIN p.ands
             /\ ands[n].left \in DOMAIN p.ors /\ ands[n].right \in DOMAIN p.ors
             /\ p.ors[ands[n].left].tag = "ARMORS"
             /\ p.ors[ands[n].right].tag = "ANDS" => SplitsAt(split, p, ands[n].right, s, mult, A)
             /\ SetsThrough(p, d[n])
                  = Prefixed(ToSet(p.ors[ands[n].left].daughters), SetsOf(p, ands[n].right))
  <2>1. d[n] \in ToSet(d)
    BY <1>2 DEF ToSet
  <2>2. d[n] \in DOMAIN p.ands /\ p.ands[d[n]].right < id
    BY <1>1, <2>1, OrParts
  <2>3. /\ ands[n].left \in DOMAIN p.ors /\ ands[n].right \in DOMAIN p.ors
        /\ p.ors[ands[n].left].tag = "ARMORS" /\ ands[n].right < id
    BY <1>1, <1>2, <2>2, AndParts
  <2>4. ands[n].right \in 1..(id - 1)
    BY <1>1, <2>3, PoolParts
  <2>5. p.ors[ands[n].right].tag = "ANDS" => SplitsAt(split, p, ands[n].right, s, mult, A)
    BY <1>1, <2>4
  <2>6. SetsThrough(p, d[n])
          = Prefixed(ToSet(p.ors[ands[n].left].daughters), SetsOf(p, ands[n].right))
    BY <1>2 DEF SetsThrough, LeftIds
  <2>. QED
    BY <2>2, <2>3, <2>5, <2>6
<1>4. \A m, n \in 1..N : m # n => SetsThrough(p, d[m]) \cap SetsThrough(p, d[n]) = {}
  <2>1. ListsOnce(p, id)
    BY <1>1 DEF Sound
  <2>2. \A m, n \in DOMAIN d : m # n => SetsThrough(p, d[m]) \cap SetsThrough(p, d[n]) = {}
    BY <1>1, <2>1 DEF ListsOnce
  <2>. HIDE DEF d, N
  <2>. QED
    BY <1>2, <2>2
<1>5. \A n \in 0..N : S[n] \subseteq Accs
  OBVIOUS
<1>6. \A x : \A n \in 0..N : x \in S[n] <=> Made(b, x, Int, E(n), tell, A)
  BY DEF Made
<1>7. start \in S[0]
  <2>1. Through(p, d, 0) = {}
    BY DEF Through
  <2>2. E(0) = {}
    BY <2>1, EnoughOf
  <2>3. start.pool = b /\ start.groups = <<>> /\ start \in Accs
    BY <1>1 DEF GroupsOf
  <2>4. Grouped(<<>>, Int, {}) /\ Gathered(b, {}, {}, tell)
    BY NothingGrouped, NothingGathered
  <2>5. Extends(b, b)
    BY <1>1, ExtendsItself
  <2>. HIDE DEF start, E, tell
  <2>6. Made(b, start, Int, {}, tell, A)
    BY <1>1, <2>3, <2>4, <2>5 DEF Made
  <2>. HIDE DEF S
  <2>7. 0 \in 0..N
    BY <1>2
  <2>8. start \in S[0] <=> Made(b, start, Int, E(0), tell, A)
    BY <1>6, <2>7
  <2>. QED
    BY <2>2, <2>6, <2>8
<1>8. ASSUME NEW n \in 1..N, NEW x \in S[n - 1]
      PROVE  SplitAnd(x, s, ands[n], sub_min, mult, split) \in S[n]
  <2>. DEFINE C == Through(p, d, n - 1)
              T == SetsThrough(p, d[n])
              Z == Enough(T, s, mult, sub_min)
              and == ands[n]
  <2>0. n - 1 \in 0..N /\ n \in 0..N /\ n \in Nat /\ n # 0
    BY <1>2
  <2>1. Made(b, x, Int, E(n - 1), tell, A)
    <3>. HIDE DEF E, S
    <3>. QED
      BY <1>6, <2>0
  <2>2. C \cap T = {}
    <3>1. SUFFICES ASSUME NEW y, y \in C, y \in T PROVE FALSE
      OBVIOUS
    <3>2. PICK k \in 1..(n - 1) : y \in SetsThrough(p, d[k])
      BY <3>1 DEF Through
    <3>3. k \in 1..N /\ n \in 1..N /\ k # n
      BY <2>0
    <3>4. SetsThrough(p, d[k]) \cap SetsThrough(p, d[n]) = {}
      BY <1>4, <3>3
    <3>. QED
      BY <3>1, <3>2, <3>4
  <2>3. Z \cap E(n - 1) = {}
    <3>1. Z \subseteq T /\ E(n - 1) \subseteq C
      BY DEF Enough
    <3>. HIDE DEF Z, E, C, T
    <3>. QED
      BY <2>2, <3>1
  <2>4. E(n) = E(n - 1) \union Z
    <3>1. Through(p, d, n) = C \union T
      <4>1. \A k : k \in 1..n <=> k \in 1..(n - 1) \/ k = n
        BY <2>0
      <4>. QED
        BY <4>1 DEF Through
    <3>2. E(n) = Enough(C \union T, s, mult, sub_min)
      BY <3>1
    <3>3. E(n - 1) = Enough(C, s, mult, sub_min)
      OBVIOUS
    <3>. HIDE DEF C, T, E, Z
    <3>4. Enough(C \union T, s, mult, sub_min)
            = Enough(C, s, mult, sub_min) \union Enough(T, s, mult, sub_min)
      BY EnoughOf
    <3>. QED
      BY <3>2, <3>3, <3>4 DEF Z
  <2>5. Made(b, SplitAnd(x, s, and, sub_min, mult, split), Int, E(n - 1) \union Z, tell, A)
    <3>1. Z = Enough(Prefixed(ToSet(p.ors[and.left].daughters), SetsOf(p, and.right)),
                     s, mult, sub_min)
      BY <1>3
    <3>2. /\ and.left \in DOMAIN p.ors /\ and.right \in DOMAIN p.ors
          /\ p.ors[and.left].tag = "ARMORS"
          /\ p.ors[and.right].tag = "ANDS" => SplitsAt(split, p, and.right, s, mult, A)
      BY <1>3
    <3>. HIDE DEF E, Z, and
    <3>. QED
      BY <1>1, <2>1, <2>3, <3>1, <3>2, SplitAndMade DEF tell
  <2>. HIDE DEF E, S, Z
  <2>. QED
    BY <1>6, <2>0, <2>4, <2>5
<1>9. SplitAnds(b, s, ands, sub_min, mult, split) \in S[N]
  <2>1. start = [pool |-> b, groups |-> <<>>]
    OBVIOUS
  <2>. HIDE DEF S, Accs, ands, d, N, start
  <2>2. SplitAnds(b, s, ands, sub_min, mult, split) \in S[Len(ands)]
    BY <1>2, <1>5, <1>7, <1>8, <2>1, SplitAndsLoop
  <2>. QED
    BY <1>2, <2>2
<1>10. Through(p, d, N) = SetsOf(p, id)
  <2>1. SetsOf(p, id) = UNION { SetsThrough(p, a) : a \in ToSet(d) }
    BY <1>1, SetsUnfold
  <2>2. ToSet(d) = { d[k] : k \in 1..N }
    BY <1>2 DEF ToSet
  <2>. QED
    BY <2>1, <2>2 DEF Through
<1>11. N \in 0..N
  BY <1>2
<1>12. E(N) = Enough(SetsOf(p, id), s, mult, sub_min)
  BY <1>10
<1>. HIDE DEF S, E
<1>13. Made(b, SplitAnds(b, s, ands, sub_min, mult, split), Int, E(N), tell, A)
  BY <1>6, <1>9, <1>11
<1>. QED
  BY <1>12, <1>13

(* What SplitOr makes of a node, when the nodes below are split well.      *)
SplitStep(split, p, id, s, mult, call) ==
  LET ands == SplitAnds(call.pool, s, DaughtersOf(p, id), call.sub_min, mult, split)
  IN  SplitNode(ands.pool, s, "ANDS", p.ors[id].key, ands.groups)

(* It is a split of the node.                                              *)
LEMMA SplitStepMade ==
  ASSUME NEW split, NEW p, NEW id, NEW s, NEW mult, NEW A, NEW call \in SplitCalls,
         SplitReady(split, p, id, call.pool, s, mult, A)
  PROVE  SplitInto(call.pool, SplitStep(split, p, id, s, mult, call), p.ors[id].key, "ANDS",
                   Enough(SetsOf(p, id), s, mult, call.sub_min), s, mult, A)
<1>. DEFINE b == call.pool
            made == SplitAnds(b, s, DaughtersOf(p, id), call.sub_min, mult, split)
            c == made.pool
            groups == made.groups
            key == p.ors[id].key
            D == Enough(SetsOf(p, id), s, mult, call.sub_min)
            tell == PtsTell(s, mult, A)
            under == WithPoints(s, key, groups)
<1>1. call.sub_min \in Int /\ b \in Pools
  BY DEF SplitCalls
<1>2. Made(b, made, Int, D, tell, A)
  BY <1>1, SplitAndsMade
<1>3. key \in Keys
  BY OrParts DEF SplitReady
<1>4. SplitStep(split, p, id, s, mult, call) = SplitNode(c, s, "ANDS", key, groups)
  BY DEF SplitStep
<1>. HIDE DEF made, D, tell, key, b
<1>5. /\ c \in Pools /\ Extends(b, c) /\ Sound(c, A)
      /\ \E rel : Grouped(groups, Int, rel) /\ Gathered(c, rel, D, tell)
  BY <1>2 DEF Made
<1>6. PICK rel : Grouped(groups, Int, rel) /\ Gathered(c, rel, D, tell)
  BY <1>5
<1>7. groups \in GroupsOf(Int)
  BY <1>6 DEF Grouped
<1>. HIDE DEF c, groups
<1>8. /\ under \in GroupsOf(Keys) /\ DOMAIN under = DOMAIN groups
      /\ \A g \in DOMAIN groups : under[g].ids = groups[g].ids
  BY <1>3, <1>7, WithPointsAre
<1>. HIDE DEF under
<1>9. NodesMade(c, MakeORs(c, "ANDS", under), "ANDS", groups, under, D, tell, A)
  BY <1>5, <1>6, <1>8, NodesHold
<1>10. NodesMade(c, MakeORs(c, "ANDS", WithPoints(s, key, groups)), "ANDS", groups,
                 WithPoints(s, key, groups), D, PtsTell(s, mult, A), A)
  BY <1>9 DEF under, tell
<1>11. SplitInto(b, SplitNode(c, s, "ANDS", key, groups), key, "ANDS", D, s, mult, A)
  BY <1>1, <1>3, <1>5, <1>7, <1>10, SplitNodeMade
<1>. QED
  BY <1>4, <1>11 DEF D, key, b

-----------------------------------------------------------------------------
(* The splitter's recursion is defined on every pool.                      *)
SplitsDefined(split, p, s, mult) ==
  split = [id \in 1..Len(p.ors) |->
             [call \in SplitCalls |-> SplitStep(split, p, id, s, mult, call)]]

(* SplitAnd depends on split at the right node only.                       *)
LEMMA SplitAndAgrees ==
  ASSUME NEW f, NEW g, NEW x, NEW s, NEW and, NEW sub_min, NEW mult,
         f[and.right] = g[and.right]
  PROVE  SplitAnd(x, s, and, sub_min, mult, f) = SplitAnd(x, s, and, sub_min, mult, g)
  BY Zenon DEF SplitAnd

(* The same of the loop over AND nodes.                                    *)
LEMMA SplitAndsAgree ==
  ASSUME NEW f, NEW g, NEW p, NEW s, NEW ands, NEW sub_min, NEW mult,
         Len(ands) \in Nat,
         \A n \in 1..Len(ands) : f[ands[n].right] = g[ands[n].right]
  PROVE  SplitAnds(p, s, ands, sub_min, mult, f) = SplitAnds(p, s, ands, sub_min, mult, g)
<1>1. ASSUME NEW n \in 1..Len(ands)
      PROVE  \A x : SplitAnd(x, s, ands[n], sub_min, mult, f)
                      = SplitAnd(x, s, ands[n], sub_min, mult, g)
  BY SplitAndAgrees
<1>2. ASSUME NEW m
      PROVE  SplitsAnds(m, p, s, ands, sub_min, mult, f)
               <=> SplitsAnds(m, p, s, ands, sub_min, mult, g)
  <2>. DEFINE from(h) == [n \in 0..Len(ands) |->
                            IF n = 0 THEN [pool |-> p, groups |-> <<>>]
                            ELSE SplitAnd(m[n - 1], s, ands[n], sub_min, mult, h)]
  <2>1. ASSUME NEW n \in 0..Len(ands)
        PROVE  (IF n = 0 THEN [pool |-> p, groups |-> <<>>]
                ELSE SplitAnd(m[n - 1], s, ands[n], sub_min, mult, f))
                 = (IF n = 0 THEN [pool |-> p, groups |-> <<>>]
                    ELSE SplitAnd(m[n - 1], s, ands[n], sub_min, mult, g))
    <3>1. CASE n = 0
      BY <3>1, Zenon
    <3>2. CASE n # 0
      <4>1. n \in 1..Len(ands)
        BY <3>2
      <4>2. SplitAnd(m[n - 1], s, ands[n], sub_min, mult, f)
              = SplitAnd(m[n - 1], s, ands[n], sub_min, mult, g)
        BY <1>1, <4>1, Zenon
      <4>. QED
        BY <3>2, <4>2, Zenon
    <3>. QED
      BY <3>1, <3>2
  <2>2. from(f) = from(g)
    BY <2>1, Zenon
  <2>. QED
    BY <2>2, Zenon DEF SplitsAnds
<1>3. (CHOOSE m : SplitsAnds(m, p, s, ands, sub_min, mult, f))
        = (CHOOSE m : SplitsAnds(m, p, s, ands, sub_min, mult, g))
  BY <1>2, Zenon
<1>4. \A h : SplitAnds(p, s, ands, sub_min, mult, h)
               = (CHOOSE m : SplitsAnds(m, p, s, ands, sub_min, mult, h))[Len(ands)]
  BY Zenon DEF SplitAnds, SplitsAnds
<1>. QED
  BY <1>3, <1>4, Zenon

(* So the split of a node depends on the nodes before it only.             *)
LEMMA SplitStepAgrees ==
  ASSUME NEW f, NEW g, NEW p \in Pools, NEW id \in DOMAIN p.ors, NEW s, NEW mult,
         NEW call, \A m \in 1..(id - 1) : f[m] = g[m]
  PROVE  SplitStep(f, p, id, s, mult, call) = SplitStep(g, p, id, s, mult, call)
<1>. DEFINE ands == DaughtersOf(p, id)
            d == p.ors[id].daughters
<1>1. Len(ands) \in Nat /\ \A n \in 1..Len(ands) : f[ands[n].right] = g[ands[n].right]
  <2>1. CASE p.ors[id].tag = "ARMORS"
    BY <2>1 DEF DaughtersOf
  <2>2. CASE p.ors[id].tag = "ANDS"
    <3>1. /\ Len(d) \in Nat /\ DOMAIN d = 1..Len(d) /\ Len(ands) = Len(d)
          /\ \A n \in 1..Len(d) : ands[n] = p.ands[d[n]]
      BY <2>2, DaughtersAre
    <3>2. ASSUME NEW n \in 1..Len(d) PROVE ands[n].right \in 1..(id - 1)
      <4>1. d[n] \in ToSet(d)
        BY <3>1 DEF ToSet
      <4>2. d[n] \in DOMAIN p.ands /\ p.ands[d[n]].right < id
        BY <2>2, <4>1, OrParts
      <4>3. ands[n].right \in DOMAIN p.ors /\ ands[n].right < id
        BY <3>1, <4>2, AndParts
      <4>. HIDE DEF ands
      <4>. QED
        BY <4>3, PoolParts
    <3>. HIDE DEF ands, d
    <3>. QED
      BY <3>1, <3>2
  <2>. QED
    BY <2>1, <2>2, OrParts
<1>. HIDE DEF ands
<1>2. SplitAnds(call.pool, s, ands, call.sub_min, mult, f)
        = SplitAnds(call.pool, s, ands, call.sub_min, mult, g)
  BY <1>1, SplitAndsAgree
<1>. QED
  BY <1>2, Zenon DEF SplitStep, ands

(* f and g agree on the nodes before id.                                   *)
AgreeBelow(f, g, id) == \A m \in 1..(id - 1) : f[m] = g[m]

(* The same for every call.                                                *)
LEMMA SplitStepsAgree ==
  ASSUME NEW p \in Pools, NEW id \in DOMAIN p.ors, NEW s, NEW mult, NEW f, NEW g,
         AgreeBelow(f, g, id)
  PROVE  [call \in SplitCalls |-> SplitStep(f, p, id, s, mult, call)]
           = [call \in SplitCalls |-> SplitStep(g, p, id, s, mult, call)]
<1>1. \A m \in 1..(id - 1) : f[m] = g[m]
  BY DEF AgreeBelow
<1>2. ASSUME NEW call \in SplitCalls
      PROVE  SplitStep(f, p, id, s, mult, call) = SplitStep(g, p, id, s, mult, call)
  BY <1>1, SplitStepAgrees
<1>. QED
  BY <1>2, Zenon

(* So there is a function that satisfies the recursion of SplitOr.         *)
LEMMA SplitsExist ==
  ASSUME NEW p \in Pools, NEW s, NEW mult
  PROVE  \E split : SplitsDefined(split, p, s, mult)
<1>. DEFINE N == Len(p.ors)
            Of(f, id) == [call \in SplitCalls |-> SplitStep(f, p, id, s, mult, call)]
            UpTo(f, k) == /\ f = [id \in 1..N |-> f[id]]
                          /\ \A id \in 1..k : f[id] = Of(f, id)
            T == { k \in 0..N : \E f : UpTo(f, k) }
<1>1. N \in Nat /\ DOMAIN p.ors = 1..N
  BY PoolParts
<1>2. 0 \in T
  <2>. DEFINE f == [id \in 1..N |-> {}]
  <2>1. f = [id \in 1..N |-> f[id]]
    OBVIOUS
  <2>. HIDE DEF f
  <2>2. UpTo(f, 0)
    BY <2>1
  <2>. HIDE DEF UpTo
  <2>. QED
    BY <1>1, <2>2
<1>3. ASSUME NEW k \in 1..N, k - 1 \in T PROVE k \in T
  <2>1. PICK f : UpTo(f, k - 1)
    BY <1>3
  <2>. DEFINE g == [id \in 1..N |-> Of(f, id)]
  <2>2. g = [id \in 1..N |-> g[id]] /\ \A id \in 1..N : g[id] = Of(f, id)
    OBVIOUS
  <2>3. f = [id \in 1..N |-> f[id]] /\ \A id \in 1..(k - 1) : f[id] = Of(f, id)
    BY <2>1
  <2>. HIDE DEF g
  <2>4. ASSUME NEW id \in 1..k PROVE g[id] = Of(g, id)
    <3>1. id \in 1..N /\ id \in DOMAIN p.ors
      BY <1>1
    <3>2. AgreeBelow(f, g, id)
      <4>1. \A m \in 1..(id - 1) : m \in 1..(k - 1) /\ m \in 1..N
        BY <1>1
      <4>. HIDE DEF Of
      <4>. QED
        BY <2>2, <2>3, <4>1 DEF AgreeBelow
    <3>3. Of(f, id) = Of(g, id)
      BY <3>1, <3>2, SplitStepsAgree
    <3>. HIDE DEF Of
    <3>. QED
      BY <2>2, <3>1, <3>3
  <2>5. UpTo(g, k)
    BY <2>2, <2>4
  <2>. HIDE DEF UpTo
  <2>. QED
    BY <1>1, <2>5
<1>4. N \in T
  <2>. HIDE DEF T
  <2>1. \A k \in 0..N : k \in T
    BY <1>1, <1>2, <1>3, IntervalInduction
  <2>. QED
    BY <1>1, <2>1
<1>5. PICK f : UpTo(f, N)
  BY <1>4
<1>6. f = [id \in 1..N |-> f[id]] /\ \A id \in 1..N : f[id] = Of(f, id)
  BY <1>5
<1>. HIDE DEF Of
<1>7. f = [id \in 1..N |-> Of(f, id)]
  BY <1>6
<1>. QED
  BY <1>7, Zenon DEF SplitsDefined, Of

(* It splits every node well: by induction over the nodes.                 *)
LEMMA SplitsAreGood ==
  ASSUME NEW split, NEW p \in Pools, NEW s, NEW mult, NEW A \in SUBSET Nat,
         Sound(p, A), Scores(s, mult, A), SplitsDefined(split, p, s, mult)
  PROVE  \A id \in DOMAIN p.ors : p.ors[id].tag = "ANDS" => SplitsAt(split, p, id, s, mult, A)
<1>. DEFINE N == Len(p.ors)
            T == { k \in 0..N : \A id \in 1..k : p.ors[id].tag = "ANDS"
                                  => SplitsAt(split, p, id, s, mult, A) }
<1>1. N \in Nat /\ DOMAIN p.ors = 1..N
  BY PoolParts
<1>2. 0 \in T
  BY <1>1
<1>3. ASSUME NEW k \in 1..N, k - 1 \in T PROVE k \in T
  <2>1. \A j \in 1..(k - 1) : p.ors[j].tag = "ANDS" => SplitsAt(split, p, j, s, mult, A)
    BY <1>3
  <2>2. ASSUME p.ors[k].tag = "ANDS" PROVE SplitsAt(split, p, k, s, mult, A)
    <3>1. ASSUME NEW call \in SplitCalls, Extends(p, call.pool), Sound(call.pool, A)
          PROVE  SplitInto(call.pool, split[k][call], p.ors[k].key, "ANDS",
                           Enough(SetsOf(p, k), s, mult, call.sub_min), s, mult, A)
      <4>1. call.pool \in Pools
        BY DEF SplitCalls
      <4>2. k \in DOMAIN p.ors
        BY <1>1
      <4>3. SplitReady(split, p, k, call.pool, s, mult, A)
        BY <2>1, <2>2, <3>1, <4>1, <4>2 DEF SplitReady
      <4>4. split[k][call] = SplitStep(split, p, k, s, mult, call)
        <5>1. split[k] = [c \in SplitCalls |-> SplitStep(split, p, k, s, mult, c)]
          BY Zenon DEF SplitsDefined
        <5>. QED
          BY <5>1
      <4>5. SplitInto(call.pool, SplitStep(split, p, k, s, mult, call), p.ors[k].key, "ANDS",
                      Enough(SetsOf(p, k), s, mult, call.sub_min), s, mult, A)
        BY <4>3, SplitStepMade
      <4>. QED
        BY <4>4, <4>5
    <3>. QED
      BY <3>1 DEF SplitsAt
  <2>3. \A id \in 1..k : id \in 1..(k - 1) \/ id = k
    BY <1>1
  <2>. QED
    BY <1>1, <2>1, <2>2, <2>3
<1>4. N \in T
  <2>. HIDE DEF T
  <2>1. \A k \in 0..N : k \in T
    BY <1>1, <1>2, <1>3, IntervalInduction
  <2>. QED
    BY <1>1, <2>1
<1>. QED
  BY <1>1, <1>4

(* SplitOr keeps the sets of a node that reach the minimum, each once, and *)
(* its groups tell their points.                                           *)
LEMMA SplitOrMade ==
  ASSUME NEW p \in Pools, NEW s, NEW mult, NEW A \in SUBSET Nat, NEW id \in DOMAIN p.ors,
         NEW sub_min \in Int, Sound(p, A), Scores(s, mult, A), p.ors[id].tag = "ANDS"
  PROVE  SplitInto(p, SplitOr(p, s, id, sub_min, mult), p.ors[id].key, "ANDS",
                   Enough(SetsOf(p, id), s, mult, sub_min), s, mult, A)
<1>. DEFINE split == CHOOSE f : SplitsDefined(f, p, s, mult)
            call == [pool |-> p, sub_min |-> sub_min]
<1>1. SplitsDefined(split, p, s, mult)
  BY SplitsExist, Zenon
<1>2. SplitOr(p, s, id, sub_min, mult) = split[id][call]
  BY Zenon DEF SplitOr, SplitsDefined, SplitStep
<1>3. call \in SplitCalls /\ call.pool = p /\ call.sub_min = sub_min
  BY DEF SplitCalls
<1>. HIDE DEF split, call
<1>4. SplitsAt(split, p, id, s, mult, A)
  BY <1>1, SplitsAreGood
<1>5. Extends(p, p)
  BY ExtendsItself
<1>6. SplitInto(call.pool, split[id][call], p.ors[id].key, "ANDS",
                Enough(SetsOf(p, id), s, mult, call.sub_min), s, mult, A)
  BY <1>3, <1>4, <1>5 DEF SplitsAt
<1>. QED
  BY <1>2, <1>3, <1>6

-----------------------------------------------------------------------------
(* The points the splitter counts are the points of a set.                 *)
LEMMA FullSetIs ==
  ASSUME NEW q \in Queries, NEW x \in PartialSets(q, PART_NUM)
  PROVE  /\ x \in Seq(Armors(q))
         /\ \E a \in Armors(q), y \in Seq(Armors(q)) :
              /\ x = Led(a, y) /\ Len(y) \in 0..6
              /\ Arsenal(q)[a].part = "BODY"
              /\ \A i \in 1..Len(y) : y[i] \in Armors(q) /\ Arsenal(q)[y[i]].part # "BODY"
<1>. DEFINE n == PART_NUM - 1
<1>1. n \in Nat /\ n + 1 = PART_NUM /\ n \in 0..6 /\ PART_NUM = Body /\ PART_NUM \in 1..PART_NUM
  BY PartNum
<1>2. x \in Prefixed(PartIds(q, PART_NUM), PartialSets(q, n))
  <2>1. PartialSets(q, n + 1) = Prefixed(PartIds(q, n + 1), PartialSets(q, n))
    BY <1>1, PartialNext
  <2>. HIDE DEF n
  <2>. QED
    BY <1>1, <2>1
<1>3. PICK a \in PartIds(q, PART_NUM) : \E y \in PartialSets(q, n) : x = Led(a, y)
  BY <1>2, PrefixedBy
<1>4. PICK y \in PartialSets(q, n) : x = Led(a, y)
  BY <1>3
<1>5. /\ y \in Seq(Armors(q)) /\ Len(y) = n
      /\ \A i \in 1..n : y[i] \in PartIds(q, n - i + 1)
  BY DEF PartialSets
<1>6. a \in Armors(q) /\ Arsenal(q)[a].part = "BODY"
  BY <1>1, PartIsBody
<1>7. ASSUME NEW i \in 1..n PROVE y[i] \in Armors(q) /\ Arsenal(q)[y[i]].part # "BODY"
  <2>. DEFINE m == n - i + 1
  <2>1. m \in 1..PART_NUM /\ m # Body
    BY <1>1
  <2>2. y[i] \in PartIds(q, m)
    BY <1>5
  <2>. HIDE DEF m
  <2>. QED
    BY <2>1, <2>2, PartIsBody
<1>8. x \in Seq(Armors(q))
  BY DEF PartialSets
<1>. HIDE DEF n
<1>9. Len(y) \in 0..6 /\ \A i \in 1..Len(y) : y[i] \in Armors(q) /\ Arsenal(q)[y[i]].part # "BODY"
  BY <1>1, <1>5, <1>7
<1>. QED
  BY <1>4, <1>5, <1>6, <1>8, <1>9

(* The points of an armor for the splitter of an effect.                   *)
LEMMA SplitterScores ==
  ASSUME NEW q \in Queries, NEW e \in DOMAIN q.effects, NEW mult \in Nat,
         NEW a \in Armors(q)
  PROVE  /\ Arsenal(q)[a].part = "BODY" =>
              ArmorPoints(Splitter(q, e), a, mult)
                = IF mult > 1 THEN PointsOf(q, a, e) * mult ELSE PointsOf(q, a, e)
         /\ Arsenal(q)[a].part # "BODY" =>
              ArmorPoints(Splitter(q, e), a, mult) = PointsOf(q, a, e)
         /\ ArmorPoints(Splitter(q, e), a, mult) \in Int
<1>. DEFINE v == PointsOf(q, a, e)
            body == Arsenal(q)[a].part = "BODY"
<1>1. ArmorPoints(Splitter(q, e), a, mult) = IF body /\ mult > 1 THEN v * mult ELSE v
  BY DEF ArmorPoints, Splitter, PointsOf
<1>2. v \in -18..18
  BY ArmorParts
<1>. HIDE DEF v, body
<1>3. ArmorPoints(Splitter(q, e), a, mult) \in Int
  BY <1>1, <1>2
<1>4. body => ArmorPoints(Splitter(q, e), a, mult) = IF mult > 1 THEN v * mult ELSE v
  BY <1>1
<1>5. ~body => ArmorPoints(Splitter(q, e), a, mult) = v
  BY <1>1
<1>. QED
  BY <1>3, <1>4, <1>5 DEF v, body

(* They are numbers.                                                       *)
LEMMA SplitterReady ==
  ASSUME NEW q \in Queries, NEW e \in DOMAIN q.effects, NEW mult \in Nat
  PROVE  Scores(Splitter(q, e), mult, Armors(q))
<1>1. ASSUME NEW a \in Armors(q) PROVE ArmorPoints(Splitter(q, e), a, mult) \in Int
  BY SplitterScores
<1>. QED
  BY <1>1 DEF Scores

(* Without a body the points are those of the parts.                       *)
LEMMA BodilessPoints ==
  ASSUME NEW q \in Queries, NEW e \in DOMAIN q.effects, NEW mult \in Nat,
         NEW y \in Seq(Armors(q)),
         \A i \in 1..Len(y) : y[i] \in Armors(q) /\ Arsenal(q)[y[i]].part # "BODY"
  PROVE  Pts(Splitter(q, e), mult, y) = PartPoints(q, y, e)
<1>1. DOMAIN y = 1..Len(y)
  BY LenProperties
<1>2. ASSUME NEW i \in DOMAIN y
      PROVE  ArmorPoints(Splitter(q, e), y[i], mult) = PointsOf(q, y[i], e)
  BY <1>1, SplitterScores
<1>3. PtsEach(Splitter(q, e), mult, y) = [n \in DOMAIN y |-> PointsOf(q, y[n], e)]
  BY <1>2 DEF PtsEach
<1>. QED
  BY <1>3, Zenon DEF Pts, PartPoints

(* With the right multiplier they are the points of the set, within a      *)
(* byte.                                                                   *)
LEMMA FullPoints ==
  ASSUME NEW q \in Queries, NEW e \in DOMAIN q.effects, NEW x \in PartialSets(q, PART_NUM)
  PROVE  /\ TorsoUps(q, x) \in 0..6
         /\ Pts(Splitter(q, e), 1 + TorsoUps(q, x), x) = SetPoints(q, x, e)
         /\ SetPoints(q, x, e) \in -126..126
<1>. DEFINE A == Armors(q)
            s == Splitter(q, e)
<1>1. PICK a \in A, y \in Seq(A) :
        /\ x = Led(a, y) /\ Len(y) \in 0..6
        /\ Arsenal(q)[a].part = "BODY"
        /\ \A i \in 1..Len(y) : y[i] \in Armors(q) /\ Arsenal(q)[y[i]].part # "BODY"
  BY FullSetIs
<1>. DEFINE n == Len(y)
            t == TorsoUps(q, y)
            v == PointsOf(q, a, e)
            w == PartPoints(q, y, e)
            mult == 1 + t
<1>2. n \in Nat /\ PartBounds(q, y, n)
  BY BoundsHold
<1>3. n \in 0..6 /\ t \in 0..n /\ w \in (-18 * (n - t))..(18 * (n - t))
  BY <1>1, <1>2 DEF PartBounds
<1>4. v \in -18..18
  BY ArmorParts
<1>5. TorsoUps(q, x) = t /\ SetPoints(q, x, e) = v * (1 + t) + w
  BY <1>1, <1>2, BodyCounts
<1>6. mult \in Nat /\ mult >= 1
  <2>. HIDE DEF t, n
  <2>. QED
    BY <1>3
<1>7. ArmorPoints(s, a, mult) = IF mult > 1 THEN v * mult ELSE v
  BY <1>1, <1>6, SplitterScores
<1>8. Pts(s, mult, y) = w
  BY <1>1, <1>6, BodilessPoints
<1>9. Scores(s, mult, A)
  BY <1>6, SplitterReady
<1>10. Pts(s, mult, x) = ArmorPoints(s, a, mult) + Pts(s, mult, y)
  <2>. HIDE DEF s, A, mult
  <2>1. Pts(s, mult, Led(a, y)) = ArmorPoints(s, a, mult) + Pts(s, mult, y)
    BY <1>9, PtsLed
  <2>. QED
    BY <1>1, <2>1
<1>. HIDE DEF s, n, t, v, w
<1>11. ArmorPoints(s, a, mult) = v * (1 + t)
  <2>1. CASE t = 0
    BY <1>4, <1>7, <2>1
  <2>2. CASE t # 0
    <3>1. mult > 1
      BY <1>3, <2>2
    <3>. QED
      BY <1>7, <3>1
  <2>. QED
    BY <2>1, <2>2
<1>12. Pts(s, mult, x) = SetPoints(q, x, e)
  BY <1>5, <1>8, <1>10, <1>11
<1>13. SetPoints(q, x, e) \in -126..126
  BY <1>3, <1>4, <1>5, ProductFits
<1>14. TorsoUps(q, x) \in 0..6
  BY <1>3, <1>5
<1>. QED
  BY <1>5, <1>12, <1>13, <1>14 DEF s

(* What AddPoints changes.                                                 *)
PointsAdded(key, new, e, points) ==
  /\ new \in Keys /\ new.b0 = key.b0 /\ new.b1 = key.b1 /\ new.b2 = key.b2
  /\ DOMAIN new.pts = DOMAIN key.pts
  /\ \A d \in DOMAIN key.pts :
       new.pts[d] = IF d = e THEN Char8(key.pts[e] + points) ELSE key.pts[d]

(* AddPoints does that.                                                    *)
LEMMA AddPointsFields ==
  ASSUME NEW key \in Keys, NEW e, NEW points \in Int
  PROVE  PointsAdded(key, AddPoints(key, e, points), e, points)
<1>. DEFINE old == key.pts
            pts == [old EXCEPT ![e] = Char8(old[e] + points)]
            v0 == key.b0
            v1 == key.b1
            v2 == key.b2
<1>1. key = [b0 |-> v0, b1 |-> v1, b2 |-> v2, pts |-> old]
  BY DEF Keys
<1>2. AddPoints(key, e, points) \in Keys
  BY AddPointsKey
<1>. HIDE DEF v0, v1, v2, old
<1>3. AddPoints([b0 |-> v0, b1 |-> v1, b2 |-> v2, pts |-> old], e, points)
        = [b0 |-> v0, b1 |-> v1, b2 |-> v2, pts |-> pts]
  BY AddPointsTo
<1>4. /\ DOMAIN pts = DOMAIN old
      /\ \A d \in DOMAIN old : pts[d] = IF d = e THEN Char8(old[e] + points) ELSE old[d]
  OBVIOUS
<1>5. AddPoints(key, e, points) = [b0 |-> v0, b1 |-> v1, b2 |-> v2, pts |-> pts]
  BY <1>1, <1>3
<1>. HIDE DEF pts
<1>6. /\ AddPoints(key, e, points).b0 = v0 /\ AddPoints(key, e, points).b1 = v1
      /\ AddPoints(key, e, points).b2 = v2 /\ AddPoints(key, e, points).pts = pts
  BY <1>5
<1>. QED
  BY <1>2, <1>4, <1>6 DEF PointsAdded, v0, v1, v2, old

(* The key of a tree that is split by one more effect.                     *)
LEMMA TellsMore ==
  ASSUME NEW q \in Queries, NEW effects \in Nat, effects < Len(q.effects),
         NEW key, NEW x \in PartialSets(q, PART_NUM), SetTells(q, key, x, effects)
  PROVE  SetTells(q, AddPoints(key, effects + 1, SetPoints(q, x, effects + 1)), x, effects + 1)
<1>. DEFINE e == effects + 1
            v == SetPoints(q, x, e)
            new == AddPoints(key, e, v)
<1>1. Len(q.effects) \in Nat /\ DOMAIN q.effects = 1..Len(q.effects) /\ e \in DOMAIN q.effects
  BY QueryParts
<1>2. v \in -126..126
  BY <1>1, FullPoints
<1>3. key \in Keys /\ DOMAIN key.pts = DOMAIN q.effects /\ KeyTells(q, key, x, effects)
  BY DEF SetTells
<1>4. \A d \in DOMAIN q.effects : key.pts[d] = IF d <= effects THEN SetPoints(q, x, d) ELSE 0
  BY <1>3 DEF KeyTells, GetPoints
<1>5. /\ new \in Keys /\ new.b0 = key.b0 /\ new.b1 = key.b1 /\ new.b2 = key.b2
      /\ DOMAIN new.pts = DOMAIN key.pts
      /\ \A d \in DOMAIN key.pts : new.pts[d] = IF d = e THEN Char8(key.pts[e] + v) ELSE key.pts[d]
  <2>1. v \in Int
    <3>. HIDE DEF v
    <3>. QED
      BY <1>2
  <2>. HIDE DEF v, e, new
  <2>2. PointsAdded(key, AddPoints(key, e, v), e, v)
    BY <1>3, <2>1, AddPointsFields
  <2>. QED
    BY <2>2 DEF PointsAdded, new
<1>6. Char8(0 + v) = v
  <2>. HIDE DEF v
  <2>. QED
    BY <1>2 DEF Char8
<1>. HIDE DEF new, v, e
<1>7. ASSUME NEW d \in DOMAIN q.effects
      PROVE  new.pts[d] = IF d <= e THEN SetPoints(q, x, d) ELSE 0
  <2>1. CASE d = e
    BY <1>1, <1>3, <1>4, <1>5, <1>6, <2>1 DEF v, e
  <2>2. CASE d # e
    BY <1>1, <1>3, <1>4, <1>5, <2>2 DEF e
  <2>. QED
    BY <2>1, <2>2
<1>8. KeyTells(q, new, x, e)
  <2>1. /\ Ones(new) = Ones(key) /\ Twos(new) = Twos(key) /\ Threes(new) = Threes(key)
        /\ BodySlotSum(new) = BodySlotSum(key) /\ Multiplier(new) = Multiplier(key)
    BY <1>5 DEF Ones, Twos, Threes, BodySlotSum, BodyThrees, BodyTwos, BodyOnes, Multiplier
  <2>2. \A d \in DOMAIN q.effects : GetPoints(new, d) = IF d <= e THEN SetPoints(q, x, d) ELSE 0
    BY <1>7 DEF GetPoints
  <2>. QED
    BY <1>3, <2>1, <2>2 DEF KeyTells
<1>9. SetTells(q, new, x, e)
  BY <1>3, <1>5, <1>8 DEF SetTells
<1>. QED
  BY <1>9 DEF new, v, e

-----------------------------------------------------------------------------
(* MaxOr is the most points of a set below a node.                         *)
Small(s, mult, A) == \A a \in A : ArmorPoints(s, a, mult) \in -126..126

(* Small points are numbers.                                               *)
LEMMA SmallScores ==
  ASSUME NEW s, NEW mult, NEW A, Small(s, mult, A) PROVE Scores(s, mult, A)
<1>1. ASSUME NEW a \in A PROVE ArmorPoints(s, a, mult) \in Int
  <2>. DEFINE v == ArmorPoints(s, a, mult)
  <2>1. v \in -126..126
    BY DEF Small
  <2>. HIDE DEF v
  <2>2. v \in Int
    BY <2>1
  <2>. QED
    BY <2>2 DEF v
<1>. QED
  BY <1>1 DEF Scores

(* Arithmetic: one more armor.                                             *)
LEMMA OneMoreSmall ==
  ASSUME NEW n \in Nat, NEW v \in -126..126, NEW w \in (-126 * n)..(126 * n)
  PROVE  v + w \in (-126 * (n + 1))..(126 * (n + 1))
  OBVIOUS

(* The points of a set are bounded by its length.                          *)
LEMMA SmallSums ==
  ASSUME NEW s, NEW mult, NEW A, Small(s, mult, A)
  PROVE  \A x \in Seq(A) : Pts(s, mult, x) \in (-126 * Len(x))..(126 * Len(x))
<1>. DEFINE T == { n \in Nat : \A x \in Seq(A) : Len(x) = n
                      => Pts(s, mult, x) \in (-126 * n)..(126 * n) }
<1>1. 0 \in T
  <2>1. ASSUME NEW x \in Seq(A), Len(x) = 0
        PROVE  Pts(s, mult, x) \in (-126 * 0)..(126 * 0)
    <3>1. x = <<>>
      BY <2>1
    <3>2. Pts(s, mult, x) = 0
      BY <3>1, PtsNone
    <3>. QED
      BY <3>2
  <2>. QED
    BY <2>1
<1>2. ASSUME NEW n \in Nat, n \in T PROVE n + 1 \in T
  <2>1. ASSUME NEW x \in Seq(A), Len(x) = n + 1
        PROVE  Pts(s, mult, x) \in (-126 * (n + 1))..(126 * (n + 1))
    <3>1. PICK y \in Seq(A) : x[1] \in A /\ Len(y) = n /\ x = Led(x[1], y)
      BY <2>1, IsLed
    <3>. DEFINE a == x[1]
                v == ArmorPoints(s, a, mult)
                w == Pts(s, mult, y)
    <3>2. w \in (-126 * n)..(126 * n)
      BY <1>2, <3>1
    <3>3. v \in -126..126
      BY <3>1 DEF Small
    <3>4. Pts(s, mult, x) = v + w
      <4>1. Pts(s, mult, Led(a, y)) = ArmorPoints(s, a, mult) + Pts(s, mult, y)
        <5>. HIDE DEF a
        <5>1. a \in A /\ Scores(s, mult, A)
          BY <3>1, SmallScores DEF a
        <5>. QED
          BY <5>1, PtsLed
      <4>. QED
        BY <3>1, <4>1
    <3>. HIDE DEF v, w
    <3>. QED
      BY <3>2, <3>3, <3>4, OneMoreSmall
  <2>. QED
    BY <2>1
<1>. HIDE DEF T
<1>3. Nat \subseteq T
  BY <1>1, <1>2, NatSetInduction
<1>4. ASSUME NEW x \in Seq(A) PROVE Pts(s, mult, x) \in (-126 * Len(x))..(126 * Len(x))
  <2>1. Len(x) \in T
    BY <1>3
  <2>. QED
    BY <2>1 DEF T
<1>. QED
  BY <1>4

(* m is the most points of a set of D.                                     *)
TopOf(s, mult, D, m) ==
  /\ m \in Int
  /\ \E x \in D : Pts(s, mult, x) = m
  /\ \A x \in D : Pts(s, mult, x) <= m

(* The most points in front and behind make the most points.               *)
LEMMA TopOfPrefixed ==
  ASSUME NEW s, NEW mult, NEW A, Scores(s, mult, A),
         NEW F, F \subseteq A, NEW S, S \subseteq Seq(A), NEW l \in Int, NEW r,
         \E a \in F : ArmorPoints(s, a, mult) = l,
         \A a \in F : ArmorPoints(s, a, mult) <= l,
         TopOf(s, mult, S, r)
  PROVE  TopOf(s, mult, Prefixed(F, S), l + r)
<1>1. \A z : z \in Prefixed(F, S) <=> \E a \in F : \E y \in S : z = Led(a, y)
  BY PrefixedBy
<1>2. ASSUME NEW a \in F, NEW y \in S
      PROVE  /\ Pts(s, mult, Led(a, y)) = ArmorPoints(s, a, mult) + Pts(s, mult, y)
             /\ ArmorPoints(s, a, mult) \in Int /\ Pts(s, mult, y) \in Int
  <2>1. a \in A /\ y \in Seq(A)
    OBVIOUS
  <2>. QED
    BY <2>1, PtsLed, PtsInt DEF Scores
<1>3. PICK a \in F : ArmorPoints(s, a, mult) = l
  OBVIOUS
<1>4. r \in Int /\ \E y \in S : Pts(s, mult, y) = r
  BY DEF TopOf
<1>5. PICK y \in S : Pts(s, mult, y) = r
  BY <1>4
<1>6. Led(a, y) \in Prefixed(F, S) /\ Pts(s, mult, Led(a, y)) = l + r
  BY <1>1, <1>2, <1>3, <1>5
<1>7. ASSUME NEW z \in Prefixed(F, S) PROVE Pts(s, mult, z) <= l + r
  <2>1. PICK b \in F : \E u \in S : z = Led(b, u)
    BY <1>1
  <2>2. PICK u \in S : z = Led(b, u)
    BY <2>1
  <2>. DEFINE v == ArmorPoints(s, b, mult)
              w == Pts(s, mult, u)
  <2>3. Pts(s, mult, z) = v + w /\ v \in Int /\ w \in Int
    BY <1>2, <2>2
  <2>4. v <= l /\ w <= r
    BY DEF TopOf
  <2>. HIDE DEF v, w
  <2>. QED
    BY <1>4, <2>3, <2>4
<1>8. l + r \in Int
  BY <1>4
<1>. QED
  BY <1>6, <1>7, <1>8 DEF TopOf

(* MaxArmorOr is the most points of an armor of a leaf.                    *)
LEMMA MaxArmorOrIs ==
  ASSUME NEW p \in Pools, NEW s, NEW mult, NEW A, Small(s, mult, A), Sound(p, A),
         NEW id \in DOMAIN p.ors, p.ors[id].tag = "ARMORS"
  PROVE  /\ ToSet(p.ors[id].daughters) \subseteq A
         /\ MaxArmorOr(p, s, id, mult) \in Int
         /\ \E a \in ToSet(p.ors[id].daughters) :
              ArmorPoints(s, a, mult) = MaxArmorOr(p, s, id, mult)
         /\ \A a \in ToSet(p.ors[id].daughters) :
              ArmorPoints(s, a, mult) <= MaxArmorOr(p, s, id, mult)
<1>. DEFINE d == p.ors[id].daughters
            n == Len(d)
            f == [k \in 1..n |-> ArmorPoints(s, d[k], mult)]
            S == { f[k] : k \in 1..n }
            m == MaxArmorOr(p, s, id, mult)
<1>1. d \in Seq(Nat) /\ d # <<>> /\ ToSet(d) \subseteq A
  BY OrParts DEF Sound
<1>2. m = Highest({ ArmorPoints(s, a, mult) : a \in ToSet(d) })
  BY DEF MaxArmorOr
<1>. HIDE DEF d, m
<1>3. n \in Nat /\ n >= 1 /\ DOMAIN d = 1..n /\ ToSet(d) = { d[k] : k \in 1..n }
  BY <1>1 DEF ToSet
<1>4. \A k \in 1..n : ArmorPoints(s, d[k], mult) \in -126..126
  BY <1>1, <1>3 DEF Small
<1>5. f \in [1..n -> Int] /\ \A k \in 1..n : f[k] = ArmorPoints(s, d[k], mult)
  <2>1. \A k \in 1..n : ArmorPoints(s, d[k], mult) \in Int
    BY <1>1, <1>3, SmallScores DEF Scores
  <2>. QED
    BY <2>1
<1>6. { ArmorPoints(s, a, mult) : a \in ToSet(d) } = S
  BY <1>3
<1>. HIDE DEF f
<1>7. /\ Highest(S) \in Int
      /\ \A k \in 1..n : f[k] <= Highest(S)
      /\ Highest(S) = -1000 \/ \E k \in 1..n : Highest(S) = f[k]
  <2>1. n \in Nat
    BY <1>3
  <2>. HIDE DEF n
  <2>2. f \in [1..n -> Int]
    BY <1>5
  <2>3. HighestFits(n, f, Highest(S))
    BY <2>1, <2>2, HighestOf
  <2>. QED
    BY <2>3 DEF HighestFits
<1>. HIDE DEF S
<1>8. m = Highest(S)
  BY <1>2, <1>6
<1>9. Highest(S) # -1000
  <2>1. 1 \in 1..n
    BY <1>3
  <2>2. f[1] \in -126..126 /\ f[1] <= Highest(S)
    BY <1>4, <1>5, <1>7, <2>1
  <2>. QED
    BY <2>2
<1>10. PICK k \in 1..n : m = f[k]
  BY <1>7, <1>8, <1>9
<1>11. \E a \in ToSet(d) : ArmorPoints(s, a, mult) = m
  BY <1>3, <1>5, <1>10
<1>12. \A a \in ToSet(d) : ArmorPoints(s, a, mult) <= m
  BY <1>3, <1>5, <1>7, <1>8
<1>. QED
  BY <1>1, <1>7, <1>8, <1>11, <1>12 DEF d, m

(* What MaxOr computes for a node from the nodes below.                    *)
MaxStep(p, s, mult, max, id) ==
  IF p.ors[id].tag = "ARMORS" THEN MaxArmorOr(p, s, id, mult)
  ELSE Highest({ MaxArmorOr(p, s, p.ands[a].left, mult) + max[p.ands[a].right] :
                   a \in ToSet(p.ors[id].daughters) })

MaxDefined(max, p, s, mult) ==
  max = [id \in 1..Len(p.ors) |-> MaxStep(p, s, mult, max, id)]

(* It depends on the nodes before it only.                                 *)
LEMMA MaxLooksBack ==
  ASSUME NEW p \in Pools, NEW id \in DOMAIN p.ors, NEW f, NEW g, NEW s, NEW mult,
         \A m \in 1..(id - 1) : f[m] = g[m]
  PROVE  MaxStep(p, s, mult, f, id) = MaxStep(p, s, mult, g, id)
<1>1. CASE p.ors[id].tag = "ARMORS"
  BY <1>1, Zenon DEF MaxStep
<1>2. CASE p.ors[id].tag # "ARMORS"
  <2>1. ASSUME NEW a \in ToSet(p.ors[id].daughters)
        PROVE  f[p.ands[a].right] = g[p.ands[a].right]
    <3>1. a \in DOMAIN p.ands /\ p.ands[a].right < id
      BY <1>2, OrParts
    <3>2. p.ands[a].right \in DOMAIN p.ors
      BY <3>1, AndParts
    <3>3. p.ands[a].right \in 1..(id - 1)
      BY <3>1, <3>2, PoolParts
    <3>. QED
      BY <3>3
  <2>2. { MaxArmorOr(p, s, p.ands[a].left, mult) + f[p.ands[a].right] :
            a \in ToSet(p.ors[id].daughters) }
          = { MaxArmorOr(p, s, p.ands[a].left, mult) + g[p.ands[a].right] :
                a \in ToSet(p.ors[id].daughters) }
    BY <2>1
  <2>. QED
    BY <1>2, <2>2, Zenon DEF MaxStep
<1>. QED
  BY <1>1, <1>2

(* So there is a function that satisfies the recursion of MaxOr.           *)
LEMMA MaxExists ==
  ASSUME NEW p \in Pools, NEW s, NEW mult
  PROVE  \E max : MaxDefined(max, p, s, mult)
<1>. DEFINE N == Len(p.ors)
            UpTo(f, k) == /\ f = [id \in 1..N |-> f[id]]
                          /\ \A id \in 1..k : f[id] = MaxStep(p, s, mult, f, id)
            T == { k \in 0..N : \E f : UpTo(f, k) }
<1>1. N \in Nat /\ DOMAIN p.ors = 1..N
  BY PoolParts
<1>2. 0 \in T
  <2>. DEFINE f == [id \in 1..N |-> {}]
  <2>1. f = [id \in 1..N |-> f[id]]
    OBVIOUS
  <2>. HIDE DEF f
  <2>2. UpTo(f, 0)
    BY <2>1
  <2>. HIDE DEF UpTo
  <2>. QED
    BY <1>1, <2>2
<1>3. ASSUME NEW k \in 1..N, k - 1 \in T PROVE k \in T
  <2>1. PICK f : UpTo(f, k - 1)
    BY <1>3
  <2>. DEFINE g == [id \in 1..N |-> MaxStep(p, s, mult, f, id)]
  <2>2. g = [id \in 1..N |-> g[id]] /\ \A id \in 1..N : g[id] = MaxStep(p, s, mult, f, id)
    OBVIOUS
  <2>. HIDE DEF g
  <2>3. ASSUME NEW id \in 1..k PROVE g[id] = MaxStep(p, s, mult, g, id)
    <3>1. id \in 1..N /\ id \in DOMAIN p.ors
      BY <1>1
    <3>2. \A m \in 1..(id - 1) : f[m] = g[m]
      <4>1. \A m \in 1..(id - 1) : m \in 1..(k - 1) /\ m \in 1..N
        BY <1>1
      <4>. QED
        BY <2>1, <2>2, <4>1
    <3>3. MaxStep(p, s, mult, f, id) = MaxStep(p, s, mult, g, id)
      BY <3>1, <3>2, MaxLooksBack
    <3>. QED
      BY <2>2, <3>1, <3>3
  <2>4. UpTo(g, k)
    BY <2>2, <2>3
  <2>. HIDE DEF UpTo
  <2>. QED
    BY <1>1, <2>4
<1>4. N \in T
  <2>. HIDE DEF T
  <2>1. \A k \in 0..N : k \in T
    BY <1>1, <1>2, <1>3, IntervalInduction
  <2>. QED
    BY <1>1, <2>1
<1>5. PICK f : UpTo(f, N)
  BY <1>4
<1>6. f = [id \in 1..N |-> MaxStep(p, s, mult, f, id)]
  BY <1>5
<1>. QED
  BY <1>6 DEF MaxDefined

(* MaxOr unfolds once.                                                     *)
LEMMA MaxUnfold ==
  ASSUME NEW p \in Pools, NEW s, NEW mult, NEW id \in DOMAIN p.ors
  PROVE  /\ p.ors[id].tag = "ARMORS" => MaxOr(p, s, id, mult) = MaxArmorOr(p, s, id, mult)
         /\ p.ors[id].tag = "ANDS" =>
              MaxOr(p, s, id, mult)
                = Highest({ MaxArmorOr(p, s, p.ands[a].left, mult)
                            + MaxOr(p, s, p.ands[a].right, mult) :
                              a \in ToSet(p.ors[id].daughters) })
<1>. DEFINE max == CHOOSE f : MaxDefined(f, p, s, mult)
<1>1. MaxDefined(max, p, s, mult)
  BY MaxExists, Zenon
<1>2. \A m : MaxOr(p, s, m, mult) = max[m]
  BY Zenon DEF MaxOr, MaxDefined, MaxStep
<1>. HIDE DEF max
<1>3. max[id] = MaxStep(p, s, mult, max, id)
  BY <1>1, PoolParts DEF MaxDefined
<1>4. CASE p.ors[id].tag = "ARMORS"
  BY <1>2, <1>3, <1>4 DEF MaxStep
<1>5. CASE p.ors[id].tag = "ANDS"
  <2>1. MaxOr(p, s, id, mult)
          = Highest({ MaxArmorOr(p, s, p.ands[a].left, mult) + max[p.ands[a].right] :
                        a \in ToSet(p.ors[id].daughters) })
    BY <1>2, <1>3, <1>5 DEF MaxStep
  <2>2. { MaxArmorOr(p, s, p.ands[a].left, mult) + max[p.ands[a].right] :
            a \in ToSet(p.ors[id].daughters) }
          = { MaxArmorOr(p, s, p.ands[a].left, mult) + MaxOr(p, s, p.ands[a].right, mult) :
                a \in ToSet(p.ors[id].daughters) }
    BY <1>2
  <2>. QED
    BY <1>5, <2>1, <2>2
<1>. QED
  BY <1>4, <1>5, OrParts

(* The sets below a node are no longer than 7.                             *)
Short(p, id) == \A x \in SetsOf(p, id) : Len(x) <= 7

MaxIsTop(p, s, mult, id) == TopOf(s, mult, SetsOf(p, id), MaxOr(p, s, id, mult))

(* MaxOr of a leaf is right.                                               *)
LEMMA MaxOfArmors ==
  ASSUME NEW p \in Pools, NEW s, NEW mult, NEW A, Small(s, mult, A), Sound(p, A),
         NEW id \in DOMAIN p.ors, p.ors[id].tag = "ARMORS"
  PROVE  MaxIsTop(p, s, mult, id)
<1>. DEFINE d == ToSet(p.ors[id].daughters)
            m == MaxArmorOr(p, s, id, mult)
<1>1. /\ d \subseteq A /\ m \in Int
      /\ \E a \in d : ArmorPoints(s, a, mult) = m
      /\ \A a \in d : ArmorPoints(s, a, mult) <= m
  BY MaxArmorOrIs
<1>2. SetsOf(p, id) = { <<a>> : a \in d } /\ MaxOr(p, s, id, mult) = m
  BY SetsUnfold, MaxUnfold
<1>. HIDE DEF d, m
<1>3. Scores(s, mult, A)
  BY SmallScores
<1>4. \A a \in d : Pts(s, mult, <<a>>) = ArmorPoints(s, a, mult)
  BY <1>1, <1>3, PtsAlone
<1>5. TopOf(s, mult, { <<a>> : a \in d }, m)
  BY <1>1, <1>4 DEF TopOf
<1>. QED
  BY <1>2, <1>5 DEF MaxIsTop

(* Below an AND node the highest points add up.                            *)
LEMMA MaxOfAnd ==
  ASSUME NEW p \in Pools, NEW s, NEW mult, NEW A \in SUBSET Nat,
         Small(s, mult, A), Sound(p, A),
         NEW a \in DOMAIN p.ands, MaxIsTop(p, s, mult, p.ands[a].right)
  PROVE  TopOf(s, mult, SetsThrough(p, a),
               MaxArmorOr(p, s, p.ands[a].left, mult) + MaxOr(p, s, p.ands[a].right, mult))
<1>. DEFINE left == p.ands[a].left
            r == p.ands[a].right
            F == ToSet(p.ors[left].daughters)
            S == SetsOf(p, r)
            l == MaxArmorOr(p, s, left, mult)
            h == MaxOr(p, s, r, mult)
<1>1. left \in DOMAIN p.ors /\ r \in DOMAIN p.ors /\ p.ors[left].tag = "ARMORS"
  BY AndParts
<1>2. /\ F \subseteq A /\ l \in Int
      /\ \E b \in F : ArmorPoints(s, b, mult) = l
      /\ \A b \in F : ArmorPoints(s, b, mult) <= l
  <2>. HIDE DEF left
  <2>. QED
    BY <1>1, MaxArmorOrIs
<1>3. S \subseteq Seq(A)
  BY <1>1, SetsAreThere
<1>4. TopOf(s, mult, S, h)
  BY DEF MaxIsTop
<1>5. Scores(s, mult, A)
  BY SmallScores
<1>6. SetsThrough(p, a) = Prefixed(F, S)
  BY DEF SetsThrough, LeftIds
<1>. HIDE DEF left, r, F, S, l, h
<1>7. TopOf(s, mult, Prefixed(F, S), l + h)
  <2>1. \E b \in F : ArmorPoints(s, b, mult) = l
    BY <1>2
  <2>2. \A b \in F : ArmorPoints(s, b, mult) <= l
    BY <1>2
  <2>. QED
    BY <1>2, <1>3, <1>4, <1>5, <2>1, <2>2, TopOfPrefixed
<1>. QED
  BY <1>6, <1>7 DEF l, h, left, r

(* The right of an AND node is short if the node above is.                 *)
LEMMA ShortBelow ==
  ASSUME NEW p \in Pools, NEW A \in SUBSET Nat, Sound(p, A),
         NEW id \in DOMAIN p.ors, p.ors[id].tag = "ANDS", Short(p, id),
         NEW a \in ToSet(p.ors[id].daughters)
  PROVE  /\ a \in DOMAIN p.ands /\ p.ands[a].right < id /\ p.ands[a].right \in DOMAIN p.ors
         /\ Short(p, p.ands[a].right)
         /\ SetsThrough(p, a) \subseteq SetsOf(p, id)
<1>. DEFINE left == p.ands[a].left
            r == p.ands[a].right
            F == ToSet(p.ors[left].daughters)
            S == SetsOf(p, r)
<1>1. a \in DOMAIN p.ands /\ r < id
  BY OrParts
<1>2. left \in DOMAIN p.ors /\ r \in DOMAIN p.ors /\ p.ors[left].tag = "ARMORS"
  BY <1>1, AndParts
<1>3. SetsOf(p, id) = UNION { SetsThrough(p, b) : b \in ToSet(p.ors[id].daughters) }
  BY SetsUnfold
<1>4. SetsThrough(p, a) \subseteq SetsOf(p, id)
  BY <1>3
<1>5. SetsThrough(p, a) = Prefixed(F, S)
  BY DEF SetsThrough, LeftIds
<1>6. F \subseteq A /\ F # {}
  <2>1. p.ors[left].daughters \in Seq(Nat) /\ p.ors[left].daughters # <<>> /\ F \subseteq A
    BY <1>2, OrParts DEF Sound
  <2>2. F # {}
    <3>. DEFINE ids == p.ors[left].daughters
    <3>1. ids \in Seq(Nat) /\ ids # <<>>
      BY <2>1
    <3>. HIDE DEF ids
    <3>2. ToSet(ids) # {}
      BY <3>1, ListsSomething
    <3>. QED
      BY <3>2 DEF ids
  <2>. QED
    BY <2>1, <2>2
<1>7. S \subseteq Seq(A)
  BY <1>2, SetsAreThere
<1>. HIDE DEF left, F, S
<1>8. ASSUME NEW y \in S PROVE Len(y) <= 7
  <2>1. PICK b : b \in F
    BY <1>6
  <2>2. \A z : z \in Prefixed(F, S) <=> \E i \in F : \E u \in S : z = Led(i, u)
    BY PrefixedBy
  <2>3. Led(b, y) \in Prefixed(F, S)
    BY <2>1, <2>2
  <2>4. Len(Led(b, y)) <= 7
    BY <1>4, <1>5, <2>3 DEF Short
  <2>5. b \in A /\ y \in Seq(A)
    BY <1>6, <1>7, <2>1
  <2>6. Len(Led(b, y)) = Len(y) + 1
    BY <2>5, InFront
  <2>7. Len(y) \in Nat
    BY <2>5
  <2>. QED
    BY <2>4, <2>6, <2>7
<1>9. Short(p, r)
  BY <1>8 DEF Short, S
<1>. QED
  BY <1>1, <1>2, <1>4, <1>9

(* Arithmetic: 7 * 126 points are far from -1000.                          *)
LEMMA NotLow == ASSUME NEW v \in -882..882, NEW h \in Int, v <= h PROVE h # -1000
  OBVIOUS

Between(v, w, h) == v \in -882..882 /\ w \in -882..882 /\ h \in Int /\ v <= w /\ w <= h

(* Arithmetic: the order of numbers is transitive.                         *)
LEMMA NotOver == ASSUME NEW v, NEW w, NEW h, Between(v, w, h) PROVE v <= h
  BY DEF Between

MaxReady(p, s, mult, A, id) ==
  /\ p \in Pools /\ A \in SUBSET Nat /\ Small(s, mult, A) /\ Sound(p, A)
  /\ id \in DOMAIN p.ors /\ p.ors[id].tag = "ANDS" /\ Short(p, id)
  /\ \A j \in 1..(id - 1) : Short(p, j) => MaxIsTop(p, s, mult, j)

(* MaxOr of a node is right if it is of the nodes before.                  *)
LEMMA MaxOfAnds ==
  ASSUME NEW p, NEW s, NEW mult, NEW A, NEW id, MaxReady(p, s, mult, A, id)
  PROVE  MaxIsTop(p, s, mult, id)
<1>. DEFINE d == p.ors[id].daughters
            n == Len(d)
            g(a) == MaxArmorOr(p, s, p.ands[a].left, mult) + MaxOr(p, s, p.ands[a].right, mult)
            f == [k \in 1..n |-> g(d[k])]
            S == { f[k] : k \in 1..n }
            D == SetsOf(p, id)
<1>0. /\ p \in Pools /\ A \in SUBSET Nat /\ Small(s, mult, A) /\ Sound(p, A)
      /\ id \in DOMAIN p.ors /\ p.ors[id].tag = "ANDS" /\ Short(p, id)
      /\ \A j \in 1..(id - 1) : Short(p, j) => MaxIsTop(p, s, mult, j)
  BY DEF MaxReady
<1>1. d \in Seq(Nat) /\ d # <<>>
  BY <1>0, OrParts DEF Sound
<1>2. n \in Nat /\ n >= 1 /\ DOMAIN d = 1..n /\ ToSet(d) = { d[k] : k \in 1..n }
  <2>. HIDE DEF d
  <2>. QED
    BY <1>1 DEF ToSet
<1>3. ASSUME NEW k \in 1..n
      PROVE  SetsThrough(p, d[k]) \subseteq D /\ TopOf(s, mult, SetsThrough(p, d[k]), g(d[k]))
  <2>. DEFINE a == d[k]
              r == p.ands[a].right
  <2>1. a \in ToSet(p.ors[id].daughters)
    BY <1>2
  <2>. HIDE DEF a
  <2>2. /\ a \in DOMAIN p.ands /\ r < id /\ r \in DOMAIN p.ors
        /\ Short(p, r) /\ SetsThrough(p, a) \subseteq D
    BY <1>0, <2>1, ShortBelow
  <2>3. r \in 1..(id - 1)
    BY <1>0, <2>2, PoolParts
  <2>4. MaxIsTop(p, s, mult, r)
    BY <1>0, <2>2, <2>3
  <2>5. TopOf(s, mult, SetsThrough(p, a), g(a))
    BY <1>0, <2>2, <2>4, MaxOfAnd
  <2>. QED
    BY <2>2, <2>5 DEF a
<1>4. D = UNION { SetsThrough(p, d[k]) : k \in 1..n }
  <2>1. D = UNION { SetsThrough(p, a) : a \in ToSet(d) }
    BY <1>0, SetsUnfold
  <2>. HIDE DEF d, D
  <2>. QED
    BY <1>2, <2>1
<1>5. MaxOr(p, s, id, mult) = Highest({ g(a) : a \in ToSet(d) })
  BY <1>0, MaxUnfold
<1>6. { g(a) : a \in ToSet(d) } = S
  <2>. HIDE DEF d, g
  <2>. QED
    BY <1>2
<1>7. D \subseteq Seq(A)
  BY <1>0, SetsAreThere
<1>. DEFINE R == -882..882
<1>8. ASSUME NEW x \in D PROVE Pts(s, mult, x) \in R
  <2>1. x \in Seq(A) /\ Len(x) <= 7 /\ Len(x) \in Nat
    BY <1>0, <1>7 DEF Short
  <2>2. Pts(s, mult, x) \in (-126 * Len(x))..(126 * Len(x))
    BY <1>0, <2>1, SmallSums
  <2>. DEFINE v == Pts(s, mult, x)
              m == Len(x)
  <2>3. v \in (-126 * m)..(126 * m) /\ m <= 7 /\ m \in Nat
    BY <2>1, <2>2
  <2>. HIDE DEF v, m
  <2>4. v \in -882..882
    BY <2>3
  <2>. QED
    BY <2>4 DEF v
<1>. HIDE DEF g, D, d, R
<1>9. ASSUME NEW k \in 1..n PROVE f[k] = g(d[k]) /\ f[k] \in R
  <2>1. f[k] = g(d[k])
    OBVIOUS
  <2>2. PICK x \in SetsThrough(p, d[k]) : Pts(s, mult, x) = g(d[k])
    BY <1>3 DEF TopOf
  <2>3. x \in D
    BY <1>3, <2>2
  <2>4. Pts(s, mult, x) \in R
    BY <1>8, <2>3, Zenon
  <2>. QED
    <3>1. f[k] = Pts(s, mult, x)
      BY <2>1, <2>2
    <3>. HIDE DEF f
    <3>2. f[k] \in R
      BY <2>4, <3>1, Zenon
    <3>. QED
      BY <2>1, <3>2, Zenon
<1>10. f \in [1..n -> Int]
  <2>1. \A k \in 1..n : g(d[k]) \in Int
    BY <1>3 DEF TopOf
  <2>. QED
    BY <2>1
<1>11. HighestFits(n, f, Highest(S))
  <2>1. n \in Nat
    BY <1>2
  <2>. HIDE DEF n, f
  <2>. QED
    BY <1>10, <2>1, HighestOf
<1>. DEFINE h == Highest(S)
<1>12. MaxOr(p, s, id, mult) = h
  BY <1>5, <1>6
<1>13. /\ h \in Int /\ \A k \in 1..n : f[k] <= h
       /\ h = -1000 \/ \E k \in 1..n : h = f[k]
  BY <1>11 DEF HighestFits
<1>. HIDE DEF f, S, h
<1>14. h # -1000
  <2>1. 1 \in 1..n
    BY <1>2
  <2>2. f[1] \in R /\ f[1] <= h
    BY <1>9, <1>13, <2>1
  <2>. DEFINE v == f[1]
  <2>3. h \in Int /\ v \in -882..882 /\ v <= h
    BY <1>13, <2>2 DEF R
  <2>. HIDE DEF v
  <2>. QED
    BY <2>3, NotLow
<1>15. PICK k \in 1..n : h = f[k]
  BY <1>13, <1>14
<1>16. \E x \in D : Pts(s, mult, x) = h
  <2>1. PICK x \in SetsThrough(p, d[k]) : Pts(s, mult, x) = g(d[k])
    BY <1>3 DEF TopOf
  <2>. QED
    BY <1>3, <1>9, <1>15, <2>1
<1>17. ASSUME NEW x \in D PROVE Pts(s, mult, x) <= h
  <2>1. PICK j \in 1..n : x \in SetsThrough(p, d[j])
    BY <1>4
  <2>2. Pts(s, mult, x) <= g(d[j]) /\ g(d[j]) = f[j] /\ f[j] <= h /\ f[j] \in R
    BY <1>3, <1>9, <1>13, <2>1 DEF TopOf
  <2>3. Pts(s, mult, x) \in R
    BY <1>8, Zenon
  <2>. DEFINE v == Pts(s, mult, x)
              w == f[j]
  <2>4. v <= w /\ w <= h /\ v \in R /\ w \in R
    BY <2>2, <2>3, Zenon
  <2>. HIDE DEF v, w
  <2>5. v <= h
    <3>1. h \in Int
      BY <1>13
    <3>2. Between(v, w, h)
      BY <2>4, <3>1 DEF Between, R
    <3>. QED
      BY <3>2, NotOver
  <2>. QED
    BY <2>5 DEF v
<1>18. TopOf(s, mult, D, h)
  BY <1>13, <1>16, <1>17 DEF TopOf
<1>. QED
  BY <1>12, <1>18 DEF MaxIsTop, D

(* MaxOr is right for every node whose sets are short.                     *)
LEMMA MaxIsRight ==
  ASSUME NEW p \in Pools, NEW s, NEW mult, NEW A \in SUBSET Nat,
         Small(s, mult, A), Sound(p, A)
  PROVE  \A id \in DOMAIN p.ors : Short(p, id) => MaxIsTop(p, s, mult, id)
<1>. DEFINE N == Len(p.ors)
            T == { k \in 0..N : \A id \in 1..k : Short(p, id) => MaxIsTop(p, s, mult, id) }
<1>1. N \in Nat /\ DOMAIN p.ors = 1..N
  BY PoolParts
<1>2. 0 \in T
  BY <1>1
<1>3. ASSUME NEW k \in 1..N, k - 1 \in T PROVE k \in T
  <2>1. \A j \in 1..(k - 1) : Short(p, j) => MaxIsTop(p, s, mult, j)
    BY <1>3
  <2>2. k \in DOMAIN p.ors
    BY <1>1
  <2>3. ASSUME Short(p, k) PROVE MaxIsTop(p, s, mult, k)
    <3>1. CASE p.ors[k].tag = "ARMORS"
      BY <2>2, <3>1, MaxOfArmors
    <3>2. CASE p.ors[k].tag = "ANDS"
      <4>1. MaxReady(p, s, mult, A, k)
        BY <2>1, <2>2, <2>3, <3>2 DEF MaxReady
      <4>. QED
        BY <4>1, MaxOfAnds
    <3>. QED
      BY <2>2, <3>1, <3>2, OrParts
  <2>4. \A id \in 1..k : id \in 1..(k - 1) \/ id = k
    BY <1>1
  <2>. QED
    BY <1>1, <2>1, <2>3, <2>4
<1>4. N \in T
  <2>. HIDE DEF T
  <2>1. \A k \in 0..N : k \in T
    BY <1>1, <1>2, <1>3, IntervalInduction
  <2>. QED
    BY <1>1, <2>1
<1>. QED
  BY <1>1, <1>4

-----------------------------------------------------------------------------
(* What holds of a tree of a search, and of the last split.                *)
TreeHolds(q, p, tree) ==
  /\ tree.id \in DOMAIN p.ors /\ p.ors[tree.id].tag = "ANDS"
  /\ tree.effects \in 0..Len(q.effects)
  /\ tree.multiplier = Multiplier(p.ors[tree.id].key)
  /\ \A x \in SetsOf(p, tree.id) :
       x \in PartialSets(q, PART_NUM) /\ SetTells(q, p.ors[tree.id].key, x, tree.effects)

SplitHolds(q, p, split) ==
  split # NoSplit =>
    LET e   == split.tree.effects + 1
        ids == { tree.id : tree \in split.new }
    IN  /\ UNION { SetsOf(p, id) : id \in ids }
             = { set \in SetsOf(p, split.tree.id) :
                   SetPoints(q, set, e) >= split.sub_min }
        /\ \A i, j \in ids : i # j => SetsOf(p, i) \cap SetsOf(p, j) = {}

(* What holds of the pool once n parts are merged.                         *)
TagAfter(n) == IF n = 1 THEN "ARMORS" ELSE "ANDS"

PoolHolds(q, p, forests, roots, n) ==
  /\ p \in Pools /\ Sound(p, Armors(q))
  /\ \A m \in 1..PART_NUM :
       Forested(p, forests[m], "ARMORS", Alone(PartIds(q, m)), LeafTell(q))
  /\ Forested(p, roots, TagAfter(n), PartialSets(q, n), TellAfter(q, n))

(* After ClassifyArmors the first forest is the current one.               *)
LEMMA ClassifyHolds ==
  ASSUME NEW q \in Queries, NEW acc, acc = ClassifyArmors(Arsenal(q), q)
  PROVE  PoolHolds(q, acc.pool, acc.forests, acc.forests[1], 1)
<1>1. Classified(q, acc, PART_NUM)
  BY ArmorsClassified
<1>2. /\ acc.pool \in Pools /\ Sound(acc.pool, Armors(q))
      /\ \A m \in 1..PART_NUM :
           Forested(acc.pool, acc.forests[m], "ARMORS", Alone(PartIds(q, m)), LeafTell(q))
  BY <1>1 DEF Classified
<1>3. 1 \in 1..PART_NUM /\ 1 # Body
  BY PartNum
<1>4. Forested(acc.pool, acc.forests[1], "ARMORS", Alone(PartIds(q, 1)), LeafTell(q))
  BY <1>2, <1>3
<1>5. Forested(acc.pool, acc.forests[1], "ARMORS", PartialSets(q, 1), PartTell(q))
  BY <1>4, FirstForest
<1>6. TagAfter(1) = "ARMORS" /\ TellAfter(q, 1) = PartTell(q)
  BY <1>3 DEF TagAfter, TellAfter
<1>. QED
  BY <1>2, <1>5, <1>6 DEF PoolHolds

(* One more part is merged.                                                *)
LEMMA MergeHolds ==
  ASSUME NEW q \in Queries, NEW n \in 1..(PART_NUM - 1), NEW p, NEW forests, NEW roots,
         PoolHolds(q, p, forests, roots, n),
         NEW r, r = MergeForests(p, forests[n + 1], roots, n + 1 = Body)
  PROVE  PoolHolds(q, r.pool, forests, r.forest, n + 1)
<1>1. /\ p \in Pools /\ Sound(p, Armors(q))
      /\ \A m \in 1..PART_NUM :
           Forested(p, forests[m], "ARMORS", Alone(PartIds(q, m)), LeafTell(q))
      /\ Forested(p, roots, TagAfter(n), PartialSets(q, n), TellAfter(q, n))
  BY DEF PoolHolds
<1>2. n + 1 \in 1..PART_NUM /\ n # Body /\ n + 1 # 1
  BY PartNum
<1>3. TellAfter(q, n) = PartTell(q) /\ TagAfter(n + 1) = "ANDS"
  BY <1>2 DEF TellAfter, TagAfter
<1>4. Forested(p, forests[n + 1], "ARMORS", Alone(PartIds(q, n + 1)), LeafTell(q))
  BY <1>1, <1>2
<1>5. Merged(p, r, PartialSets(q, n + 1), TellAfter(q, n + 1), Armors(q))
  <2>1. Forested(p, roots, TagAfter(n), PartialSets(q, n), PartTell(q))
    BY <1>1, <1>3
  <2>2. Merged(p, MergeForests(p, forests[n + 1], roots, n + 1 = Body), PartialSets(q, n + 1),
               TellAfter(q, n + 1), Armors(q))
    BY <1>1, <1>4, <2>1, PartMerged
  <2>. QED
    BY <2>2
<1>6. /\ r.pool \in Pools /\ Extends(p, r.pool) /\ Sound(r.pool, Armors(q))
      /\ Forested(r.pool, r.forest, "ANDS", PartialSets(q, n + 1), TellAfter(q, n + 1))
  BY <1>5 DEF Merged
<1>7. ASSUME NEW m \in 1..PART_NUM
      PROVE  Forested(r.pool, forests[m], "ARMORS", Alone(PartIds(q, m)), LeafTell(q))
  BY <1>1, <1>6, ForestStays
<1>. QED
  BY <1>3, <1>6, <1>7 DEF PoolHolds

(* The roots of the foundation are trees.                                  *)
LEMMA RootsAreTrees ==
  ASSUME NEW q \in Queries, NEW p, NEW forests, NEW roots,
         PoolHolds(q, p, forests, roots, PART_NUM), NEW id \in ToSet(roots),
         NEW tree, tree = [id |-> id, multiplier |-> Multiplier(p.ors[id].key),
                           effects |-> FoundationEffects(q)]
  PROVE  TreeHolds(q, p, tree)
<1>1. TagAfter(PART_NUM) = "ANDS" /\ TellAfter(q, PART_NUM) = SetTell(q, FoundationEffects(q))
  BY PartNum DEF TagAfter, TellAfter
<1>2. Forested(p, roots, "ANDS", PartialSets(q, PART_NUM), SetTell(q, FoundationEffects(q)))
  BY <1>1 DEF PoolHolds
<1>3. PICK m \in DOMAIN roots : id = roots[m]
  BY DEF ToSet
<1>4. /\ id \in DOMAIN p.ors /\ SetsOf(p, id) \subseteq PartialSets(q, PART_NUM)
      /\ p.ors[id].tag = "ANDS"
      /\ \A x \in SetsOf(p, id) : <<p.ors[id].key, x>> \in SetTell(q, FoundationEffects(q))
  BY <1>2, <1>3 DEF Forested, Holds
<1>5. \A x \in SetsOf(p, id) : SetTells(q, p.ors[id].key, x, FoundationEffects(q))
  BY <1>4, TellIs
<1>6. FoundationEffects(q) \in 0..Len(q.effects)
  BY QueryParts, FoundationAssumption DEF FoundationEffects
<1>7. /\ tree.id = id /\ tree.effects = FoundationEffects(q)
      /\ tree.multiplier = Multiplier(p.ors[id].key)
  OBVIOUS
<1>. QED
  BY <1>4, <1>5, <1>6, <1>7 DEF TreeHolds

(* A tree stays what it is while the pool grows.                           *)
LEMMA TreeStays ==
  ASSUME NEW q, NEW p \in Pools, NEW r \in Pools, Extends(p, r),
         NEW tree, TreeHolds(q, p, tree)
  PROVE  TreeHolds(q, r, tree)
<1>1. tree.id \in DOMAIN p.ors
  BY DEF TreeHolds
<1>2. tree.id \in DOMAIN r.ors /\ SetsOf(r, tree.id) = SetsOf(p, tree.id)
  BY <1>1, SetsStay
<1>3. r.ors[tree.id] = p.ors[tree.id]
  BY <1>1, PoolParts DEF Extends
<1>. QED
  BY <1>2, <1>3 DEF TreeHolds

(* The multiplier of a tree is that of its sets.                           *)
LEMMA TreeMultiplier ==
  ASSUME NEW q \in Queries, NEW p \in Pools, Sound(p, Armors(q)),
         NEW tree, TreeHolds(q, p, tree)
  PROVE  /\ tree.multiplier \in 1..7
         /\ \A x \in SetsOf(p, tree.id) : tree.multiplier = 1 + TorsoUps(q, x)
<1>1. tree.id \in DOMAIN p.ors
  BY DEF TreeHolds
<1>2. SetsOf(p, tree.id) # {}
  <2>1. Armors(q) \in SUBSET Nat
    BY QueryParts
  <2>. QED
    BY <1>1, <2>1, SetsAreThere
<1>3. ASSUME NEW x \in SetsOf(p, tree.id)
      PROVE  tree.multiplier = 1 + TorsoUps(q, x) /\ x \in PartialSets(q, PART_NUM)
  BY DEF TreeHolds, SetTells, KeyTells
<1>4. PICK x \in SetsOf(p, tree.id) : TRUE
  BY <1>2
<1>5. TorsoUps(q, x) \in 0..6
  <2>1. x \in PartialSets(q, PART_NUM)
    BY <1>3
  <2>2. PICK a \in Armors(q), y \in Seq(Armors(q)) :
          /\ x = Led(a, y) /\ Len(y) \in 0..6
          /\ Arsenal(q)[a].part = "BODY"
          /\ \A i \in 1..Len(y) : y[i] \in Armors(q) /\ Arsenal(q)[y[i]].part # "BODY"
    BY <2>1, FullSetIs
  <2>. DEFINE n == Len(y)
              t == TorsoUps(q, y)
  <2>3. n \in Nat /\ PartBounds(q, y, n)
    BY BoundsHold
  <2>4. TorsoUps(q, x) = t
    BY <2>2, <2>3, BodyCounts
  <2>5. n \in 0..6 /\ t \in 0..n
    BY <2>2, <2>3 DEF PartBounds
  <2>. HIDE DEF n, t
  <2>. QED
    BY <2>4, <2>5
<1>6. tree.multiplier \in 1..7
  <2>. DEFINE t == TorsoUps(q, x)
              m == tree.multiplier
  <2>1. m = 1 + t /\ t \in 0..6
    BY <1>3, <1>5
  <2>. HIDE DEF t, m
  <2>2. m \in 1..7
    BY <2>1
  <2>. QED
    BY <2>2 DEF m
<1>. QED
  BY <1>3, <1>6

(* The splitter splits a tree by the points of its sets.                   *)
LEMMA TreePoints ==
  ASSUME NEW q \in Queries, NEW p \in Pools, Sound(p, Armors(q)),
         NEW tree, TreeHolds(q, p, tree), NEW e \in DOMAIN q.effects
  PROVE  \A x \in SetsOf(p, tree.id) :
           Pts(Splitter(q, e), tree.multiplier, x) = SetPoints(q, x, e)
<1>1. ASSUME NEW x \in SetsOf(p, tree.id)
      PROVE  Pts(Splitter(q, e), tree.multiplier, x) = SetPoints(q, x, e)
  <2>1. tree.multiplier = 1 + TorsoUps(q, x)
    BY TreeMultiplier
  <2>2. x \in PartialSets(q, PART_NUM)
    BY DEF TreeHolds
  <2>. QED
    BY <2>1, <2>2, FullPoints
<1>. QED
  BY <1>1

(* r is the split of a tree by effect e.                                   *)
TreeSplit(q, p, tree, e, sub_min, r) ==
  SplitInto(p, r, p.ors[tree.id].key, "ANDS",
            { x \in SetsOf(p, tree.id) : SetPoints(q, x, e) >= sub_min },
            Splitter(q, e), tree.multiplier, Armors(q))

(* SplitOr splits a tree by the points of its sets.                        *)
LEMMA TreeIsSplit ==
  ASSUME NEW q \in Queries, NEW p \in Pools, Sound(p, Armors(q)),
         NEW tree, TreeHolds(q, p, tree), NEW e \in DOMAIN q.effects, NEW sub_min \in Int
  PROVE  TreeSplit(q, p, tree, e, sub_min,
                   SplitOr(p, Splitter(q, e), tree.id, sub_min, tree.multiplier))
<1>. DEFINE s == Splitter(q, e)
            id == tree.id
            m == tree.multiplier
            A == Armors(q)
            D == { x \in SetsOf(p, id) : SetPoints(q, x, e) >= sub_min }
<1>1. m \in 1..7
  BY TreeMultiplier
<1>2. m \in Nat
  <2>. HIDE DEF m
  <2>. QED
    BY <1>1
<1>3. A \in SUBSET Nat /\ Scores(s, m, A) /\ id \in DOMAIN p.ors /\ p.ors[id].tag = "ANDS"
  BY <1>2, QueryParts, SplitterReady DEF TreeHolds
<1>4. Enough(SetsOf(p, id), s, m, sub_min) = D
  BY TreePoints DEF Enough
<1>. HIDE DEF s, id, m, A, D
<1>5. Sound(p, A)
  BY DEF A
<1>6. SplitInto(p, SplitOr(p, s, id, sub_min, m), p.ors[id].key, "ANDS",
                Enough(SetsOf(p, id), s, m, sub_min), s, m, A)
  BY <1>3, <1>5, SplitOrMade
<1>7. SplitInto(p, SplitOr(p, s, id, sub_min, m), p.ors[id].key, "ANDS", D, s, m, A)
  BY <1>4, <1>6
<1>. QED
  BY <1>7 DEF TreeSplit, s, id, m, A, D

(* What a tree is split into are trees, one effect further.                *)
LEMMA NewTrees ==
  ASSUME NEW q \in Queries, NEW p \in Pools, Sound(p, Armors(q)),
         NEW tree, TreeHolds(q, p, tree), tree.effects < Len(q.effects),
         NEW e, e = tree.effects + 1, NEW sub_min \in Int,
         NEW r, TreeSplit(q, p, tree, e, sub_min, r),
         NEW n \in DOMAIN r.result,
         NEW new, new = [id |-> r.result[n].id,
                         multiplier |-> Multiplier(r.pool.ors[r.result[n].id].key),
                         effects |-> e]
  PROVE  TreeHolds(q, r.pool, new)
<1>. DEFINE id == r.result[n].id
            old == p.ors[tree.id].key
            D == { x \in SetsOf(p, tree.id) : SetPoints(q, x, e) >= sub_min }
            points == r.result[n].points
            effects == tree.effects
<1>1. Len(q.effects) \in Nat /\ DOMAIN q.effects = 1..Len(q.effects)
  BY QueryParts
<1>2. effects \in Nat /\ e \in DOMAIN q.effects /\ e \in 0..Len(q.effects)
  <2>1. effects \in 0..Len(q.effects)
    BY DEF TreeHolds
  <2>. QED
    BY <1>1, <2>1
<1>3. SplitInto(p, r, old, "ANDS", D, Splitter(q, e), tree.multiplier, Armors(q))
  BY DEF TreeSplit
<1>. HIDE DEF old, D, effects
<1>4. /\ Holds(r.pool, ResultIds(r.result), D)
      /\ r.pool.ors[id].tag = "ANDS"
      /\ r.pool.ors[id].key = AddPoints(old, Splitter(q, e).effect, points)
      /\ \A x \in SetsOf(r.pool, id) : Pts(Splitter(q, e), tree.multiplier, x) = points
  BY <1>3 DEF SplitInto
<1>5. DOMAIN ResultIds(r.result) = DOMAIN r.result /\ ResultIds(r.result)[n] = id
  BY DEF ResultIds
<1>6. id \in DOMAIN r.pool.ors /\ SetsOf(r.pool, id) \subseteq D
  BY <1>4, <1>5 DEF Holds
<1>7. ASSUME NEW x \in SetsOf(r.pool, id)
      PROVE  x \in PartialSets(q, PART_NUM) /\ SetTells(q, r.pool.ors[id].key, x, e)
  <2>1. x \in SetsOf(p, tree.id)
    BY <1>6 DEF D
  <2>2. x \in PartialSets(q, PART_NUM) /\ SetTells(q, old, x, effects)
    BY <2>1 DEF TreeHolds, old, effects
  <2>3. Pts(Splitter(q, e), tree.multiplier, x) = SetPoints(q, x, e)
    BY <1>2, <2>1, TreePoints
  <2>4. points = SetPoints(q, x, e)
    BY <1>4, <2>3
  <2>5. e = effects + 1 /\ effects < Len(q.effects)
    BY DEF effects
  <2>6. SetTells(q, AddPoints(old, e, SetPoints(q, x, e)), x, e)
    BY <1>2, <2>2, <2>5, TellsMore
  <2>7. Splitter(q, e).effect = e
    BY DEF Splitter
  <2>. QED
    BY <1>4, <2>2, <2>4, <2>6, <2>7
<1>8. /\ new.id = id /\ new.effects = e
      /\ new.multiplier = Multiplier(r.pool.ors[id].key)
  OBVIOUS
<1>. QED
  BY <1>2, <1>4, <1>6, <1>7, <1>8 DEF TreeHolds

(* The trees a tree is split into hold its sets that reach the minimum.    *)
LEMMA SplitHoldsNow ==
  ASSUME NEW q \in Queries, NEW p \in Pools, Sound(p, Armors(q)),
         NEW tree, TreeHolds(q, p, tree), NEW e, e = tree.effects + 1, NEW sub_min,
         NEW r, TreeSplit(q, p, tree, e, sub_min, r),
         NEW new, { t.id : t \in new } = { r.result[n].id : n \in DOMAIN r.result }
  PROVE  SplitHolds(q, r.pool, [tree |-> tree, sub_min |-> sub_min, new |-> new])
<1>. DEFINE ids == { t.id : t \in new }
            list == ResultIds(r.result)
            D == { x \in SetsOf(p, tree.id) : SetPoints(q, x, e) >= sub_min }
            split == [tree |-> tree, sub_min |-> sub_min, new |-> new]
<1>1. r.pool \in Pools /\ Extends(p, r.pool) /\ Holds(r.pool, list, D)
  BY DEF TreeSplit, SplitInto
<1>2. SetsOf(r.pool, tree.id) = SetsOf(p, tree.id)
  BY <1>1, SetsStay DEF TreeHolds
<1>3. ids = { list[n] : n \in DOMAIN list }
  BY DEF ResultIds
<1>4. D = { set \in SetsOf(r.pool, tree.id) : SetPoints(q, set, e) >= sub_min }
  BY <1>2
<1>. HIDE DEF ids, list, D
<1>5. UNION { SetsOf(r.pool, id) : id \in ids } = D
  <2>1. \A n \in DOMAIN list : SetsOf(r.pool, list[n]) \subseteq D
    BY <1>1 DEF Holds
  <2>2. \A x \in D : \E n \in DOMAIN list : x \in SetsOf(r.pool, list[n])
    BY <1>1 DEF Holds
  <2>. QED
    BY <1>3, <2>1, <2>2
<1>6. \A i, j \in ids : i # j => SetsOf(r.pool, i) \cap SetsOf(r.pool, j) = {}
  <2>1. \A m, n \in DOMAIN list : m # n =>
          SetsOf(r.pool, list[m]) \cap SetsOf(r.pool, list[n]) = {}
    BY <1>1 DEF Holds
  <2>. QED
    BY <1>3, <2>1
<1>7. split.tree = tree /\ split.sub_min = sub_min /\ split.new = new
  OBVIOUS
<1>8. ids = { t.id : t \in split.new }
  BY DEF ids
<1>. HIDE DEF split
<1>9. SplitHolds(q, r.pool, split)
  BY <1>4, <1>5, <1>6, <1>7, <1>8 DEF SplitHolds
<1>. QED
  BY <1>9 DEF split

(* Arithmetic: the points of an armor, multiplied, are small.              *)
LEMMA PointsTimes ==
  ASSUME NEW v \in -18..18, NEW m \in 1..7 PROVE v * m \in -126..126
<1>1. m = 1 \/ m = 2 \/ m = 3 \/ m = 4 \/ m = 5 \/ m = 6 \/ m = 7
  OBVIOUS
<1>. QED
  BY <1>1

(* Max of a tree is reached.                                               *)
LEMMA TreeMax ==
  ASSUME NEW q \in Queries, NEW p \in Pools, Sound(p, Armors(q)),
         NEW tree, TreeHolds(q, p, tree), NEW e \in DOMAIN q.effects
  PROVE  MaxOr(p, Splitter(q, e), tree.id, tree.multiplier)
           = Max({ SetPoints(q, x, e) : x \in SetsOf(p, tree.id) })
<1>. DEFINE s == Splitter(q, e)
            id == tree.id
            m == tree.multiplier
            A == Armors(q)
            S == SetsOf(p, id)
            V == { SetPoints(q, x, e) : x \in S }
            h == MaxOr(p, s, id, m)
<1>1. m \in 1..7 /\ A \in SUBSET Nat /\ id \in DOMAIN p.ors
  BY TreeMultiplier, QueryParts DEF TreeHolds
<1>2. Small(s, m, A)
  <2>1. ASSUME NEW a \in A PROVE ArmorPoints(s, a, m) \in -126..126
    <3>. DEFINE v == PointsOf(q, a, e)
    <3>1. v \in -18..18
      BY ArmorParts
    <3>2. m \in Nat
      <4>. HIDE DEF m
      <4>. QED
        BY <1>1
    <3>3. ArmorPoints(s, a, m) = v \/ ArmorPoints(s, a, m) = v * m
      BY <3>2, SplitterScores
    <3>. HIDE DEF v, m
    <3>4. v \in -126..126
      BY <3>1
    <3>5. v * m \in -126..126
      BY <1>1, <3>1, PointsTimes
    <3>. QED
      BY <3>3, <3>4, <3>5
  <2>. QED
    BY <2>1 DEF Small
<1>3. Short(p, id)
  <2>1. ASSUME NEW x \in SetsOf(p, id) PROVE Len(x) <= 7
    <3>1. x \in PartialSets(q, PART_NUM)
      BY DEF TreeHolds
    <3>2. Len(x) = PART_NUM
      BY <3>1 DEF PartialSets
    <3>. QED
      BY <3>2, PartNum
  <2>. QED
    BY <2>1 DEF Short
<1>4. \A x \in S : Pts(s, m, x) = SetPoints(q, x, e) /\ SetPoints(q, x, e) \in -126..126
  BY TreePoints, FullPoints DEF TreeHolds
<1>. HIDE DEF s, id, m, A
<1>5. TopOf(s, m, S, h)
  <2>1. Sound(p, A)
    BY DEF A
  <2>2. MaxIsTop(p, s, m, id)
    BY <1>1, <1>2, <1>3, <2>1, MaxIsRight
  <2>. QED
    BY <2>2 DEF MaxIsTop
<1>. HIDE DEF S, h
<1>6. h \in V /\ V \subseteq Int /\ \A v \in V : h >= v
  <2>1. h \in Int /\ (\E x \in S : Pts(s, m, x) = h) /\ \A x \in S : Pts(s, m, x) <= h
    BY <1>5 DEF TopOf
  <2>2. h \in V
    BY <1>4, <2>1
  <2>3. V \subseteq Int
    <3>1. ASSUME NEW x \in S PROVE SetPoints(q, x, e) \in Int
      <4>. DEFINE v == SetPoints(q, x, e)
      <4>1. v \in -126..126
        BY <1>4
      <4>. HIDE DEF v
      <4>2. v \in Int
        BY <4>1
      <4>. QED
        BY <4>2 DEF v
    <3>. QED
      BY <3>1
  <2>4. ASSUME NEW x \in S PROVE h >= SetPoints(q, x, e)
    <3>. DEFINE v == SetPoints(q, x, e)
    <3>1. v <= h
      BY <1>4, <2>1
    <3>. HIDE DEF v
    <3>2. h >= v
      BY <3>1
    <3>. QED
      BY <3>2 DEF v
  <2>. QED
    BY <2>2, <2>3, <2>4
<1>. HIDE DEF V
<1>7. Max(V) = h
  BY <1>6, MaxIs
<1>. QED
  BY <1>7 DEF V, S, h, s, id, m

-----------------------------------------------------------------------------
(* The inductive invariant.                                                *)
NotSplitYet == trees = {} /\ last = NoSplit

GrowthInv ==
  /\ asked \in Queries
  /\ part \in 0..PART_NUM
  /\ part # 0 => PoolHolds(asked, pool, part_forests, current, part)
  /\ part # PART_NUM => NotSplitYet
  /\ part = PART_NUM => /\ \A tree \in trees : TreeHolds(asked, pool, tree)
                        /\ SplitHolds(asked, pool, last)

(* It holds initially.                                                     *)
LEMMA InitHolds == GrowthInit => GrowthInv
  BY PartNum DEF GrowthInit, GrowthInv, NotSplitYet

(* Classify keeps it.                                                      *)
LEMMA ClassifyStep == ASSUME GrowthInv, Classify PROVE GrowthInv'
<1>. DEFINE parts == ClassifyArmors(Arsenal(asked), asked)
<1>1. /\ part = 0 /\ part' = 1 /\ asked' = asked /\ trees' = trees /\ last' = last
      /\ pool' = parts.pool /\ part_forests' = parts.forests /\ current' = parts.forests[1]
  BY DEF Classify
<1>2. asked \in Queries /\ (part # PART_NUM => NotSplitYet)
  BY DEF GrowthInv
<1>3. PART_NUM \in 2..7
  BY PartNum
<1>4. part # PART_NUM /\ 1 \in 0..PART_NUM /\ 1 # PART_NUM
  BY <1>1, <1>3
<1>5. PoolHolds(asked, parts.pool, parts.forests, parts.forests[1], 1)
  BY <1>2, ClassifyHolds
<1>. HIDE DEF parts
<1>6. PoolHolds(asked, pool, part_forests, current, part)'
  BY <1>1, <1>5
<1>7. NotSplitYet'
  BY <1>1, <1>2, <1>4 DEF NotSplitYet
<1>. QED
  BY <1>1, <1>2, <1>4, <1>6, <1>7 DEF GrowthInv

(* Merge keeps it.                                                         *)
LEMMA MergeStep == ASSUME GrowthInv, Merge PROVE GrowthInv'
<1>. DEFINE merged == MergeForests(pool, part_forests[part + 1], current, part + 1 = Body)
<1>1. /\ part \in 1..(PART_NUM - 1) /\ part' = part + 1 /\ asked' = asked /\ last' = last
      /\ pool' = merged.pool /\ current' = merged.forest /\ part_forests' = part_forests
      /\ trees' = IF part + 1 = Body
                  THEN { TreeOf(id, FoundationEffects(asked)) : id \in ToSet(current') }
                  ELSE {}
  BY DEF Merge
<1>2. /\ asked \in Queries /\ (part # PART_NUM => NotSplitYet)
      /\ (part # 0 => PoolHolds(asked, pool, part_forests, current, part))
  BY DEF GrowthInv
<1>3. PART_NUM \in 2..7 /\ Body = PART_NUM
  BY PartNum
<1>4. part # PART_NUM /\ part # 0 /\ part + 1 \in 0..PART_NUM /\ part + 1 # 0
  BY <1>1, <1>3
<1>5. PoolHolds(asked, merged.pool, part_forests, merged.forest, part + 1)
  BY <1>1, <1>2, <1>4, MergeHolds
<1>. HIDE DEF merged
<1>6. PoolHolds(asked, pool', part_forests, current', part + 1)
  BY <1>1, <1>5
<1>7. PoolHolds(asked, pool, part_forests, current, part)'
  BY <1>1, <1>6
<1>8. last' = NoSplit
  BY <1>1, <1>2, <1>4 DEF NotSplitYet
<1>9. CASE part + 1 = PART_NUM
  <2>1. ASSUME NEW tree \in trees' PROVE TreeHolds(asked, pool', tree)
    <3>1. PICK id \in ToSet(current') : tree = TreeOf(id, FoundationEffects(asked))
      BY <1>1, <1>3, <1>9
    <3>2. tree = [id |-> id, multiplier |-> Multiplier(pool'.ors[id].key),
                  effects |-> FoundationEffects(asked)]
      BY <3>1 DEF TreeOf
    <3>3. PoolHolds(asked, pool', part_forests, current', PART_NUM)
      BY <1>6, <1>9
    <3>. QED
      BY <1>2, <3>2, <3>3, RootsAreTrees
  <2>2. (\A tree \in trees : TreeHolds(asked, pool, tree))'
    BY <1>1, <2>1
  <2>3. SplitHolds(asked, pool, last)'
    BY <1>8 DEF SplitHolds
  <2>4. (part = PART_NUM)'
    BY <1>1, <1>9
  <2>. QED
    BY <1>1, <1>2, <1>4, <1>7, <2>2, <2>3, <2>4 DEF GrowthInv
<1>10. CASE part + 1 # PART_NUM
  <2>1. NotSplitYet'
    BY <1>1, <1>3, <1>8, <1>10 DEF NotSplitYet
  <2>. QED
    BY <1>1, <1>2, <1>4, <1>7, <1>10, <2>1 DEF GrowthInv
<1>. QED
  BY <1>9, <1>10

(* Split keeps it.                                                         *)
LEMMA SplitStepHolds ==
  ASSUME GrowthInv, NEW tree \in trees, NEW sub_min \in SubMins, Split(tree, sub_min)
  PROVE  GrowthInv'
<1>. DEFINE e == tree.effects + 1
            split == SplitOr(pool, Splitter(asked, e), tree.id, sub_min, tree.multiplier)
            new == { TreeOf(split.result[n].id, e) : n \in DOMAIN split.result }
            made == [tree |-> tree, sub_min |-> sub_min, new |-> new]
<1>1. /\ tree.effects < Len(asked.effects)
      /\ pool' = split.pool /\ trees' = (trees \ {tree}) \union new /\ last' = made
      /\ asked' = asked /\ part_forests' = part_forests /\ current' = current /\ part' = part
  BY DEF Split
<1>2. /\ asked \in Queries /\ part = PART_NUM /\ part # 0
      /\ PoolHolds(asked, pool, part_forests, current, part)
      /\ \A t \in trees : TreeHolds(asked, pool, t)
  BY PartNum DEF GrowthInv, NotSplitYet
<1>3. pool \in Pools /\ Sound(pool, Armors(asked))
  BY <1>2 DEF PoolHolds
<1>4. e \in DOMAIN asked.effects /\ sub_min \in Int
  <2>1. DOMAIN asked.effects = 1..Len(asked.effects) /\ Len(asked.effects) \in Nat
    BY <1>2, QueryParts
  <2>2. tree.effects \in 0..Len(asked.effects)
    BY <1>2 DEF TreeHolds
  <2>. QED
    BY <1>1, <2>1, <2>2, SubMinsAssumption
<1>5. TreeSplit(asked, pool, tree, e, sub_min, split)
  BY <1>2, <1>3, <1>4, TreeIsSplit
<1>. HIDE DEF split
<1>6. split.pool \in Pools /\ Extends(pool, split.pool) /\ Sound(split.pool, Armors(asked))
  BY <1>5 DEF TreeSplit, SplitInto
<1>7. ASSUME NEW t \in trees PROVE TreeHolds(asked, split.pool, t)
  BY <1>2, <1>3, <1>6, TreeStays
<1>8. ASSUME NEW t \in new PROVE TreeHolds(asked, split.pool, t)
  <2>1. PICK n \in DOMAIN split.result : t = TreeOf(split.result[n].id, e)
    OBVIOUS
  <2>2. t = [id |-> split.result[n].id,
             multiplier |-> Multiplier(split.pool.ors[split.result[n].id].key),
             effects |-> e]
    BY <1>1, <2>1 DEF TreeOf
  <2>. QED
    BY <1>1, <1>2, <1>3, <1>4, <1>5, <2>2, NewTrees
<1>9. { t.id : t \in new } = { split.result[n].id : n \in DOMAIN split.result }
  <2>1. \A n : TreeOf(split.result[n].id, e).id = split.result[n].id
    BY DEF TreeOf
  <2>. QED
    BY <2>1
<1>10. SplitHolds(asked, split.pool, made)
  <2>. HIDE DEF new
  <2>. QED
    BY <1>2, <1>3, <1>5, <1>9, SplitHoldsNow
<1>. HIDE DEF new, made
<1>11. PoolHolds(asked, split.pool, part_forests, current, part)
  <2>1. \A m \in 1..PART_NUM :
          Forested(pool, part_forests[m], "ARMORS", Alone(PartIds(asked, m)), LeafTell(asked))
    BY <1>2 DEF PoolHolds
  <2>2. ASSUME NEW m \in 1..PART_NUM
        PROVE  Forested(split.pool, part_forests[m], "ARMORS", Alone(PartIds(asked, m)),
                        LeafTell(asked))
    BY <1>3, <1>6, <2>1, ForestStays
  <2>3. Forested(pool, current, TagAfter(part), PartialSets(asked, part), TellAfter(asked, part))
    BY <1>2 DEF PoolHolds
  <2>4. Forested(split.pool, current, TagAfter(part), PartialSets(asked, part),
                 TellAfter(asked, part))
    BY <1>3, <1>6, <2>3, ForestStays
  <2>. QED
    BY <1>6, <2>2, <2>4 DEF PoolHolds
<1>12. PoolHolds(asked, pool, part_forests, current, part)'
  BY <1>1, <1>11
<1>13. (\A t \in trees : TreeHolds(asked, pool, t))'
  BY <1>1, <1>7, <1>8
<1>14. SplitHolds(asked, pool, last)'
  BY <1>1, <1>10
<1>15. (part \in 0..PART_NUM)' /\ (part = PART_NUM)' /\ (asked \in Queries)'
  BY <1>1, <1>2, PartNum
<1>. QED
  BY <1>12, <1>13, <1>14, <1>15 DEF GrowthInv

(* A step that changes nothing keeps it.                                   *)
LEMMA StutterStep == ASSUME GrowthInv, UNCHANGED growth_vars PROVE GrowthInv'
  BY DEF GrowthInv, growth_vars, NotSplitYet

(* Every step keeps it.                                                    *)
LEMMA NextHolds == GrowthInv /\ [GrowthNext]_growth_vars => GrowthInv'
<1>. SUFFICES ASSUME GrowthInv, [GrowthNext]_growth_vars PROVE GrowthInv'
  OBVIOUS
<1>1. CASE Classify
  BY <1>1, ClassifyStep
<1>2. CASE Merge
  BY <1>2, MergeStep
<1>3. ASSUME NEW tree \in trees, NEW sub_min \in SubMins, Split(tree, sub_min) PROVE GrowthInv'
  BY <1>3, SplitStepHolds
<1>4. CASE UNCHANGED growth_vars
  BY <1>4, StutterStep
<1>. QED
  BY <1>1, <1>2, <1>3, <1>4 DEF GrowthNext

(* So it always holds.                                                     *)
LEMMA AlwaysHolds == GrowthSpec => []GrowthInv
  BY InitHolds, NextHolds, PTL DEF GrowthSpec

-----------------------------------------------------------------------------
(* It implies that the keys tell the sets,                                 *)
LEMMA KeysFollow == GrowthInv => KeysTellTheSets
<1>. SUFFICES ASSUME GrowthInv, NEW tree \in trees, NEW x \in SetsOf(pool, tree.id)
             PROVE  KeyTells(asked, pool.ors[tree.id].key, x, tree.effects)
  BY DEF KeysTellTheSets
<1>1. TreeHolds(asked, pool, tree)
  BY DEF GrowthInv, NotSplitYet
<1>. QED
  BY <1>1 DEF TreeHolds, SetTells

(* that the foundation has every set once,                                 *)
LEMMA FoundationFollows == GrowthInv => FoundationHoldsEverySet
<1>. SUFFICES ASSUME GrowthInv, part = PART_NUM
              PROVE  /\ UNION { SetsOf(pool, id) : id \in ToSet(current) } = AdmittedSets(asked)
                     /\ Apart(ToSet(current))
                     /\ \A id \in DOMAIN pool.ors : ListsOnce(pool, id)
  BY DEF FoundationHoldsEverySet
<1>. DEFINE D == PartialSets(asked, PART_NUM)
<1>1. /\ Sound(pool, Armors(asked)) /\ Holds(pool, current, D)
  BY PartNum DEF GrowthInv, PoolHolds, Forested
<1>2. D = AdmittedSets(asked)
  BY AdmittedAre
<1>. HIDE DEF D
<1>3. ToSet(current) = { current[n] : n \in DOMAIN current }
  BY DEF ToSet
<1>4. UNION { SetsOf(pool, id) : id \in ToSet(current) } = D
  <2>1. \A n \in DOMAIN current : SetsOf(pool, current[n]) \subseteq D
    BY <1>1 DEF Holds
  <2>2. \A x \in D : \E n \in DOMAIN current : x \in SetsOf(pool, current[n])
    BY <1>1 DEF Holds
  <2>. QED
    BY <1>3, <2>1, <2>2
<1>5. Apart(ToSet(current))
  <2>1. \A m, n \in DOMAIN current : m # n =>
          SetsOf(pool, current[m]) \cap SetsOf(pool, current[n]) = {}
    BY <1>1 DEF Holds
  <2>. QED
    BY <1>3, <2>1 DEF Apart
<1>6. \A id \in DOMAIN pool.ors : ListsOnce(pool, id)
  BY <1>1 DEF Sound
<1>. QED
  BY <1>2, <1>4, <1>5, <1>6

(* that a split is exact,                                                  *)
LEMMA SplitFollows == GrowthInv => SplitIsExact
<1>. SUFFICES ASSUME GrowthInv, last # NoSplit PROVE SplitIsExact
  BY DEF SplitIsExact
<1>1. SplitHolds(asked, pool, last)
  BY DEF GrowthInv, NotSplitYet
<1>. QED
  BY <1>1 DEF SplitIsExact, SplitHolds, Apart

(* and that the maximum of a tree is reached.                              *)
LEMMA MaxFollows == GrowthInv => MaxIsReached
<1>. SUFFICES ASSUME GrowthInv, NEW tree \in trees,
                     NEW e \in (tree.effects + 1)..Len(asked.effects)
              PROVE  MaxOr(pool, Splitter(asked, e), tree.id, tree.multiplier)
                       = Max({ SetPoints(asked, x, e) : x \in SetsOf(pool, tree.id) })
  BY DEF MaxIsReached
<1>1. /\ asked \in Queries /\ part = PART_NUM /\ TreeHolds(asked, pool, tree)
      /\ PoolHolds(asked, pool, part_forests, current, part)
  BY PartNum DEF GrowthInv, NotSplitYet
<1>2. pool \in Pools /\ Sound(pool, Armors(asked))
  BY <1>1 DEF PoolHolds
<1>3. e \in DOMAIN asked.effects
  <2>1. DOMAIN asked.effects = 1..Len(asked.effects) /\ Len(asked.effects) \in Nat
    BY <1>1, QueryParts
  <2>2. tree.effects \in 0..Len(asked.effects)
    BY <1>1 DEF TreeHolds
  <2>. QED
    BY <2>1, <2>2
<1>. QED
  BY <1>1, <1>2, <1>3, TreeMax

-----------------------------------------------------------------------------
(* In every search, for all armors and queries, the key of every tree      *)
(* gives the multiplier, the slots and the points of each set below it,    *)
(* after the foundation and after any splits: no byte of a Signature wraps *)
(* around or runs into its neighbour (Signature, OrAndTree,                *)
(* SkillSplitter::Split).                                                  *)
THEOREM KeysTell == GrowthSpec => []KeysTellTheSets
  BY AlwaysHolds, KeysFollow, PTL

(* When the parts are merged (ArmorUp::Foundation), below the roots is     *)
(* every set of one armor of each part that the asked admits, below one    *)
(* root only, and nothing else.                                            *)
THEOREM FoundationHolds == GrowthSpec => []FoundationHoldsEverySet
  BY AlwaysHolds, FoundationFollows, PTL

(* SkillSplitter::Split returns trees for exactly the sets that reach the  *)
(* minimum, each set below one of them only, although it asks less of the  *)
(* right than the minimum and skips what cannot reach it.                  *)
THEOREM SplitExact == GrowthSpec => []SplitIsExact
  BY AlwaysHolds, SplitFollows, PTL

(* SkillSplitter::Max is the most points of a set below the tree: no set   *)
(* has more, and one has as many.                                          *)
THEOREM MaxReached == GrowthSpec => []MaxIsReached
  BY AlwaysHolds, MaxFollows, PTL
=============================================================================
