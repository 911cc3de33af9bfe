----------------------------- MODULE LispJewels -----------------------------
(***************************************************************************)
(* Keys and jewel sets of the Lisp engine (src/lisp/engine/encoding.lisp,  *)
(* jewels.lisp).  A key has the number of slots of each size and, for each *)
(* effect asked, points in six bits.  A jewel list is a sequence of jewels *)
(* in order of their ids, a jewel set a list of jewel lists with the same  *)
(* points, a super jewel set a list of keyed jewel sets.                   *)
(***************************************************************************)
EXTENDS Slots, Sequences, SequencesExt, FiniteSetsExt

CONSTANTS Jewels,  \* id -> [holes, points], sorted as they are loaded
          MaxHoles \* the most holes an armor set has

ASSUME SortedByHoles ==
  \A i, j \in DOMAIN Jewels : i < j => Jewels[i].holes <= Jewels[j].holes

(* Six bits, the highest of them the sign.                                 *)
Chunk(n) == ((n + 32) % 64) - 32

AddPoints(a, b) == [i \in DOMAIN a |-> Chunk(a[i] + b[i])]

(* The chunks of the first Len(ids) of `width` effects asked.              *)
SkillSig(points, ids, width) ==
  [i \in 1..width |-> IF i <= Len(ids) THEN Chunk(points[ids[i]]) ELSE 0]

(* A mutant: the mask leaves out the sign of the last effect.              *)
IsSatisfied_MaskShort(points, n) == \A i \in 1 .. n - 1 : points[i] >= 0

(* is-satisfied-skill-key with the mask of the first n effects.            *)
IsSatisfied(points, n) == \A i \in 1..n : points[i] >= 0

-----------------------------------------------------------------------------
(* Lists of keyed sets serve as jewel sets and as tables.  The order of    *)
(* the keys is left to Listed.                                             *)
Listed(set) == FoldSet(LAMBDA x, list : Append(list, x), <<>>, set)

Keyed(key, set) == [key |-> key, set |-> set]
Keys(table) == { table[i].key : i \in DOMAIN table }

(* compact-super-jewel-set, and how the tables are filled: sets with the   *)
(* same key become one.                                                    *)
Compact(table) ==
  LET full == SelectSeq(table, LAMBDA keyed : keyed.set # <<>>)
      All(key) ==
        LET same == SelectSeq(full, LAMBDA keyed : keyed.key = key)
        IN  FlattenSeq([i \in DOMAIN same |-> same[i].set])
  IN  Listed({ Keyed(key, All(key)) : key \in Keys(full) })

(* Every entry of one table with every entry of another.                   *)
Products(a, b, Sum(_, _), Times(_, _)) ==
  Compact(FlattenSeq(
    [i \in DOMAIN a |->
       [j \in DOMAIN b |-> Keyed(Sum(a[i].key, b[j].key), Times(a[i].set, b[j].set))]]))

-----------------------------------------------------------------------------
(* (:prod a b) stands for a product too long to be made; what is in it is  *)
(* left out, since nothing reads it.                                       *)
Prod == <<0>>
IsProd(list) == list # <<>> /\ list[1] = 0

Join(a, b) ==
  IF a = <<>> THEN <<b>>
  ELSE IF b = <<>> THEN <<>>
  ELSE IF IsProd(a) \/ IsProd(b) THEN <<Prod>>
  ELSE IF Last(a) <= b[1] THEN <<a \o b>>
  ELSE <<>>

JewelSetTimes(as, bs, cutOff) ==
  IF Len(as) * Len(bs) > cutOff THEN <<Prod>>
  ELSE FlattenSeq([i \in DOMAIN as |->
                     FlattenSeq([j \in DOMAIN bs |-> Join(as[i], bs[j])])])

SuperPlus(a, b) == Compact(a \o b)

SuperTimes(a, b, cutOff) ==
  Products(a, b, AddPoints, LAMBDA x, y : JewelSetTimes(x, y, cutOff))

-----------------------------------------------------------------------------
(* jewel-query-client.  The jewels it takes have points of one of its      *)
(* effects, or of the n-th if n is not 0.                                  *)
Nothing(width) == [i \in 1..width |-> 0]

Helps(ids, n, jewel) ==
  LET points == Jewels[jewel].points
  IN  IF n > 0 THEN points[ids[n]] > 0
      ELSE \E i \in DOMAIN ids : points[ids[i]] > 0

JewelKey(ids, width, jewel) == SkillSig(Jewels[jewel].points, ids, width)

(* One jewel, or for one 1-slot also none.                                 *)
OneJewel(ids, n, width, holes) ==
  LET fit == { j \in DOMAIN Jewels : Jewels[j].holes = holes /\ Helps(ids, n, j) }
      own == { Keyed(JewelKey(ids, width, j), << <<j>> >>) : j \in fit }
      none == IF holes = 1 THEN {Keyed(Nothing(width), << <<>> >>)} ELSE {}
  IN  Compact(Listed(own \union none))

(* What is asked is never more than this many holes.                       *)
Alignments == { s \in (0..MaxHoles) \X (0..MaxHoles) \X (0..MaxHoles) :
                  Holes(s) <= MaxHoles }

(* The super jewel sets of all alignments.  A larger slot takes a jewel of *)
(* its size, or counts as two smaller ones.                                *)
HoleTable(ids, n, width, cutOff) ==
  LET Times(a, b) == SuperTimes(a, b, cutOff)
      one == [holes \in 1..3 |-> OneJewel(ids, n, width, holes)]
      fixed[holes \in 1..3, num \in 1..MaxHoles] ==
        IF num = 1 THEN one[holes] ELSE Times(fixed[holes, num - 1], one[holes])
      calc[s \in Alignments] ==
        IF s[3] > 0 THEN SuperPlus(Times(calc[<<s[1], s[2], 0>>], fixed[3, s[3]]),
                                   calc[<<s[1] + 1, s[2] + 1, s[3] - 1>>])
        ELSE IF s[2] > 0 THEN SuperPlus(Times(calc[<<s[1], 0, 0>>], fixed[2, s[2]]),
                                        calc[<<s[1] + 2, s[2] - 1, 0>>])
        ELSE IF s[1] > 0 THEN fixed[1, s[1]]
        ELSE <<Keyed(Nothing(width), << <<>> >>)>>
  IN  calc

(* The closure, with its tables filled.                                    *)
Client(ids, n, width, cutOff) ==
  [ids |-> ids, width |-> width, calc |-> HoleTable(ids, n, width, cutOff)]

HoleQuery(client, holes) == client.calc[<<holes[1], holes[2], holes[3]>>]

-----------------------------------------------------------------------------
CountOf(list) ==
  LET Of(size) == Quantify(DOMAIN list, LAMBDA i : Jewels[list[i]].holes = size)
  IN  <<Of(1), Of(2), Of(3)>>

(* stuff-jewels-fast computes what GetResidual does.                        *)
StuffJewelsFast(alignment, list) == Residual(alignment, CountOf(list))

(* jewels-encoder: the table has jewels with a positive point only.        *)
EncodeJewels(client, list) ==
  LET Add(sum, j) ==
        IF Helps(client.ids, 0, j)
        THEN AddPoints(sum, JewelKey(client.ids, client.width, j)) ELSE sum
  IN  FoldLeft(Add, Nothing(client.width), list)
=============================================================================
