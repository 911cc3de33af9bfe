------------------------- MODULE ArmorSearch_proofs -------------------------
(***************************************************************************)
(* The theorems of a search, for all armors, jewels and queries that       *)
(* satisfy QueriesAssumption and BytesAssumption.                          *)
(*                                                                         *)
(* The first part is about JewelPlacing, pruners and assigner alone, with  *)
(* any number of effects and of parts: the jewels chosen for a tree fit    *)
(* its slots; the greedy choice of Pop (largest jewel first, smallest slot *)
(* that takes it) places any jewels that fit; so the assigner is only ever *)
(* given jewels that fit, and the armor set shown holds the jewels that    *)
(* the pruners chose.                                                      *)
(*                                                                         *)
(* The second is about ArmorSearch, where the same jewels are bytes of a   *)
(* key. A sum of jewels is read back from its key (Counted, CountedTells)  *)
(* as long as they are few, and those that fit an armor set are (Roomy):   *)
(* so what Stuffed makes of the slots that GetResidual leaves fits next to *)
(* what was there (MoreStuffs).  The points of armors and jewels stay in a *)
(* byte, so Satisfy compares the sums it means (SatisfyIs).                *)
(* FoundationPool and the lemmas of ForestGrowth_proofs say what trees     *)
(* there are.  A tree at stage k then has jewel keys that fit it and bring *)
(* k effects to their targets (TreeAt), and SearchInv, that all buffers    *)
(* hold such trees, is inductive.                                          *)
(***************************************************************************)
EXTENDS ArmorSearch, JewelPlacing, ForestGrowth_proofs, SequenceTheorems,
        FiniteSetTheorems, WellFoundedInduction, TLAPS

-----------------------------------------------------------------------------
(* The pruners.                                                            *)

(* The rounded divisions of GetResidual.                                   *)
LEMMA HalvesLemma ==
  ASSUME NEW n \in Nat
  PROVE  /\ n % 2 \in {0, 1}
         /\ (n + 1) \div 2 \in Nat
         /\ 2 * ((n + 1) \div 2) = n + (n % 2)
  OBVIOUS

LEMMA ThirdsLemma ==
  ASSUME NEW n \in Nat
  PROVE  /\ (n + 2) \div 3 \in Nat
         /\ n = 3 * ((n + 2) \div 3) - (IF n % 3 = 2 THEN 1 ELSE 0)
                                     - 2 * (IF n % 3 = 1 THEN 1 ELSE 0)
<1>1. CASE n % 3 = 0
  BY <1>1
<1>2. CASE n % 3 = 1
  BY <1>2
<1>3. CASE n % 3 = 2
  BY <1>3
<1>. QED
  BY <1>1, <1>2, <1>3

(* GetResidual, stage by stage.  The size-3 jewels take size-3 slots.       *)
LEMMA ThreesLemma ==
  ASSUME NEW s \in Counts, NEW c \in Counts, Fits(c, s)
  PROVE  LET t == AfterThrees(s, c[3])
         IN  /\ t \in Counts
             /\ t[1] = s[1] /\ t[2] = s[2] /\ t[3] = s[3] - c[3]
  BY DEF Counts, Fits, AfterThrees

(* The size-2 jewels take size-2 slots, then size-3 slots, of which they    *)
(* leave a size-1 slot.                                                    *)
LEMMA TwosLemma ==
  ASSUME NEW s \in Counts, NEW two \in Nat, two <= s[2] + s[3]
  PROVE  LET t == AfterTwos(s, two)
         IN  /\ t \in Counts
             /\ Holes(t) = Holes(s) - 2 * two
             /\ t[2] + t[3] = s[2] + s[3] - two
             /\ t[3] <= s[3]
  BY DEF Counts, AfterTwos, Holes

(* The size-1 jewels take size-1, then size-2, then size-3 slots.  A split  *)
(* slot never becomes a larger one.                                        *)
LEMMA OnesLemma ==
  ASSUME NEW s \in Counts, NEW one \in Nat, one <= Holes(s)
  PROVE  LET t == AfterOnes(s, one)
         IN  /\ t \in Counts
             /\ Holes(t) = Holes(s) - one
             /\ t[2] + t[3] <= s[2] + s[3]
             /\ t[3] <= s[3]
<1>. DEFINE t    == AfterOnes(s, one)
            rest == one - s[1]
            rear == rest - 2 * s[2]
<1>0. s[1] \in Nat /\ s[2] \in Nat /\ s[3] \in Nat
  BY DEF Counts
<1>1. CASE one <= s[1]
  BY <1>0, <1>1 DEF Counts, AfterOnes, Holes
<1>2. CASE one > s[1] /\ rest <= 2 * s[2]
  <2>1. t = <<rest % 2, s[2] - ((rest + 1) \div 2), s[3]>>
    BY <1>0, <1>2 DEF AfterOnes
  <2>2. rest \in Nat
    BY <1>0, <1>2
  <2>. DEFINE h == (rest + 1) \div 2
              m == rest % 2
  <2>3. m \in {0, 1} /\ h \in Nat /\ 2 * h = rest + m
    BY <2>2, HalvesLemma
  <2>. HIDE DEF h, m
  <2>4. h <= s[2] /\ one = s[1] + 2 * h - m
    BY <1>0, <1>2, <2>2, <2>3
  <2>5. t = <<m, s[2] - h, s[3]>>
    BY <2>1 DEF h, m
  <2>. QED
    BY <1>0, <2>3, <2>4, <2>5 DEF Counts, Holes
<1>3. CASE one > s[1] /\ rest > 2 * s[2]
  <2>. DEFINE i == IF rear % 3 = 2 THEN 1 ELSE 0
              j == IF rear % 3 = 1 THEN 1 ELSE 0
              k == (rear + 2) \div 3
  <2>1. t = <<i, j, s[3] - k>>
    BY <1>0, <1>3 DEF AfterOnes
  <2>2. /\ rear \in Nat /\ rear > 0
        /\ rear <= 3 * s[3]
    BY <1>0, <1>3 DEF Holes
  <2>3. k \in Nat /\ rear = 3 * k - i - 2 * j
    BY <2>2, ThirdsLemma
  <2>4. i \in {0, 1} /\ j \in {0, 1} /\ ~(i = 1 /\ j = 1)
    OBVIOUS
  <2>. HIDE DEF i, j, k, rear
  <2>6. k >= 1 /\ k <= s[3]
    BY <1>0, <2>2, <2>3, <2>4
  <2>5. one = s[1] + 2 * s[2] + 3 * k - i - 2 * j
    BY <1>0, <2>3, <2>4 DEF rear
  <2>. QED
    BY <1>0, <2>1, <2>3, <2>4, <2>5, <2>6 DEF Counts, Holes
<1>. QED
  BY <1>0, <1>1, <1>2, <1>3

(* Together: the residual is an alignment, it has exactly the holes that    *)
(* are left, and what fits it fits next to the stuffed jewels.             *)
LEMMA ResidualLemma ==
  ASSUME NEW s \in Counts, NEW c \in Counts, Fits(c, s)
  PROVE  LET r == Residual(s, c)
         IN  /\ r \in Counts
             /\ Holes(r) = Holes(s) - Holes(c)
             /\ r[2] + r[3] <= s[2] + s[3] - c[2] - c[3]
             /\ r[3] <= s[3] - c[3]
<1>. DEFINE t == AfterThrees(s, c[3])
            u == AfterTwos(t, c[2])
<1>0. /\ c[1] \in Nat /\ c[2] \in Nat /\ c[3] \in Nat
      /\ s[1] \in Nat /\ s[2] \in Nat /\ s[3] \in Nat
  BY DEF Counts
<1>1. /\ t \in Counts
      /\ t[1] = s[1] /\ t[2] = s[2] /\ t[3] = s[3] - c[3]
  BY ThreesLemma
<1>2. /\ u \in Counts
      /\ Holes(u) = Holes(t) - 2 * c[2]
      /\ u[2] + u[3] = t[2] + t[3] - c[2]
      /\ u[3] <= t[3]
  <2>1. c[2] <= t[2] + t[3]
    BY <1>0, <1>1 DEF Fits
  <2>. HIDE DEF t
  <2>. QED
    BY <1>0, <1>1, <2>1, TwosLemma
<1>. HIDE DEF t, u
<1>3. Holes(t) = s[1] + 2 * s[2] + 3 * (s[3] - c[3])
  BY <1>1 DEF Holes
<1>4. c[1] <= Holes(u)
  BY <1>0, <1>2, <1>3 DEF Fits, Holes
<1>5. /\ AfterOnes(u, c[1]) \in Counts
      /\ Holes(AfterOnes(u, c[1])) = Holes(u) - c[1]
      /\ AfterOnes(u, c[1])[2] + AfterOnes(u, c[1])[3] <= u[2] + u[3]
      /\ AfterOnes(u, c[1])[3] <= u[3]
  BY <1>0, <1>2, <1>4, OnesLemma
<1>6. Residual(s, c) = AfterOnes(u, c[1])
  BY DEF Residual, t, u
<1>7. /\ u[1] \in Nat /\ u[2] \in Nat /\ u[3] \in Nat
      /\ AfterOnes(u, c[1])[1] \in Nat /\ AfterOnes(u, c[1])[2] \in Nat
      /\ AfterOnes(u, c[1])[3] \in Nat
  BY <1>2, <1>5 DEF Counts
<1>8. Holes(AfterOnes(u, c[1])) = Holes(s) - Holes(c)
  BY <1>0, <1>2, <1>3, <1>5 DEF Holes
<1>. QED
  BY <1>0, <1>1, <1>2, <1>5, <1>6, <1>7, <1>8

(* Jewels that fit the residual fit the original slots together with the   *)
(* stuffed ones.                                                           *)
LEMMA ResidualSound ==
  ASSUME NEW s \in Counts, NEW c \in Counts, Fits(c, s),
         NEW add \in Counts, Fits(add, Residual(s, c))
  PROVE  /\ Plus(c, add) \in Counts
         /\ Fits(Plus(c, add), s)
<1>. DEFINE r == Residual(s, c)
<1>1. /\ r \in Counts
      /\ Holes(r) = Holes(s) - Holes(c)
      /\ r[2] + r[3] <= s[2] + s[3] - c[2] - c[3]
      /\ r[3] <= s[3] - c[3]
  BY ResidualLemma
<1>2. add[3] <= r[3] /\ add[2] + add[3] <= r[2] + r[3]
      /\ Holes(add) <= Holes(r)
  BY DEF Fits
<1>. HIDE DEF r
<1>3. /\ c[1] \in Nat /\ c[2] \in Nat /\ c[3] \in Nat
      /\ s[1] \in Nat /\ s[2] \in Nat /\ s[3] \in Nat
      /\ add[1] \in Nat /\ add[2] \in Nat /\ add[3] \in Nat
      /\ r[1] \in Nat /\ r[2] \in Nat /\ r[3] \in Nat
  BY <1>1 DEF Counts
<1>4. Plus(c, add) = <<c[1] + add[1], c[2] + add[2], c[3] + add[3]>>
  BY DEF Plus
<1>5. Plus(c, add) \in Counts
  BY <1>3, <1>4 DEF Counts
<1>6. Holes(Plus(c, add)) = Holes(c) + Holes(add)
  BY <1>3, <1>4 DEF Holes
<1>7. Holes(c) \in Int /\ Holes(s) \in Int /\ Holes(add) \in Int
  BY <1>3 DEF Holes
<1>8. Holes(Plus(c, add)) <= Holes(s)
  BY <1>1, <1>2, <1>6, <1>7
<1>. QED
  BY <1>1, <1>2, <1>3, <1>4, <1>5, <1>8 DEF Fits

LEMMA FittingCounts ==
  ASSUME NEW s \in Counts, NEW c \in Fitting(s)
  PROVE  c \in Counts /\ Fits(c, s)
  BY DEF Counts, Fitting, Fits, Holes

-----------------------------------------------------------------------------
StuffInv == StuffTypeOK /\ NeverOverstuffed

LEMMA StuffInitInv == StuffInit => StuffInv
<1>. SUFFICES ASSUME StuffInit PROVE StuffInv
  OBVIOUS
<1>1. slots \in Counts
  BY BoundsAssumption DEF StuffInit, Alignments, Counts
<1>2. stuffed = <<0, 0, 0>> /\ extra = 0 /\ stage = 0 /\ body \in 0..3
  BY DEF StuffInit
<1>3. stuffed \in Counts
  BY <1>2 DEF Counts
<1>. QED
  BY <1>1, <1>2, <1>3, BoundsAssumption
     DEF StuffInv, StuffTypeOK, NeverOverstuffed, Fits, Holes, Counts

LEMMA StuffNextInv == StuffInv /\ [StuffNext]_stuff_vars => StuffInv'
<1>. SUFFICES ASSUME StuffInv, [StuffNext]_stuff_vars PROVE StuffInv'
  OBVIOUS
<1>. USE DEF StuffInv
<1>1. CASE StuffNext
  <2>0. PICK add \in Fitting(Residual(slots, stuffed)),
             inner \in Fitting(BodyAlignment(body - extra)) : Prune(add, inner)
    BY <1>1 DEF StuffNext
  <2>1. slots' = slots /\ body' = body /\ stage' = stage + 1
        /\ stage < MaxStages /\ stuffed' = Plus(stuffed, add)
        /\ extra' = extra + Holes(inner)
    BY <2>0 DEF Prune
  <2>2. slots \in Counts /\ stuffed \in Counts /\ Fits(stuffed, slots)
    BY DEF StuffTypeOK, NeverOverstuffed
  <2>3. Residual(slots, stuffed) \in Counts
    BY <2>2, ResidualLemma
  <2>4. add \in Counts /\ Fits(add, Residual(slots, stuffed))
    BY <2>3, FittingCounts
  <2>5. Plus(stuffed, add) \in Counts /\ Fits(Plus(stuffed, add), slots)
    BY <2>2, <2>4, ResidualSound
  <2>6. extra' \in Nat /\ extra' <= body
    <3>1. body \in 0..3 /\ extra \in Nat /\ extra <= body
      BY DEF StuffTypeOK, NeverOverstuffed
    <3>2. /\ BodyAlignment(body - extra) \in Counts
          /\ Holes(BodyAlignment(body - extra)) = body - extra
      BY <3>1 DEF BodyAlignment, Counts, Holes
    <3>3. inner \in Counts /\ Fits(inner, BodyAlignment(body - extra))
      BY <3>2, FittingCounts
    <3>4. Holes(inner) \in Nat /\ Holes(inner) <= body - extra
      BY <3>2, <3>3 DEF Fits, Holes, Counts
    <3>. QED
      BY <2>1, <3>1, <3>4
  <2>7. stage' \in 0..MaxStages
    BY <2>1, BoundsAssumption DEF StuffTypeOK
  <2>8. StuffTypeOK'
    BY <2>1, <2>2, <2>5, <2>6, <2>7 DEF StuffTypeOK
  <2>. QED
    BY <2>1, <2>5, <2>6, <2>8 DEF NeverOverstuffed
<1>2. CASE UNCHANGED stuff_vars
  BY <1>2 DEF stuff_vars, StuffTypeOK, NeverOverstuffed
<1>. QED
  BY <1>1, <1>2

(* The variables keep their types: no count ever goes below zero.           *)
THEOREM StuffTypeCorrect == StuffSpec => []StuffTypeOK
<1>1. StuffInv => StuffTypeOK
  BY DEF StuffInv
<1>. QED
  BY <1>1, StuffInitInv, StuffNextInv, PTL DEF StuffSpec

(* For every number of slots, armors and effects: the jewels that JewelPruner *)
(* and SkillSplitPruner collect for a tree fit the slots of the tree, and the *)
(* body jewels fit the body armor.                                            *)
THEOREM SlotsNeverOverstuffed == StuffSpec => []NeverOverstuffed
<1>1. StuffInv => NeverOverstuffed
  BY DEF StuffInv
<1>. QED
  BY <1>1, StuffInitInv, StuffNextInv, PTL DEF StuffSpec

(* GetResidual never reports a negative number of slots to the slot client.   *)
THEOREM ResidualAlwaysReal == StuffSpec => []ResidualIsReal
<1>1. StuffInv => ResidualIsReal
  <2>. SUFFICES ASSUME StuffInv PROVE ResidualIsReal
    OBVIOUS
  <2>1. slots \in Counts /\ stuffed \in Counts /\ Fits(stuffed, slots)
    BY DEF StuffInv, StuffTypeOK, NeverOverstuffed
  <2>. QED
    BY <2>1, ResidualLemma DEF ResidualIsReal
<1>. QED
  BY <1>1, StuffInitInv, StuffNextInv, PTL DEF StuffSpec

-----------------------------------------------------------------------------
(* The assigner.                                                           *)

LEMMA StackLemma ==
  ASSUME NEW S, NEW stack \in Seq(S), stack # <<>>
  PROVE  /\ Rest(stack) \in Seq(S)
         /\ Len(Rest(stack)) = Len(stack) - 1
         /\ Top(stack) \in S
         /\ Len(stack) > 0
<1>. DEFINE n == Len(stack) - 1
<1>1. /\ n \in Nat /\ 1 \in Int /\ n \in Int
      /\ Len(stack) > 0 /\ Top(stack) \in S
  BY DEF Top
<1>2. \A i \in 1..n : stack[i] \in S
  OBVIOUS
<1>3. Rest(stack) = SubSeq(stack, 1, n)
  BY DEF Rest
<1>. HIDE DEF n
<1>4. /\ SubSeq(stack, 1, n) \in Seq(S)
      /\ Len(SubSeq(stack, 1, n)) = IF 1 <= n THEN n - 1 + 1 ELSE 0
  BY <1>1, <1>2, SubSeqProperties
<1>5. Len(SubSeq(stack, 1, n)) = n
  BY <1>1, <1>4
<1>. QED
  BY <1>1, <1>3, <1>4, <1>5 DEF n

LEMMA AppendLemma ==
  ASSUME NEW S, NEW stack \in Seq(S), NEW x \in S
  PROVE  /\ Append(stack, x) \in Seq(S)
         /\ Len(Append(stack, x)) = Len(stack) + 1
  OBVIOUS

LEMMA EmptyLemma ==
  ASSUME NEW S, NEW stack \in Seq(S)
  PROVE  /\ Len(stack) \in Nat
         /\ stack = <<>> <=> Len(stack) = 0
  OBVIOUS

(* The tables after the two halves of a Pop keep their types.               *)
LEMMA TakeJewelLemma ==
  ASSUME NEW jewels \in [Sizes -> Seq(Sizes)], NEW size \in Sizes,
         jewels[size] # <<>>
  PROVE  /\ TakeJewel(jewels, size) \in [Sizes -> Seq(Sizes)]
         /\ \A s \in Sizes : s # size => TakeJewel(jewels, size)[s] = jewels[s]
<1>1. Rest(jewels[size]) \in Seq(Sizes)
  BY StackLemma
<1>. QED
  BY <1>1 DEF TakeJewel

LEMMA TakeSlotLemma ==
  ASSUME NEW S, NEW parts \in [Sizes -> Seq(S)], NEW used \in Sizes,
         NEW size, parts[used] # <<>>
  PROVE  TakeSlot(parts, used, size) \in [Sizes -> Seq(S)]
<1>1. Rest(parts[used]) \in Seq(S) /\ Top(parts[used]) \in S
  BY StackLemma
<1>2. \A s \in Sizes : Append(parts[s], Top(parts[used])) \in Seq(S)
  BY <1>1, AppendLemma
<1>. QED
  BY <1>1, <1>2 DEF TakeSlot

-----------------------------------------------------------------------------
(* Pop lowers slots_ only past sizes of which no jewel is left.             *)
NoneAbove(jewels, n) == \A s \in Sizes : s > n => jewels[s] = <<>>
LargerSizesPlaced == NoneAbove(slots_jewel_, slots_)

IInv ==
  /\ TypeOK
  /\ RestAlwaysFits
  /\ LargerSizesPlaced
  /\ phase \in {"parts", "jewels"} => slots_ = 3
  /\ phase = "parts" => slots_jewel_ = Empty
  /\ NoJewelDropped

LEMMA InitIInv == Init => IInv
  BY PartsAreCounted
     DEF Init, IInv, TypeOK, RestAlwaysFits, LargerSizesPlaced, NoneAbove, NoJewelDropped,
         Empty, Sizes

LEMMA LensCounts ==
  ASSUME NEW S, NEW stacks \in [Sizes -> Seq(S)]
  PROVE  Lens(stacks) \in Counts
  BY DEF Lens, Counts, Sizes

LEMMA EmptyFits ==
  ASSUME NEW p \in Counts
  PROVE  Lens(Empty) = <<0, 0, 0>> /\ Fits(<<0, 0, 0>>, p)
  BY DEF Lens, Empty, Sizes, Counts, Fits, Holes

(* Whenever a jewel is left there is a slot for it, and the rest still fits:*)
(* the largest jewel left is of size 3, of size 2, of size 1.               *)
LEMMA EmptyInNumbers ==
  ASSUME NEW S, NEW stacks \in [Sizes -> Seq(S)]
  PROVE  /\ stacks[1] = <<>> <=> Len(stacks[1]) = 0
         /\ stacks[2] = <<>> <=> Len(stacks[2]) = 0
         /\ stacks[3] = <<>> <=> Len(stacks[3]) = 0
         /\ Len(stacks[1]) \in Nat
         /\ Len(stacks[2]) \in Nat
         /\ Len(stacks[3]) \in Nat
<1>1. stacks[1] \in Seq(S) /\ stacks[2] \in Seq(S) /\ stacks[3] \in Seq(S)
  BY DEF Sizes
<1>. QED
  BY <1>1, EmptyLemma

LEMMA FitsInNumbers ==
  ASSUME NEW S, NEW parts \in [Sizes -> Seq(S)],
         NEW jewels \in [Sizes -> Seq(Sizes)],
         Fits(Lens(jewels), Lens(parts))
  PROVE  LET c(s) == Len(jewels[s])
             p(s) == Len(parts[s])
         IN  /\ c(1) \in Nat /\ c(2) \in Nat /\ c(3) \in Nat
             /\ p(1) \in Nat /\ p(2) \in Nat /\ p(3) \in Nat
             /\ c(3) <= p(3) /\ c(2) + c(3) <= p(2) + p(3)
             /\ c(1) + 2 * c(2) + 3 * c(3) <= p(1) + 2 * p(2) + 3 * p(3)
<1>1. /\ Len(jewels[1]) \in Nat /\ Len(jewels[2]) \in Nat
      /\ Len(jewels[3]) \in Nat
  BY EmptyInNumbers
<1>2. /\ Len(parts[1]) \in Nat /\ Len(parts[2]) \in Nat
      /\ Len(parts[3]) \in Nat
  BY EmptyInNumbers
<1>. QED
  BY <1>1, <1>2 DEF Fits, Holes, Lens

LEMMA PopThree ==
  ASSUME NEW S, NEW parts \in [Sizes -> Seq(S)],
         NEW jewels \in [Sizes -> Seq(Sizes)],
         Fits(Lens(jewels), Lens(parts)),
         jewels[3] # <<>>
  PROVE  LET used == UsedSize(parts, 3)
         IN  /\ used \in {3} /\ parts[used] # <<>>
             /\ Fits(Lens(TakeJewel(jewels, 3)), Lens(TakeSlot(parts, used, 3)))
<1>. DEFINE c1 == Len(jewels[1])
            c2 == Len(jewels[2])
            c3 == Len(jewels[3])
            p1 == Len(parts[1])
            p2 == Len(parts[2])
            p3 == Len(parts[3])
<1>1. /\ c1 \in Nat /\ c2 \in Nat /\ c3 \in Nat
      /\ p1 \in Nat /\ p2 \in Nat /\ p3 \in Nat
      /\ c3 <= p3 /\ c2 + c3 <= p2 + p3
      /\ c1 + 2 * c2 + 3 * c3 <= p1 + 2 * p2 + 3 * p3
  BY FitsInNumbers
<1>2. /\ jewels[1] = <<>> <=> c1 = 0
      /\ jewels[2] = <<>> <=> c2 = 0
      /\ jewels[3] = <<>> <=> c3 = 0
      /\ parts[1] = <<>> <=> p1 = 0
      /\ parts[2] = <<>> <=> p2 = 0
      /\ parts[3] = <<>> <=> p3 = 0
  BY EmptyInNumbers
<1>3. /\ jewels[1] \in Seq(Sizes) /\ jewels[2] \in Seq(Sizes)
      /\ jewels[3] \in Seq(Sizes)
      /\ parts[1] \in Seq(S) /\ parts[2] \in Seq(S) /\ parts[3] \in Seq(S)
  BY DEF Sizes
<1>4. Lens(TakeJewel(jewels, 3)) = <<c1, c2, c3 - 1>>
  <2>1. /\ TakeJewel(jewels, 3)[1] = jewels[1]
        /\ TakeJewel(jewels, 3)[2] = jewels[2]
        /\ TakeJewel(jewels, 3)[3] = Rest(jewels[3])
    BY DEF TakeJewel, Sizes
  <2>2. Len(Rest(jewels[3])) = c3 - 1
    BY <1>3, StackLemma
  <2>. QED
    BY <2>1, <2>2 DEF Lens
<1>5. CASE p3 > 0
  <2>1. UsedSize(parts, 3) = 3 /\ parts[3] # <<>>
    BY <1>1, <1>2, <1>5 DEF UsedSize
  <2>2. Lens(TakeSlot(parts, 3, 3)) = <<p1, p2, p3 - 1>>
    <3>1. /\ TakeSlot(parts, 3, 3)[1] = parts[1]
          /\ TakeSlot(parts, 3, 3)[2] = parts[2]
          /\ TakeSlot(parts, 3, 3)[3] = Rest(parts[3])
      BY DEF TakeSlot, Sizes
    <3>2. Len(Rest(parts[3])) = p3 - 1 /\ Top(parts[3]) \in S
      BY <1>3, <2>1, StackLemma
    <3>. QED
      BY <3>1, <3>2 DEF Lens
  <2>. HIDE DEF c1, c2, c3, p1, p2, p3
  <2>3. Fits(<<c1, c2, c3 - 1>>, <<p1, p2, p3 - 1>>)
    BY <1>1, <1>2, <1>5 DEF Fits, Holes
  <2>. QED
    BY <1>4, <2>1, <2>2, <2>3
<1>. HIDE DEF c1, c2, c3, p1, p2, p3
<1>. QED
  BY <1>1, <1>2, <1>5

LEMMA PopTwo ==
  ASSUME NEW S, NEW parts \in [Sizes -> Seq(S)],
         NEW jewels \in [Sizes -> Seq(Sizes)],
         Fits(Lens(jewels), Lens(parts)),
         jewels[3] = <<>>, jewels[2] # <<>>
  PROVE  LET used == UsedSize(parts, 2)
         IN  /\ used \in {2, 3} /\ parts[used] # <<>>
             /\ Fits(Lens(TakeJewel(jewels, 2)), Lens(TakeSlot(parts, used, 2)))
<1>. DEFINE c1 == Len(jewels[1])
            c2 == Len(jewels[2])
            c3 == Len(jewels[3])
            p1 == Len(parts[1])
            p2 == Len(parts[2])
            p3 == Len(parts[3])
<1>1. /\ c1 \in Nat /\ c2 \in Nat /\ c3 \in Nat
      /\ p1 \in Nat /\ p2 \in Nat /\ p3 \in Nat
      /\ c3 <= p3 /\ c2 + c3 <= p2 + p3
      /\ c1 + 2 * c2 + 3 * c3 <= p1 + 2 * p2 + 3 * p3
  BY FitsInNumbers
<1>2. /\ jewels[1] = <<>> <=> c1 = 0
      /\ jewels[2] = <<>> <=> c2 = 0
      /\ jewels[3] = <<>> <=> c3 = 0
      /\ parts[1] = <<>> <=> p1 = 0
      /\ parts[2] = <<>> <=> p2 = 0
      /\ parts[3] = <<>> <=> p3 = 0
  BY EmptyInNumbers
<1>3. /\ jewels[1] \in Seq(Sizes) /\ jewels[2] \in Seq(Sizes)
      /\ jewels[3] \in Seq(Sizes)
      /\ parts[1] \in Seq(S) /\ parts[2] \in Seq(S) /\ parts[3] \in Seq(S)
  BY DEF Sizes
<1>4. Lens(TakeJewel(jewels, 2)) = <<c1, c2 - 1, c3>>
  <2>1. /\ TakeJewel(jewels, 2)[1] = jewels[1]
        /\ TakeJewel(jewels, 2)[2] = Rest(jewels[2])
        /\ TakeJewel(jewels, 2)[3] = jewels[3]
    BY DEF TakeJewel, Sizes
  <2>2. Len(Rest(jewels[2])) = c2 - 1
    BY <1>3, StackLemma
  <2>. QED
    BY <2>1, <2>2 DEF Lens
<1>5. CASE p2 > 0
  <2>1. UsedSize(parts, 2) = 2 /\ parts[2] # <<>>
    BY <1>1, <1>2, <1>5 DEF UsedSize
  <2>2. Lens(TakeSlot(parts, 2, 2)) = <<p1, p2 - 1, p3>>
    <3>1. /\ TakeSlot(parts, 2, 2)[1] = parts[1]
          /\ TakeSlot(parts, 2, 2)[2] = Rest(parts[2])
          /\ TakeSlot(parts, 2, 2)[3] = parts[3]
      BY DEF TakeSlot, Sizes
    <3>2. Len(Rest(parts[2])) = p2 - 1 /\ Top(parts[2]) \in S
      BY <1>3, <2>1, StackLemma
    <3>. QED
      BY <3>1, <3>2 DEF Lens
  <2>. HIDE DEF c1, c2, c3, p1, p2, p3
  <2>3. Fits(<<c1, c2 - 1, c3>>, <<p1, p2 - 1, p3>>)
    BY <1>1, <1>2, <1>5 DEF Fits, Holes
  <2>. QED
    BY <1>4, <2>1, <2>2, <2>3
<1>6. CASE p2 = 0
  <2>1. UsedSize(parts, 2) = 3 /\ parts[3] # <<>>
    BY <1>1, <1>2, <1>6 DEF UsedSize
  <2>2. Lens(TakeSlot(parts, 3, 2)) = <<p1 + 1, p2, p3 - 1>>
    <3>1. /\ TakeSlot(parts, 3, 2)[1] = Append(parts[1], Top(parts[3]))
          /\ TakeSlot(parts, 3, 2)[2] = parts[2]
          /\ TakeSlot(parts, 3, 2)[3] = Rest(parts[3])
      BY DEF TakeSlot, Sizes
    <3>2. Len(Rest(parts[3])) = p3 - 1 /\ Top(parts[3]) \in S
      BY <1>3, <2>1, StackLemma
    <3>3. Len(Append(parts[1], Top(parts[3]))) = p1 + 1
      BY <1>3, <3>2, AppendLemma
    <3>. QED
      BY <3>1, <3>2, <3>3 DEF Lens
  <2>. HIDE DEF c1, c2, c3, p1, p2, p3
  <2>3. Fits(<<c1, c2 - 1, c3>>, <<p1 + 1, p2, p3 - 1>>)
    BY <1>1, <1>2, <1>6 DEF Fits, Holes
  <2>. QED
    BY <1>4, <2>1, <2>2, <2>3
<1>. HIDE DEF c1, c2, c3, p1, p2, p3
<1>. QED
  BY <1>1, <1>2, <1>5, <1>6

LEMMA PopOne ==
  ASSUME NEW S, NEW parts \in [Sizes -> Seq(S)],
         NEW jewels \in [Sizes -> Seq(Sizes)],
         Fits(Lens(jewels), Lens(parts)),
         jewels[3] = <<>>, jewels[2] = <<>>, jewels[1] # <<>>
  PROVE  LET used == UsedSize(parts, 1)
         IN  /\ used \in {1, 2, 3} /\ parts[used] # <<>>
             /\ Fits(Lens(TakeJewel(jewels, 1)), Lens(TakeSlot(parts, used, 1)))
<1>. DEFINE c1 == Len(jewels[1])
            c2 == Len(jewels[2])
            c3 == Len(jewels[3])
            p1 == Len(parts[1])
            p2 == Len(parts[2])
            p3 == Len(parts[3])
<1>1. /\ c1 \in Nat /\ c2 \in Nat /\ c3 \in Nat
      /\ p1 \in Nat /\ p2 \in Nat /\ p3 \in Nat
      /\ c3 <= p3 /\ c2 + c3 <= p2 + p3
      /\ c1 + 2 * c2 + 3 * c3 <= p1 + 2 * p2 + 3 * p3
  BY FitsInNumbers
<1>2. /\ jewels[1] = <<>> <=> c1 = 0
      /\ jewels[2] = <<>> <=> c2 = 0
      /\ jewels[3] = <<>> <=> c3 = 0
      /\ parts[1] = <<>> <=> p1 = 0
      /\ parts[2] = <<>> <=> p2 = 0
      /\ parts[3] = <<>> <=> p3 = 0
  BY EmptyInNumbers
<1>3. /\ jewels[1] \in Seq(Sizes) /\ jewels[2] \in Seq(Sizes)
      /\ jewels[3] \in Seq(Sizes)
      /\ parts[1] \in Seq(S) /\ parts[2] \in Seq(S) /\ parts[3] \in Seq(S)
  BY DEF Sizes
<1>4. Lens(TakeJewel(jewels, 1)) = <<c1 - 1, c2, c3>>
  <2>1. /\ TakeJewel(jewels, 1)[1] = Rest(jewels[1])
        /\ TakeJewel(jewels, 1)[2] = jewels[2]
        /\ TakeJewel(jewels, 1)[3] = jewels[3]
    BY DEF TakeJewel, Sizes
  <2>2. Len(Rest(jewels[1])) = c1 - 1
    BY <1>3, StackLemma
  <2>. QED
    BY <2>1, <2>2 DEF Lens
<1>5. CASE p1 > 0
  <2>1. UsedSize(parts, 1) = 1 /\ parts[1] # <<>>
    BY <1>1, <1>2, <1>5 DEF UsedSize
  <2>2. Lens(TakeSlot(parts, 1, 1)) = <<p1 - 1, p2, p3>>
    <3>1. /\ TakeSlot(parts, 1, 1)[1] = Rest(parts[1])
          /\ TakeSlot(parts, 1, 1)[2] = parts[2]
          /\ TakeSlot(parts, 1, 1)[3] = parts[3]
      BY DEF TakeSlot, Sizes
    <3>2. Len(Rest(parts[1])) = p1 - 1 /\ Top(parts[1]) \in S
      BY <1>3, <2>1, StackLemma
    <3>. QED
      BY <3>1, <3>2 DEF Lens
  <2>. HIDE DEF c1, c2, c3, p1, p2, p3
  <2>3. Fits(<<c1 - 1, c2, c3>>, <<p1 - 1, p2, p3>>)
    BY <1>1, <1>2, <1>5 DEF Fits, Holes
  <2>. QED
    BY <1>4, <2>1, <2>2, <2>3
<1>6. CASE p1 = 0 /\ p2 > 0
  <2>1. UsedSize(parts, 1) = 2 /\ parts[2] # <<>>
    BY <1>1, <1>2, <1>6 DEF UsedSize
  <2>2. Lens(TakeSlot(parts, 2, 1)) = <<p1 + 1, p2 - 1, p3>>
    <3>1. /\ TakeSlot(parts, 2, 1)[1] = Append(parts[1], Top(parts[2]))
          /\ TakeSlot(parts, 2, 1)[2] = Rest(parts[2])
          /\ TakeSlot(parts, 2, 1)[3] = parts[3]
      BY DEF TakeSlot, Sizes
    <3>2. Len(Rest(parts[2])) = p2 - 1 /\ Top(parts[2]) \in S
      BY <1>3, <2>1, StackLemma
    <3>3. Len(Append(parts[1], Top(parts[2]))) = p1 + 1
      BY <1>3, <3>2, AppendLemma
    <3>. QED
      BY <3>1, <3>2, <3>3 DEF Lens
  <2>. HIDE DEF c1, c2, c3, p1, p2, p3
  <2>3. Fits(<<c1 - 1, c2, c3>>, <<p1 + 1, p2 - 1, p3>>)
    BY <1>1, <1>2, <1>6 DEF Fits, Holes
  <2>. QED
    BY <1>4, <2>1, <2>2, <2>3
<1>7. CASE p1 = 0 /\ p2 = 0
  <2>1. UsedSize(parts, 1) = 3 /\ parts[3] # <<>>
    BY <1>1, <1>2, <1>7 DEF UsedSize
  <2>2. Lens(TakeSlot(parts, 3, 1)) = <<p1, p2 + 1, p3 - 1>>
    <3>1. /\ TakeSlot(parts, 3, 1)[1] = parts[1]
          /\ TakeSlot(parts, 3, 1)[2] = Append(parts[2], Top(parts[3]))
          /\ TakeSlot(parts, 3, 1)[3] = Rest(parts[3])
      BY DEF TakeSlot, Sizes
    <3>2. Len(Rest(parts[3])) = p3 - 1 /\ Top(parts[3]) \in S
      BY <1>3, <2>1, StackLemma
    <3>3. Len(Append(parts[2], Top(parts[3]))) = p2 + 1
      BY <1>3, <3>2, AppendLemma
    <3>. QED
      BY <3>1, <3>2, <3>3 DEF Lens
  <2>. HIDE DEF c1, c2, c3, p1, p2, p3
  <2>3. Fits(<<c1 - 1, c2, c3>>, <<p1, p2 + 1, p3 - 1>>)
    BY <1>1, <1>2, <1>7 DEF Fits, Holes
  <2>. QED
    BY <1>4, <2>1, <2>2, <2>3
<1>. HIDE DEF c1, c2, c3, p1, p2, p3
<1>. QED
  BY <1>1, <1>2, <1>5, <1>6, <1>7

LEMMA PopKeepsFitting ==
  ASSUME NEW S, NEW parts \in [Sizes -> Seq(S)],
         NEW jewels \in [Sizes -> Seq(Sizes)], NEW most \in 0..3,
         Fits(Lens(jewels), Lens(parts)),
         NoneAbove(jewels, most),
         NEW size, size = NextSize(jewels, most), size > 0,
         NEW used, used = UsedSize(parts, size)
  PROVE  /\ size \in Sizes /\ used \in Sizes /\ size <= used
         /\ jewels[size] # <<>> /\ parts[used] # <<>>
         /\ NoneAbove(jewels, size)
         /\ Fits(Lens(TakeJewel(jewels, size)),
                 Lens(TakeSlot(parts, used, size)))
<1>1. /\ size \in Sizes
      /\ jewels[size] # <<>>
      /\ NoneAbove(jewels, size)
  BY DEF NextSize, NoneAbove, Sizes
<1>2. CASE size = 3
  BY <1>1, <1>2, PopThree DEF Sizes
<1>3. CASE size = 2
  <2>1. jewels[3] = <<>> /\ jewels[2] # <<>>
    BY <1>1, <1>3 DEF NoneAbove, Sizes
  <2>2. /\ used \in {2, 3} /\ parts[used] # <<>>
        /\ Fits(Lens(TakeJewel(jewels, 2)), Lens(TakeSlot(parts, used, 2)))
    BY <1>3, <2>1, PopTwo
  <2>. QED
    BY <1>1, <1>3, <2>2 DEF Sizes
<1>4. CASE size = 1
  <2>1. jewels[3] = <<>> /\ jewels[2] = <<>> /\ jewels[1] # <<>>
    BY <1>1, <1>4 DEF NoneAbove, Sizes
  <2>2. /\ used \in {1, 2, 3} /\ parts[used] # <<>>
        /\ Fits(Lens(TakeJewel(jewels, 1)), Lens(TakeSlot(parts, used, 1)))
    BY <1>4, <2>1, PopOne
  <2>. QED
    BY <1>1, <1>4, <2>2 DEF Sizes
<1>. QED
  BY <1>1, <1>2, <1>3, <1>4 DEF Sizes

LEMMA PopIInv == IInv /\ Pop => IInv'
<1>. SUFFICES ASSUME IInv, Pop PROVE IInv'
  OBVIOUS
<1>. DEFINE size == NextSize(slots_jewel_, slots_)
            used == UsedSize(slots_part_, size)
<1>1. /\ slots_part_ \in [Sizes -> Seq(1..Parts)]
      /\ slots_jewel_ \in [Sizes -> Seq(Sizes)]
      /\ slots_ \in 0..3 /\ placed \in Seq((1..Parts) \X Sizes)
      /\ Fits(Lens(slots_jewel_), Lens(slots_part_))
      /\ NoneAbove(slots_jewel_, slots_)
      /\ phase = "pop"
  BY DEF IInv, TypeOK, RestAlwaysFits, LargerSizesPlaced, Pop
<1>2. /\ size > 0
      /\ slots_' = size
      /\ slots_part_' = TakeSlot(slots_part_, used, size)
      /\ slots_jewel_' = TakeJewel(slots_jewel_, size)
      /\ placed' = Append(placed, <<Top(slots_part_[used]), size>>)
      /\ capacity' = capacity /\ phase' = phase
  BY DEF Pop, CanPop
<1>. HIDE DEF size, used
<1>3. /\ size \in Sizes /\ used \in Sizes /\ size <= used
      /\ slots_jewel_[size] # <<>> /\ slots_part_[used] # <<>>
      /\ NoneAbove(slots_jewel_, size)
      /\ Fits(Lens(slots_jewel_'), Lens(slots_part_'))
  <2>1. size = NextSize(slots_jewel_, slots_)
        /\ used = UsedSize(slots_part_, size)
    BY DEF size, used
  <2>2. size > 0
    BY <1>2
  <2>3. /\ size \in Sizes /\ used \in Sizes /\ size <= used
        /\ slots_jewel_[size] # <<>> /\ slots_part_[used] # <<>>
        /\ NoneAbove(slots_jewel_, size)
        /\ Fits(Lens(TakeJewel(slots_jewel_, size)),
                Lens(TakeSlot(slots_part_, used, size)))
    BY <1>1, <2>1, <2>2, PopKeepsFitting
  <2>. QED
    BY <1>2, <2>3
<1>4. /\ slots_part_' \in [Sizes -> Seq(1..Parts)]
      /\ slots_jewel_' \in [Sizes -> Seq(Sizes)]
      /\ \A s \in Sizes : s # size => slots_jewel_'[s] = slots_jewel_[s]
  <2>1. TakeSlot(slots_part_, used, size) \in [Sizes -> Seq(1..Parts)]
    BY <1>1, <1>3, TakeSlotLemma
  <2>2. /\ TakeJewel(slots_jewel_, size) \in [Sizes -> Seq(Sizes)]
        /\ \A s \in Sizes : s # size =>
             TakeJewel(slots_jewel_, size)[s] = slots_jewel_[s]
    BY <1>1, <1>3, TakeJewelLemma
  <2>. QED
    BY <1>2, <2>1, <2>2
<1>5. placed' \in Seq((1..Parts) \X Sizes)
  <2>1. slots_part_[used] \in Seq(1..Parts)
    BY <1>1, <1>3
  <2>2. Top(slots_part_[used]) \in 1..Parts
    BY <1>3, <2>1, StackLemma
  <2>. QED
    BY <1>1, <1>2, <1>3, <2>2, AppendLemma
<1>6. TypeOK'
  BY <1>2, <1>3, <1>4, <1>5 DEF IInv, TypeOK, Sizes
<1>7. LargerSizesPlaced'
  BY <1>2, <1>3, <1>4 DEF LargerSizesPlaced, NoneAbove
<1>. QED
  BY <1>1, <1>2, <1>3, <1>6, <1>7 DEF IInv, RestAlwaysFits, NoJewelDropped

(* Pop returns false only when every jewel has been placed.                 *)
LEMMA PopFailsIInv == IInv /\ PopFails => IInv'
<1>. SUFFICES ASSUME IInv, PopFails PROVE IInv'
  OBVIOUS
<1>1. /\ slots_part_ \in [Sizes -> Seq(1..Parts)]
      /\ slots_jewel_ \in [Sizes -> Seq(Sizes)]
      /\ slots_ \in 0..3
      /\ Fits(Lens(slots_jewel_), Lens(slots_part_))
      /\ NoneAbove(slots_jewel_, slots_)
  BY DEF IInv, TypeOK, RestAlwaysFits, LargerSizesPlaced, PopFails
<1>2. /\ ~CanPop(slots_part_, slots_jewel_, slots_)
      /\ slots_' = NextSize(slots_jewel_, slots_) /\ phase' = "done"
      /\ UNCHANGED <<slots_part_, slots_jewel_, capacity, placed>>
  BY DEF PopFails
<1>3. ~(NextSize(slots_jewel_, slots_) > 0)
  <2>. SUFFICES ASSUME NextSize(slots_jewel_, slots_) > 0 PROVE FALSE
    OBVIOUS
  <2>1. UsedSize(slots_part_, NextSize(slots_jewel_, slots_)) \in Sizes
    BY <1>1, PopKeepsFitting
  <2>. QED
    BY <1>2, <2>1 DEF CanPop, Sizes
<1>4. slots_' = 0 /\ \A s \in Sizes : slots_jewel_[s] = <<>>
  BY <1>1, <1>2, <1>3 DEF NextSize, NoneAbove, Sizes
<1>5. slots_jewel_ = Empty
  BY <1>1, <1>4 DEF Empty
<1>6. TypeOK'
  BY <1>1, <1>2, <1>4 DEF IInv, TypeOK
<1>. QED
  BY <1>1, <1>2, <1>4, <1>5, <1>6
     DEF IInv, RestAlwaysFits, LargerSizesPlaced, NoneAbove, NoJewelDropped,
         PopFails

LEMMA AddPartIInv == ASSUME NEW free \in 0..3, IInv, AddPart(free) PROVE IInv'
<1>1. /\ slots_part_ \in [Sizes -> Seq(1..Parts)]
      /\ capacity \in Seq(0..3) /\ Len(capacity) < Parts
      /\ phase = "parts" /\ phase' = "parts"
      /\ capacity' = Append(capacity, free)
      /\ UNCHANGED <<slots_jewel_, slots_, placed>>
  BY DEF IInv, TypeOK, AddPart
<1>2. Len(capacity) + 1 \in 1..Parts
  BY <1>1, PartsAreCounted
<1>3. slots_part_' \in [Sizes -> Seq(1..Parts)]
  <2>1. \A s \in Sizes : Append(slots_part_[s], Len(capacity) + 1) \in Seq(1..Parts)
    BY <1>1, <1>2, AppendLemma
  <2>2. slots_part_' = [s \in Sizes |->
                          IF s = free THEN Append(slots_part_[s], Len(capacity) + 1)
                          ELSE slots_part_[s]]
    BY DEF AddPart
  <2>. QED
    BY <1>1, <2>1, <2>2
<1>4. capacity' \in Seq(0..3) /\ Len(capacity') <= Parts
  BY <1>1, PartsAreCounted, AppendLemma
<1>5. TypeOK'
  BY <1>1, <1>3, <1>4 DEF IInv, TypeOK
<1>. QED
  BY <1>1, <1>5
     DEF IInv, RestAlwaysFits, LargerSizesPlaced, NoJewelDropped

LEMMA AddJewelIInv == ASSUME NEW size \in Sizes, IInv, AddJewel(size) PROVE IInv'
<1>1. /\ slots_jewel_ \in [Sizes -> Seq(Sizes)]
      /\ slots_jewel_' = [slots_jewel_ EXCEPT
                            ![size] = Append(slots_jewel_[size], size)]
      /\ Fits(Lens(slots_jewel_'), Lens(slots_part_))
      /\ phase = "jewels" /\ phase' = "jewels" /\ slots_ = 3
      /\ UNCHANGED <<slots_part_, slots_, capacity, placed>>
  BY DEF IInv, TypeOK, AddJewel, PushJewel
<1>2. slots_jewel_' \in [Sizes -> Seq(Sizes)]
  BY <1>1, AppendLemma
<1>3. TypeOK'
  BY <1>1, <1>2 DEF IInv, TypeOK
<1>4. LargerSizesPlaced'
  BY <1>1 DEF LargerSizesPlaced, NoneAbove, Sizes
<1>. QED
  BY <1>1, <1>3, <1>4 DEF IInv, RestAlwaysFits, NoJewelDropped

LEMMA NextIInv == IInv /\ [Next]_vars => IInv'
<1>. SUFFICES ASSUME IInv, [Next]_vars PROVE IInv'
  OBVIOUS
<1>1. ASSUME NEW free \in 0..3, AddPart(free) PROVE IInv'
  BY <1>1, AddPartIInv
<1>2. CASE PartsAdded
  <2>1. slots_jewel_ = Empty /\ Lens(slots_part_) \in Counts
    BY <1>2, LensCounts DEF PartsAdded, IInv, TypeOK
  <2>2. Fits(Lens(slots_jewel_), Lens(slots_part_))
    BY <2>1, EmptyFits
  <2>. QED
    BY <1>2, <2>2
       DEF PartsAdded, IInv, TypeOK, RestAlwaysFits, LargerSizesPlaced,
           NoJewelDropped
<1>3. ASSUME NEW size \in Sizes, AddJewel(size) PROVE IInv'
  BY <1>3, AddJewelIInv
<1>4. CASE JewelsAdded
  BY <1>4 DEF JewelsAdded, IInv, TypeOK, RestAlwaysFits, LargerSizesPlaced,
              NoJewelDropped
<1>5. CASE Pop
  BY <1>5, PopIInv
<1>6. CASE PopFails
  BY <1>6, PopFailsIInv
<1>7. CASE UNCHANGED vars
  BY <1>7 DEF vars, IInv, TypeOK, RestAlwaysFits, LargerSizesPlaced,
              NoJewelDropped
<1>. QED
  BY <1>1, <1>2, <1>3, <1>4, <1>5, <1>6, <1>7 DEF Next

(* For any number of parts, Finalizer's loop over Pop ends with every jewel *)
(* of the plan in a slot.                                                   *)
THEOREM EveryJewelPlaced == Spec => []NoJewelDropped
<1>1. IInv => NoJewelDropped
  BY DEF IInv
<1>. QED
  BY <1>1, InitIInv, NextIInv, PTL DEF Spec

(* Every choice of a slot leaves enough for the jewels still to be placed.  *)
THEOREM GreedyNeverStuck == Spec => []RestAlwaysFits
<1>1. IInv => RestAlwaysFits
  BY DEF IInv
<1>. QED
  BY <1>1, InitIInv, NextIInv, PTL DEF Spec

(* The tables of the assigner keep their types.                             *)
THEOREM TypeCorrect == Spec => []TypeOK
<1>1. IInv => TypeOK
  BY DEF IInv
<1>. QED
  BY <1>1, InitIInv, NextIInv, PTL DEF Spec

-----------------------------------------------------------------------------
(* A part is on at most one stack, and there once.                          *)
Once(parts) ==
  \A s, t \in Sizes :
    \A n \in DOMAIN parts[s], m \in DOMAIN parts[t] :
      parts[s][n] = parts[t][m] => s = t /\ n = m

(* An element more in a list counts once.                                   *)
LEMMA TimesNothing == ASSUME NEW x PROVE Times(x, <<>>) = 0
<1>. DEFINE none == { n \in DOMAIN <<>> : <<>>[n] = x }
<1>1. none = {}
  OBVIOUS
<1>. HIDE DEF none
<1>2. Cardinality(none) = 0
  BY <1>1, FS_EmptySet
<1>. QED
  BY <1>2 DEF Times, none

LEMMA TimesAppend ==
  ASSUME NEW S, NEW list \in Seq(S), NEW x \in S, NEW y
  PROVE  /\ Times(y, list) \in Nat
         /\ y = x => Times(y, Append(list, x)) = Times(y, list) + 1
         /\ y # x => Times(y, Append(list, x)) = Times(y, list)
<1>. DEFINE longer == Append(list, x)
            old == { n \in DOMAIN list : list[n] = y }
            new == { n \in DOMAIN longer : longer[n] = y }
            m   == Len(list) + 1
<1>1. /\ DOMAIN list = 1..Len(list) /\ Len(list) \in Nat
      /\ DOMAIN longer = 1..m
      /\ \A n \in 1..Len(list) : longer[n] = list[n]
      /\ longer[m] = x
  OBVIOUS
<1>2. Times(y, list) = Cardinality(old) /\ Times(y, longer) = Cardinality(new)
  BY DEF Times
<1>3. old \subseteq 1..Len(list) /\ m \notin old
  BY <1>1
<1>4. y = x => new = old \union {m}
  BY <1>1
<1>5. y # x => new = old
  BY <1>1
<1>. HIDE DEF old, new, m, longer
<1>6. IsFiniteSet(1..Len(list))
  BY <1>1, FS_Interval
<1>7. IsFiniteSet(old)
  BY <1>3, <1>6, FS_Subset
<1>8. Cardinality(old) \in Nat
  BY <1>7, FS_CardinalityType
<1>9. Cardinality(old \union {m}) = Cardinality(old) + 1
  BY <1>3, <1>7, FS_AddElement
<1>10. y = x => Times(y, longer) = Times(y, list) + 1
  BY <1>2, <1>4, <1>9
<1>11. y # x => Times(y, longer) = Times(y, list)
  BY <1>2, <1>5
<1>. QED
  BY <1>2, <1>8, <1>10, <1>11 DEF longer

(* The part on top of a stack moves, with what is left of its slot.         *)
LEMMA RestOf ==
  ASSUME NEW S, NEW stack \in Seq(S), stack # <<>>
  PROVE  /\ DOMAIN stack = 1..Len(stack) /\ Len(stack) \in Nat \ {0}
         /\ DOMAIN Rest(stack) = 1..(Len(stack) - 1)
         /\ \A n \in 1..(Len(stack) - 1) : Rest(stack)[n] = stack[n]
<1>1. Len(stack) \in Nat \ {0} /\ DOMAIN stack = 1..Len(stack)
  OBVIOUS
<1>2. Rest(stack) \in Seq(S) /\ Len(Rest(stack)) = Len(stack) - 1
  BY StackLemma
<1>3. DOMAIN Rest(stack) = 1..(Len(stack) - 1)
  BY <1>2
<1>4. Rest(stack) = [n \in 1..(Len(stack) - 1) |-> stack[n]]
  BY <1>1 DEF Rest
<1>. QED
  BY <1>1, <1>3, <1>4

LEMMA AppendOf ==
  ASSUME NEW S, NEW stack \in Seq(S), NEW x \in S
  PROVE  /\ DOMAIN stack = 1..Len(stack) /\ Len(stack) \in Nat
         /\ DOMAIN Append(stack, x) = 1..(Len(stack) + 1)
         /\ \A n \in 1..Len(stack) : Append(stack, x)[n] = stack[n]
         /\ Append(stack, x)[Len(stack) + 1] = x
  OBVIOUS

LEMMA TakeSlotMoves ==
  ASSUME NEW S, NEW parts \in [Sizes -> Seq(S)], Once(parts),
         NEW used \in Sizes, NEW size \in Sizes, size <= used,
         parts[used] # <<>>
  PROVE  /\ Once(TakeSlot(parts, used, size))
         /\ \A s \in Sizes : \A holder :
              Has(TakeSlot(parts, used, size)[s], holder) <=>
                IF holder = Top(parts[used]) THEN s = used - size
                ELSE Has(parts[s], holder)
         /\ \A s \in Sizes : Has(parts[s], Top(parts[used])) <=> s = used
<1>. DEFINE new == TakeSlot(parts, used, size)
            top == Top(parts[used])
            to  == used - size
<1>1. top \in S /\ to \in 0..2 /\ to # used
  BY StackLemma DEF Sizes
<1>2. /\ new[used] = Rest(parts[used])
      /\ \A s \in Sizes : s # used /\ s = to => new[s] = Append(parts[s], top)
      /\ \A s \in Sizes : s # used /\ s # to => new[s] = parts[s]
  BY DEF TakeSlot
<1>3. /\ DOMAIN parts[used] = 1..Len(parts[used]) /\ Len(parts[used]) \in Nat \ {0}
      /\ DOMAIN new[used] = 1..(Len(parts[used]) - 1)
      /\ \A n \in 1..(Len(parts[used]) - 1) : new[used][n] = parts[used][n]
      /\ top = parts[used][Len(parts[used])]
  BY <1>2, RestOf DEF Top
<1>4. \A s \in Sizes : s # used /\ s = to =>
        /\ DOMAIN parts[s] = 1..Len(parts[s]) /\ Len(parts[s]) \in Nat
        /\ DOMAIN new[s] = 1..(Len(parts[s]) + 1)
        /\ \A n \in 1..Len(parts[s]) : new[s][n] = parts[s][n]
        /\ new[s][Len(parts[s]) + 1] = top
  <2>. SUFFICES ASSUME NEW s \in Sizes, s # used, s = to
                PROVE  /\ DOMAIN parts[s] = 1..Len(parts[s]) /\ Len(parts[s]) \in Nat
                       /\ DOMAIN new[s] = 1..(Len(parts[s]) + 1)
                       /\ \A n \in 1..Len(parts[s]) : new[s][n] = parts[s][n]
                       /\ new[s][Len(parts[s]) + 1] = top
    OBVIOUS
  <2>. HIDE DEF new, top, to
  <2>1. parts[s] \in Seq(S) /\ new[s] = Append(parts[s], top)
    BY <1>2
  <2>. QED
    BY <1>1, <2>1, AppendOf
<1>. HIDE DEF new, top, to
<1>. DEFINE rear == Len(parts[used])
<1>9. rear \in DOMAIN parts[used] /\ parts[used][rear] = top
  BY <1>3
<1>10. ASSUME NEW s \in Sizes, NEW n \in DOMAIN parts[s], parts[s][n] = top
       PROVE  s = used /\ n = rear
  <2>1. parts[s][n] = parts[used][rear]
    BY <1>9, <1>10
  <2>. HIDE DEF rear
  <2>. QED
    BY <1>9, <2>1 DEF Once
<1>5. \A s \in Sizes : Has(parts[s], top) <=> s = used
  BY <1>9, <1>10 DEF Has
<1>6. ASSUME NEW s \in Sizes, NEW n \in DOMAIN new[s]
      PROVE  \/ new[s][n] = top /\ s = to /\ n = Len(parts[s]) + 1
             \/ new[s][n] # top /\ n \in DOMAIN parts[s] /\ new[s][n] = parts[s][n]
  <2>1. CASE s = used
    <3>1. n \in 1..(rear - 1) /\ new[s][n] = parts[s][n]
      BY <1>3, <1>6, <2>1
    <3>2. n \in DOMAIN parts[s] /\ n # rear
      BY <1>3, <2>1, <3>1
    <3>3. parts[s][n] # top
      BY <1>10, <3>2
    <3>. QED
      BY <3>1, <3>2, <3>3
  <2>2. CASE s # used /\ s = to
    <3>1. n \in 1..(Len(parts[s]) + 1)
      BY <1>4, <1>6, <2>2
    <3>2. CASE n = Len(parts[s]) + 1
      BY <1>4, <2>2, <3>2
    <3>3. CASE n \in 1..Len(parts[s])
      <4>1. n \in DOMAIN parts[s] /\ new[s][n] = parts[s][n]
        BY <1>4, <2>2, <3>3
      <4>2. parts[s][n] # top
        BY <1>10, <2>2, <4>1
      <4>. QED
        BY <4>1, <4>2
    <3>4. Len(parts[s]) \in Nat
      BY <1>4, <2>2
    <3>. QED
      BY <3>1, <3>2, <3>3, <3>4
  <2>3. CASE s # used /\ s # to
    BY <1>2, <1>5, <1>6, <2>3 DEF Has
  <2>. QED
    BY <2>1, <2>2, <2>3
<1>7. Once(new)
  <2>. SUFFICES ASSUME NEW s \in Sizes, NEW t \in Sizes,
                       NEW n \in DOMAIN new[s], NEW m \in DOMAIN new[t],
                       new[s][n] = new[t][m]
                PROVE  s = t /\ n = m
    BY DEF Once
  <2>1. CASE new[s][n] = top
    <3>1. s = to /\ n = Len(parts[s]) + 1
      BY <1>6, <2>1
    <3>2. t = to /\ m = Len(parts[t]) + 1
      BY <1>6, <2>1
    <3>. QED
      BY <3>1, <3>2
  <2>2. CASE new[s][n] # top
    BY <1>6, <2>2 DEF Once
  <2>. QED
    BY <2>1, <2>2
<1>8. ASSUME NEW s \in Sizes, NEW holder
      PROVE  Has(new[s], holder) <=>
               IF holder = top THEN s = to ELSE Has(parts[s], holder)
  <2>1. CASE holder = top
    <3>1. Has(new[s], holder) => s = to
      BY <1>6, <2>1 DEF Has
    <3>2. s = to => Has(new[s], holder)
      <4>1. ASSUME s = to
            PROVE  /\ Len(parts[s]) + 1 \in DOMAIN new[s]
                   /\ new[s][Len(parts[s]) + 1] = top
        BY <1>1, <1>4, <4>1
      <4>. QED
        BY <2>1, <4>1 DEF Has
    <3>. QED
      BY <2>1, <3>1, <3>2
  <2>2. CASE holder # top
    <3>1. Has(new[s], holder) => Has(parts[s], holder)
      BY <1>6, <2>2 DEF Has
    <3>2. Has(parts[s], holder) => Has(new[s], holder)
      <4>1. CASE s = used
        BY <1>3, <2>2, <4>1 DEF Has
      <4>2. CASE s # used /\ s = to
        <5>. DEFINE held == Len(parts[s])
        <5>1. /\ DOMAIN parts[s] = 1..held /\ held \in Nat
              /\ DOMAIN new[s] = 1..(held + 1)
              /\ \A n \in 1..held : new[s][n] = parts[s][n]
          BY <1>4, <4>2
        <5>. HIDE DEF held
        <5>2. DOMAIN parts[s] \subseteq DOMAIN new[s]
          BY <5>1
        <5>. QED
          BY <5>1, <5>2 DEF Has
      <4>3. CASE s # used /\ s # to
        BY <1>2, <4>3
      <4>. QED
        BY <4>1, <4>2, <4>3
    <3>. QED
      BY <2>2, <3>1, <3>2
  <2>. QED
    BY <2>1, <2>2
<1>. QED
  BY <1>5, <1>7, <1>8 DEF new, top, to

SlotInv ==
  /\ phase \in {"parts", "jewels"} => placed = <<>>
  /\ Once(slots_part_)
  /\ \A s \in Sizes : \A holder : Has(slots_part_[s], holder) => holder \in 1..Len(capacity)
  /\ PartsKeepTheirSlots

LEMMA InitSlotInv == Init => SlotInv
  BY DEF Init, SlotInv, Once, Has, Empty, PartsKeepTheirSlots

(* A part added has all its slots free, and the others what they had.       *)
LEMMA AddPartSlotInv ==
  ASSUME NEW free \in 0..3, IInv, SlotInv, AddPart(free)
  PROVE  SlotInv'
<1>0. PICK new : new = Len(capacity) + 1
  OBVIOUS
<1>1. /\ slots_part_ \in [Sizes -> Seq(1..Parts)]
      /\ capacity \in Seq(0..3) /\ Len(capacity) \in Nat
      /\ new \in 1..Parts /\ new \notin 1..Len(capacity)
      /\ placed = <<>> /\ placed' = <<>> /\ phase' = "parts"
      /\ slots_part_' = [s \in Sizes |-> IF s = free THEN Append(slots_part_[s], new)
                                         ELSE slots_part_[s]]
      /\ capacity' = Append(capacity, free)
  BY <1>0, PartsAreCounted DEF IInv, TypeOK, SlotInv, AddPart
<1>2. /\ DOMAIN capacity = 1..Len(capacity)
      /\ DOMAIN capacity' = 1..new /\ Len(capacity') = new
      /\ \A holder \in 1..Len(capacity) : capacity'[holder] = capacity[holder]
      /\ capacity'[new] = free
  BY <1>0, <1>1
<1>3. \A s \in Sizes : s = free =>
        /\ DOMAIN slots_part_[s] = 1..Len(slots_part_[s])
        /\ Len(slots_part_[s]) \in Nat
        /\ DOMAIN slots_part_'[s] = 1..(Len(slots_part_[s]) + 1)
        /\ \A n \in 1..Len(slots_part_[s]) : slots_part_'[s][n] = slots_part_[s][n]
        /\ slots_part_'[s][Len(slots_part_[s]) + 1] = new
  <2>. SUFFICES ASSUME NEW s \in Sizes, s = free
                PROVE  /\ DOMAIN slots_part_[s] = 1..Len(slots_part_[s])
                       /\ Len(slots_part_[s]) \in Nat
                       /\ DOMAIN slots_part_'[s] = 1..(Len(slots_part_[s]) + 1)
                       /\ \A n \in 1..Len(slots_part_[s]) :
                            slots_part_'[s][n] = slots_part_[s][n]
                       /\ slots_part_'[s][Len(slots_part_[s]) + 1] = new
    OBVIOUS
  <2>1. /\ slots_part_[s] \in Seq(1..Parts)
        /\ slots_part_'[s] = Append(slots_part_[s], new)
    BY <1>1
  <2>. QED
    BY <1>1, <2>1, AppendOf
<1>4. \A s \in Sizes : s # free => slots_part_'[s] = slots_part_[s]
  BY <1>1
<1>5. \A s \in Sizes : ~Has(slots_part_[s], new)
  BY <1>1 DEF SlotInv
<1>6. ASSUME NEW s \in Sizes, NEW n \in DOMAIN slots_part_'[s]
      PROVE  \/ /\ slots_part_'[s][n] = new /\ s = free
                /\ n = Len(slots_part_[s]) + 1
             \/ /\ slots_part_'[s][n] # new /\ n \in DOMAIN slots_part_[s]
                /\ slots_part_'[s][n] = slots_part_[s][n]
  <2>1. CASE s = free
    <3>1. n \in 1..(Len(slots_part_[s]) + 1) /\ Len(slots_part_[s]) \in Nat
      BY <1>3, <1>6, <2>1
    <3>2. CASE n = Len(slots_part_[s]) + 1
      BY <1>3, <2>1, <3>2
    <3>3. CASE n \in 1..Len(slots_part_[s])
      BY <1>3, <1>5, <2>1, <3>3 DEF Has
    <3>. QED
      BY <3>1, <3>2, <3>3
  <2>2. CASE s # free
    BY <1>4, <1>5, <1>6, <2>2 DEF Has
  <2>. QED
    BY <2>1, <2>2
<1>7. Once(slots_part_')
  <2>. SUFFICES ASSUME NEW s \in Sizes, NEW t \in Sizes,
                       NEW n \in DOMAIN slots_part_'[s], NEW m \in DOMAIN slots_part_'[t],
                       slots_part_'[s][n] = slots_part_'[t][m]
                PROVE  s = t /\ n = m
    BY DEF Once
  <2>1. CASE slots_part_'[s][n] = new
    <3>1. s = free /\ n = Len(slots_part_[s]) + 1
      BY <1>6, <2>1
    <3>2. t = free /\ m = Len(slots_part_[t]) + 1
      BY <1>6, <2>1
    <3>. QED
      BY <3>1, <3>2
  <2>2. CASE slots_part_'[s][n] # new
    BY <1>6, <2>2 DEF Once, SlotInv
  <2>. QED
    BY <2>1, <2>2
<1>8. ASSUME NEW s \in Sizes, NEW holder
      PROVE  Has(slots_part_'[s], holder) <=>
               IF holder = new THEN s = free ELSE Has(slots_part_[s], holder)
  <2>1. CASE holder = new
    <3>1. Has(slots_part_'[s], holder) => s = free
      BY <1>6, <2>1 DEF Has
    <3>2. s = free => Has(slots_part_'[s], holder)
      BY <1>3, <2>1 DEF Has
    <3>. QED
      BY <2>1, <3>1, <3>2
  <2>2. CASE holder # new
    <3>1. Has(slots_part_'[s], holder) => Has(slots_part_[s], holder)
      BY <1>6, <2>2 DEF Has
    <3>2. Has(slots_part_[s], holder) => Has(slots_part_'[s], holder)
      BY <1>3, <1>4 DEF Has
    <3>. QED
      BY <2>2, <3>1, <3>2
  <2>. QED
    BY <2>1, <2>2
<1>9. \A s \in Sizes : \A holder : Has(slots_part_'[s], holder) => holder \in 1..Len(capacity')
  BY <1>0, <1>1, <1>2, <1>8 DEF SlotInv
<1>10. \A holder : HeldBy(holder) = 0 /\ HeldBy(holder)' = 0
  BY <1>1, TimesNothing DEF HeldBy
<1>11. \A holder \in 1..Len(capacity) : FreeOf(holder)' = FreeOf(holder)
  BY <1>1, <1>8 DEF FreeOf, Sizes
<1>12. FreeOf(new)' = free
  BY <1>8 DEF FreeOf, Sizes
<1>13. \A holder \in DOMAIN capacity' : HeldBy(holder)' + FreeOf(holder)' = capacity'[holder]
  <2>. SUFFICES ASSUME NEW holder \in DOMAIN capacity'
                PROVE  HeldBy(holder)' + FreeOf(holder)' = capacity'[holder]
    OBVIOUS
  <2>1. CASE holder \in 1..Len(capacity)
    BY <1>2, <1>10, <1>11, <2>1 DEF SlotInv, PartsKeepTheirSlots
  <2>2. CASE holder = new
    BY <1>2, <1>10, <1>12, <2>2
  <2>. QED
    BY <1>0, <1>1, <1>2, <2>1, <2>2
<1>. QED
  BY <1>1, <1>7, <1>9, <1>13 DEF SlotInv, PartsKeepTheirSlots

(* A jewel placed moves its size from what the part has free to what it     *)
(* holds.                                                                   *)
LEMMA PopSlotInv == IInv /\ SlotInv /\ Pop => SlotInv'
<1>. SUFFICES ASSUME IInv, SlotInv, Pop PROVE SlotInv'
  OBVIOUS
<1>. DEFINE size == NextSize(slots_jewel_, slots_)
            used == UsedSize(slots_part_, size)
<1>0. PICK top : top = Top(slots_part_[used])
  OBVIOUS
<1>1. /\ slots_part_ \in [Sizes -> Seq(1..Parts)]
      /\ slots_jewel_ \in [Sizes -> Seq(Sizes)]
      /\ slots_ \in 0..3 /\ placed \in Seq((1..Parts) \X Sizes)
      /\ capacity \in Seq(0..3)
      /\ Fits(Lens(slots_jewel_), Lens(slots_part_))
      /\ NoneAbove(slots_jewel_, slots_)
      /\ phase = "pop" /\ phase' = "pop" /\ capacity' = capacity
      /\ Once(slots_part_)
  BY DEF IInv, TypeOK, RestAlwaysFits, LargerSizesPlaced, Pop, SlotInv
<1>2. /\ size > 0
      /\ slots_part_' = TakeSlot(slots_part_, used, size)
      /\ placed' = Append(placed, <<top, size>>)
  BY <1>0 DEF Pop, CanPop
<1>3. /\ size \in Sizes /\ used \in Sizes /\ size <= used
      /\ slots_part_[used] # <<>>
  BY <1>1, <1>2, PopKeepsFitting
<1>4. top \in 1..Parts
  BY <1>0, <1>1, <1>3, StackLemma
<1>. HIDE DEF size, used
<1>5. /\ Once(slots_part_')
      /\ \A s \in Sizes : \A holder :
           Has(slots_part_'[s], holder) <=>
             IF holder = top THEN s = used - size ELSE Has(slots_part_[s], holder)
      /\ \A s \in Sizes : Has(slots_part_[s], top) <=> s = used
  BY <1>0, <1>1, <1>2, <1>3, TakeSlotMoves
<1>6. \A s \in Sizes : \A holder : Has(slots_part_'[s], holder) => holder \in 1..Len(capacity')
  BY <1>1, <1>3, <1>5 DEF SlotInv
<1>7. ASSUME NEW holder, NEW s
      PROVE
        /\ Times(<<holder, s>>, placed) \in Nat
        /\ <<holder, s>> = <<top, size>> =>
             Times(<<holder, s>>, placed') = Times(<<holder, s>>, placed) + 1
        /\ <<holder, s>> # <<top, size>> =>
             Times(<<holder, s>>, placed') = Times(<<holder, s>>, placed)
  <2>1. <<top, size>> \in (1..Parts) \X Sizes
    BY <1>3, <1>4
  <2>. QED
    BY <1>1, <1>2, <2>1, TimesAppend
<1>8. \A holder : holder # top => /\ HeldBy(holder)' = HeldBy(holder)
                              /\ FreeOf(holder)' = FreeOf(holder)
  BY <1>5, <1>7 DEF HeldBy, FreeOf, Sizes
<1>9. HeldBy(top)' = HeldBy(top) + size /\ HeldBy(top) \in Int
  <2>1. /\ Times(<<top, 1>>, placed) \in Nat
        /\ Times(<<top, 2>>, placed) \in Nat
        /\ Times(<<top, 3>>, placed) \in Nat
    BY <1>7
  <2>2. CASE size = 1
    BY <1>7, <2>1, <2>2 DEF HeldBy
  <2>3. CASE size = 2
    BY <1>7, <2>1, <2>3 DEF HeldBy
  <2>4. CASE size = 3
    BY <1>7, <2>1, <2>4 DEF HeldBy
  <2>. QED
    BY <1>3, <2>2, <2>3, <2>4 DEF Sizes
<1>10. FreeOf(top) = used /\ FreeOf(top)' = used - size
  BY <1>3, <1>5 DEF FreeOf, Sizes
<1>11. \A holder \in DOMAIN capacity : HeldBy(holder)' + FreeOf(holder)' = capacity[holder]
  <2>. SUFFICES ASSUME NEW holder \in DOMAIN capacity
                PROVE  HeldBy(holder)' + FreeOf(holder)' = capacity[holder]
    OBVIOUS
  <2>1. HeldBy(holder) + FreeOf(holder) = capacity[holder]
    BY DEF SlotInv, PartsKeepTheirSlots
  <2>2. CASE holder = top
    BY <1>3, <1>9, <1>10, <2>1, <2>2 DEF Sizes
  <2>3. CASE holder # top
    BY <1>8, <2>1, <2>3
  <2>. QED
    BY <2>2, <2>3
<1>. QED
  BY <1>1, <1>5, <1>6, <1>11 DEF SlotInv, PartsKeepTheirSlots

LEMMA NextSlotInv == IInv /\ SlotInv /\ [Next]_vars => SlotInv'
<1>. SUFFICES ASSUME IInv, SlotInv, [Next]_vars PROVE SlotInv'
  OBVIOUS
<1>1. ASSUME NEW free \in 0..3, AddPart(free) PROVE SlotInv'
  BY <1>1, AddPartSlotInv
<1>2. CASE Pop
  BY <1>2, PopSlotInv
<1>3. CASE \/ PartsAdded \/ \E size \in Sizes : AddJewel(size)
           \/ JewelsAdded \/ PopFails \/ UNCHANGED vars
  <2>1. UNCHANGED <<slots_part_, capacity, placed>>
    BY <1>3 DEF PartsAdded, AddJewel, PushJewel, JewelsAdded, PopFails, vars
  <2>2. phase' \in {"parts", "jewels"} => phase \in {"parts", "jewels"}
    BY <1>3 DEF PartsAdded, AddJewel, PushJewel, JewelsAdded, PopFails, vars
  <2>. QED
    BY <2>1, <2>2
       DEF SlotInv, PartsKeepTheirSlots, HeldBy, FreeOf
<1>. QED
  BY <1>1, <1>2, <1>3 DEF Next

(* For any armors and any plan, no slot is used twice and none is lost.     *)
THEOREM SlotsAreKept == Spec => []PartsKeepTheirSlots
<1>1. SlotInv => PartsKeepTheirSlots
  BY DEF SlotInv
<1>. QED
  BY <1>1, InitIInv, NextIInv, InitSlotInv, NextSlotInv, PTL DEF Spec

-----------------------------------------------------------------------------
(* Both together.                                                          *)

(* The pruners are done when the Finalizer starts; the parts have the      *)
(* slots of the tree; the jewels handed over are among those chosen, and,  *)
(* once Pop runs, all of them.                                             *)
Linked ==
  /\ phase # "parts" => stage = MaxStages
  /\ phase \in {"parts", "jewels"} => placed = <<>>
  /\ phase = "jewels" =>
       Lens(slots_part_) = slots /\ AddUpTo(Lens(slots_jewel_), stuffed)
  /\ phase \in {"pop", "done"} =>
       \A size \in Sizes :
         Count(placed, size) + Len(slots_jewel_[size]) = stuffed[size]

PlacingInv == StuffInv /\ IInv /\ Linked

-----------------------------------------------------------------------------
LEMMA CountNothing == ASSUME NEW size PROVE Count(<<>>, size) = 0
<1>. DEFINE none == { n \in DOMAIN <<>> : <<>>[n][2] = size }
<1>1. none = {}
  OBVIOUS
<1>. HIDE DEF none
<1>2. Cardinality(none) = 0
  BY <1>1, FS_EmptySet
<1>. QED
  BY <1>2 DEF Count, none

LEMMA CountIsNat ==
  ASSUME NEW list \in Seq((1..Parts) \X Sizes), NEW size
  PROVE  Count(list, size) \in Nat
<1>. DEFINE own == { n \in DOMAIN list : list[n][2] = size }
<1>1. own \subseteq 1..Len(list) /\ Len(list) \in Nat
  OBVIOUS
<1>. HIDE DEF own
<1>2. IsFiniteSet(1..Len(list))
  BY <1>1, FS_Interval
<1>3. Cardinality(own) \in Nat
  BY <1>1, <1>2, FS_Subset, FS_CardinalityType
<1>. QED
  BY <1>3 DEF Count, own

(* One more placed jewel is one more of its size.                          *)
LEMMA CountAppend ==
  ASSUME NEW list \in Seq((1..Parts) \X Sizes),
         NEW x \in (1..Parts) \X Sizes, NEW size \in Sizes
  PROVE  /\ Count(list, size) \in Nat
         /\ Count(Append(list, x), size)
              = Count(list, size) + (IF size = x[2] THEN 1 ELSE 0)
<1>. DEFINE longer == Append(list, x)
            old == { n \in DOMAIN list : list[n][2] = size }
            new == { n \in DOMAIN longer : longer[n][2] = size }
            m   == Len(list) + 1
<1>1. /\ DOMAIN list = 1..Len(list) /\ Len(list) \in Nat
      /\ DOMAIN longer = 1..m
      /\ \A n \in 1..Len(list) : longer[n] = list[n]
      /\ longer[m] = x
  OBVIOUS
<1>2. Count(list, size) = Cardinality(old) /\ Count(longer, size) = Cardinality(new)
  BY DEF Count
<1>3. old \subseteq 1..Len(list) /\ m \notin old
  BY <1>1
<1>4. size = x[2] => new = old \union {m}
  BY <1>1
<1>5. size # x[2] => new = old
  BY <1>1
<1>. HIDE DEF old, new, m, longer
<1>6. IsFiniteSet(1..Len(list))
  BY <1>1, FS_Interval
<1>7. IsFiniteSet(old)
  BY <1>3, <1>6, FS_Subset
<1>8. Cardinality(old) \in Nat
  BY <1>7, FS_CardinalityType
<1>9. Cardinality(old \union {m}) = Cardinality(old) + 1
  BY <1>3, <1>7, FS_AddElement
<1>10. Count(longer, size) = Count(list, size) + (IF size = x[2] THEN 1 ELSE 0)
  <2>1. CASE size = x[2]
    <3>1. Cardinality(new) = Cardinality(old) + 1
      BY <1>4, <1>9, <2>1
    <3>. QED
      BY <1>2, <2>1, <3>1
  <2>2. CASE size # x[2]
    <3>1. Cardinality(new) = Cardinality(old)
      BY <1>5, <2>2
    <3>. QED
      BY <1>2, <1>8, <2>2, <3>1
  <2>. QED
    BY <2>1, <2>2
<1>. QED
  BY <1>2, <1>8, <1>10 DEF longer

-----------------------------------------------------------------------------
(* Part of a set of jewels that fits fits as well.                         *)
LEMMA FewerFit ==
  ASSUME NEW c \in Counts, NEW d \in Counts, NEW s \in Counts,
         AddUpTo(d, c), Fits(c, s)
  PROVE  Fits(d, s)
<1>1. /\ c[1] \in Nat /\ c[2] \in Nat /\ c[3] \in Nat
      /\ d[1] \in Nat /\ d[2] \in Nat /\ d[3] \in Nat
      /\ s[1] \in Nat /\ s[2] \in Nat /\ s[3] \in Nat
  BY DEF Counts
<1>. QED
  BY <1>1 DEF AddUpTo, Fits, Holes

(* What the pruners know is not touched by the Finalizer.                  *)
LEMMA StuffStep ==
  [PlacingNext]_placing_vars => [StuffNext]_stuff_vars
<1>. SUFFICES ASSUME [PlacingNext]_placing_vars PROVE [StuffNext]_stuff_vars
  OBVIOUS
<1>1. ASSUME NEW add \in Fitting(Residual(slots, stuffed)),
             NEW inner \in Fitting(BodyAlignment(body - extra)),
             Choose(add, inner)
      PROVE  StuffNext
  BY <1>1 DEF Choose, StuffNext
<1>. QED
  BY <1>1 DEF PlacingNext, PlacePart, StartJewels, PlaceJewel, StartPop,
              placing_vars, chosen, stuff_vars

(* A jewel of the plan fits beside those handed over before it.            *)
LEMMA PlaceJewelFits ==
  ASSUME PlacingInv, NEW size \in Sizes, PlaceJewel(size)
  PROVE  /\ AddJewel(size)
         /\ AddUpTo(Lens(slots_jewel_'), stuffed)
<1>1. /\ slots_jewel_ \in [Sizes -> Seq(Sizes)]
      /\ phase = "jewels" /\ Lens(slots_part_) = slots
      /\ AddUpTo(Lens(slots_jewel_), stuffed)
      /\ slots \in Counts /\ stuffed \in Counts /\ Fits(stuffed, slots)
      /\ slots_part_' = slots_part_
      /\ slots_jewel_' = [slots_jewel_ EXCEPT ![size] = Append(slots_jewel_[size], size)]
      /\ Len(slots_jewel_[size]) < stuffed[size]
  BY DEF PlacingInv, StuffInv, StuffTypeOK, NeverOverstuffed, IInv, TypeOK, Linked,
         PlaceJewel, PushJewel
<1>2. /\ slots_jewel_' \in [Sizes -> Seq(Sizes)]
      /\ Len(slots_jewel_'[size]) = Len(slots_jewel_[size]) + 1
      /\ \A s \in Sizes : s # size => slots_jewel_'[s] = slots_jewel_[s]
  BY <1>1, AppendLemma
<1>3. /\ stuffed[1] \in Nat /\ stuffed[2] \in Nat /\ stuffed[3] \in Nat
      /\ Len(slots_jewel_[1]) \in Nat /\ Len(slots_jewel_[2]) \in Nat
      /\ Len(slots_jewel_[3]) \in Nat
  BY <1>1, EmptyInNumbers DEF Counts
<1>4. \A s \in Sizes : Len(slots_jewel_[s]) <= stuffed[s]
  BY <1>1 DEF AddUpTo, Lens, Sizes
<1>5. \A s \in Sizes : Len(slots_jewel_'[s]) <= stuffed[s]
  BY <1>1, <1>2, <1>3, <1>4 DEF Sizes
<1>6. AddUpTo(Lens(slots_jewel_'), stuffed)
  BY <1>5 DEF AddUpTo, Lens, Sizes
<1>7. Lens(slots_jewel_') \in Counts
  BY <1>2, LensCounts
<1>. QED
  BY <1>1, <1>6, <1>7, FewerFit DEF AddJewel, PlaceJewel

(* So the Finalizer keeps to what the assigner relies on.                  *)
LEMMA AssignerStep ==
  PlacingInv /\ [PlacingNext]_placing_vars => [Next]_vars
<1>. SUFFICES ASSUME PlacingInv, [PlacingNext]_placing_vars PROVE [Next]_vars
  OBVIOUS
<1>1. ASSUME NEW size \in Sizes, PlaceJewel(size) PROVE Next
  BY <1>1, PlaceJewelFits DEF Next
<1>2. ASSUME NEW free \in 0..3, PlacePart(free) PROVE Next
  BY <1>2 DEF PlacePart, Next
<1>. QED
  BY <1>1, <1>2 DEF PlacingNext, Choose, StartJewels, StartPop, Next,
                    placing_vars, assigner, vars

-----------------------------------------------------------------------------
LEMMA PlacingInitInv == PlacingInit => PlacingInv
  BY StuffInitInv, InitIInv DEF PlacingInit, PlacingInv, Linked, Init

(* Pop moves one jewel of some size from those to place to those placed.   *)
LEMMA PopCounts ==
  ASSUME PlacingInv, Pop, NEW s \in Sizes
  PROVE  Count(placed', s) + Len(slots_jewel_'[s])
           = Count(placed, s) + Len(slots_jewel_[s])
<1>. DEFINE size == NextSize(slots_jewel_, slots_)
            used == UsedSize(slots_part_, size)
            x    == <<Top(slots_part_[used]), size>>
<1>1. /\ slots_part_ \in [Sizes -> Seq(1..Parts)]
      /\ slots_jewel_ \in [Sizes -> Seq(Sizes)]
      /\ slots_ \in 0..3 /\ placed \in Seq((1..Parts) \X Sizes)
      /\ Fits(Lens(slots_jewel_), Lens(slots_part_))
      /\ NoneAbove(slots_jewel_, slots_)
  BY DEF PlacingInv, IInv, TypeOK, RestAlwaysFits, LargerSizesPlaced, Pop
<1>2. /\ size > 0
      /\ slots_jewel_' = TakeJewel(slots_jewel_, size)
      /\ placed' = Append(placed, x)
  BY DEF Pop, CanPop
<1>3. /\ size \in Sizes /\ used \in Sizes
      /\ slots_jewel_[size] # <<>> /\ slots_part_[used] # <<>>
  BY <1>1, <1>2, PopKeepsFitting
<1>. HIDE DEF size, used
<1>4. x \in (1..Parts) \X Sizes /\ x[2] = size
  BY <1>1, <1>3, StackLemma
<1>. HIDE DEF x
<1>5. /\ Count(placed, s) \in Nat
      /\ Count(placed', s) = Count(placed, s) + (IF s = x[2] THEN 1 ELSE 0)
  BY <1>1, <1>2, <1>4, CountAppend
<1>6. /\ Len(slots_jewel_[s]) \in Nat
      /\ Len(slots_jewel_'[s]) = Len(slots_jewel_[s]) - (IF s = size THEN 1 ELSE 0)
  <2>1. slots_jewel_[s] \in Seq(Sizes) /\ Len(slots_jewel_[s]) \in Nat
    BY <1>1
  <2>2. CASE s = size
    <3>1. slots_jewel_'[s] = Rest(slots_jewel_[s])
      BY <1>1, <1>2, <1>3, <2>2 DEF TakeJewel
    <3>2. Len(Rest(slots_jewel_[s])) = Len(slots_jewel_[s]) - 1
      BY <1>3, <2>1, <2>2, StackLemma
    <3>. QED
      BY <2>1, <2>2, <3>1, <3>2
  <2>3. CASE s # size
    <3>1. slots_jewel_'[s] = slots_jewel_[s]
      BY <1>1, <1>2, <1>3, <2>3, TakeJewelLemma
    <3>. QED
      BY <2>1, <2>3, <3>1
  <2>. QED
    BY <2>2, <2>3
<1>. QED
  <2>1. CASE s = size
    BY <1>4, <1>5, <1>6, <2>1
  <2>2. CASE s # size
    BY <1>4, <1>5, <1>6, <2>2
  <2>. QED
    BY <2>1, <2>2

LEMMA LinkedStep == PlacingInv /\ [PlacingNext]_placing_vars => Linked'
<1>. SUFFICES ASSUME PlacingInv, [PlacingNext]_placing_vars PROVE Linked'
  OBVIOUS
<1>1. /\ Linked /\ stage \in 0..MaxStages
      /\ phase = "parts" => slots_jewel_ = Empty
      /\ slots \in Counts /\ stuffed \in Counts
      /\ slots_jewel_ \in [Sizes -> Seq(Sizes)]
  BY DEF PlacingInv, StuffInv, StuffTypeOK, IInv, TypeOK
<1>2. ASSUME NEW add \in Fitting(Residual(slots, stuffed)),
             NEW inner \in Fitting(BodyAlignment(body - extra)),
             Choose(add, inner)
      PROVE  Linked'
  <2>1. stage # MaxStages /\ phase = "parts" /\ phase' = phase /\ placed' = placed
    BY <1>1, <1>2, BoundsAssumption DEF Choose, Prune, assigner, Linked
  <2>. QED
    BY <1>1, <2>1 DEF Linked
<1>3. ASSUME NEW free \in 0..3, PlacePart(free) PROVE Linked'
  BY <1>1, <1>3 DEF Linked, PlacePart, AddPart, chosen
<1>4. CASE StartJewels
  <2>1. /\ phase = "parts" /\ phase' = "jewels" /\ stage' = MaxStages
        /\ Lens(slots_part_) = slots
        /\ UNCHANGED <<slots_part_, slots_jewel_, placed, slots, stuffed>>
    BY <1>4 DEF StartJewels, PartsAdded, chosen
  <2>2. AddUpTo(Lens(slots_jewel_), stuffed)
    BY <1>1, <2>1, EmptyFits DEF AddUpTo, Counts
  <2>. QED
    BY <1>1, <2>1, <2>2 DEF Linked, AddUpTo, Lens
<1>5. ASSUME NEW size \in Sizes, PlaceJewel(size) PROVE Linked'
  <2>1. /\ phase = "jewels" /\ phase' = "jewels" /\ stage' = stage
        /\ UNCHANGED <<slots_part_, placed, slots, stuffed>>
    BY <1>5 DEF PlaceJewel, PushJewel, chosen
  <2>2. AddUpTo(Lens(slots_jewel_'), stuffed)
    BY <1>5, PlaceJewelFits
  <2>. QED
    BY <1>1, <2>1, <2>2 DEF Linked, AddUpTo, Lens
<1>6. CASE StartPop
  <2>1. /\ phase = "jewels" /\ phase' = "pop" /\ stage' = stage
        /\ Lens(slots_jewel_) = stuffed /\ placed = <<>>
        /\ UNCHANGED <<slots_part_, slots_jewel_, placed, slots, stuffed>>
    BY <1>1, <1>6 DEF StartPop, JewelsAdded, chosen, Linked
  <2>2. \A s \in Sizes : Count(placed, s) + Len(slots_jewel_[s]) = stuffed[s]
    <3>1. /\ Len(slots_jewel_[1]) = stuffed[1] /\ Len(slots_jewel_[2]) = stuffed[2]
          /\ Len(slots_jewel_[3]) = stuffed[3]
      BY <2>1 DEF Lens
    <3>2. stuffed[1] \in Nat /\ stuffed[2] \in Nat /\ stuffed[3] \in Nat
      BY <1>1 DEF Counts
    <3>3. \A s \in Sizes : Len(slots_jewel_[s]) = stuffed[s] /\ stuffed[s] \in Nat
      BY <3>1, <3>2 DEF Sizes
    <3>4. \A s \in Sizes : Count(placed, s) = 0
      BY <2>1, CountNothing
    <3>. QED
      BY <3>3, <3>4
  <2>. QED
    BY <1>1, <2>1, <2>2 DEF Linked
<1>7. CASE Pop /\ UNCHANGED chosen
  <2>1. /\ phase = "pop" /\ phase' = "pop" /\ stage' = stage
        /\ stuffed' = stuffed
    BY <1>7 DEF Pop, chosen
  <2>2. \A s \in Sizes : Count(placed', s) + Len(slots_jewel_'[s]) = stuffed[s]
    BY <1>1, <1>7, <2>1, PopCounts DEF Linked
  <2>. QED
    BY <1>1, <2>1, <2>2 DEF Linked
<1>8. CASE PopFails /\ UNCHANGED chosen
  <2>1. /\ phase = "pop" /\ phase' = "done"
        /\ UNCHANGED <<stage, stuffed, slots_jewel_, placed>>
    BY <1>8 DEF PopFails, chosen
  <2>. QED
    BY <1>1, <2>1 DEF Linked
<1>9. CASE UNCHANGED placing_vars
  BY <1>1, <1>9 DEF Linked, placing_vars, chosen, assigner
<1>. QED
  BY <1>2, <1>3, <1>4, <1>5, <1>6, <1>7, <1>8, <1>9 DEF PlacingNext

LEMMA PlacingNextInv == PlacingInv /\ [PlacingNext]_placing_vars => PlacingInv'
<1>. SUFFICES ASSUME PlacingInv, [PlacingNext]_placing_vars PROVE PlacingInv'
  OBVIOUS
<1>1. StuffInv'
  BY StuffStep, StuffNextInv DEF PlacingInv
<1>2. IInv'
  BY AssignerStep, NextIInv DEF PlacingInv
<1>. QED
  BY <1>1, <1>2, LinkedStep DEF PlacingInv

-----------------------------------------------------------------------------
(* What the assigner relies on is what the pruners provide: composed with  *)
(* them, it is only given jewels that fit the parts it was given.          *)
THEOREM FinalizerKeepsToAssigner == PlacingSpec => Spec
<1>1. PlacingInit => Init
  BY DEF PlacingInit
<1>. QED
  BY <1>1, PlacingInitInv, PlacingNextInv, AssignerStep, PTL
     DEF PlacingSpec, Spec

(* The Finalizer shows every jewel the pruners chose, and no other.        *)
THEOREM ShownIsChosen == PlacingSpec => []ShownAsChosen
<1>1. PlacingInv => ShownAsChosen
  <2>. SUFFICES ASSUME PlacingInv, phase = "done", NEW size \in Sizes
                PROVE  Count(placed, size) = stuffed[size]
    BY DEF ShownAsChosen
  <2>1. /\ slots_jewel_ = Empty /\ placed \in Seq((1..Parts) \X Sizes)
        /\ Count(placed, size) + Len(slots_jewel_[size]) = stuffed[size]
    BY DEF PlacingInv, IInv, TypeOK, NoJewelDropped, Linked
  <2>2. Len(slots_jewel_[size]) = 0
    BY <2>1 DEF Empty
  <2>3. Count(placed, size) \in Nat
    BY <2>1, CountIsNat
  <2>. QED
    BY <2>1, <2>2, <2>3
<1>. QED
  BY <1>1, PlacingInitInv, PlacingNextInv, PTL DEF PlacingSpec

(* No choice of a slot leaves a jewel of the plan without one.             *)
THEOREM PlanAlwaysFits == PlacingSpec => []RestAlwaysFits
  BY FinalizerKeepsToAssigner, GreedyNeverStuck, PTL

(* No slot of an armor is given to two jewels of the plan.                 *)
THEOREM SlotsUsedOnce == PlacingSpec => []PartsKeepTheirSlots
  BY FinalizerKeepsToAssigner, SlotsAreKept, PTL

(* The Finalizer leaves alone what the pruners know of the tree.           *)
LEMMA PlacingStuffs == PlacingSpec => StuffSpec
<1>1. PlacingInit => StuffInit
  BY DEF PlacingInit
<1>. QED
  BY <1>1, StuffStep, PTL DEF PlacingSpec, StuffSpec

(* The jewels chosen by all pruners together fit the slots of the tree.    *)
THEOREM ChosenAlwaysFit == PlacingSpec => []NeverOverstuffed
  BY PlacingStuffs, SlotsNeverOverstuffed, PTL

(* What is left of the slots is never negative, at any pruner.             *)
THEOREM ResidualStaysReal == PlacingSpec => []ResidualIsReal
  BY PlacingStuffs, ResidualAlwaysReal, PTL

-----------------------------------------------------------------------------
(* Sums of jewel keys.                                                     *)

(* A key with bytes for n effects.                                         *)
ByteKeys(n) == [b0 : Byte, b1 : Byte, b2 : Byte, pts : [1..n -> Byte]]

(* A sum or a product in a byte is a byte.                                 *)
LEMMA BytesStay ==
  /\ \A a, b \in Byte : a + b \in Int /\ Char8(a + b) \in Byte
  /\ \A a \in Byte : \A m \in Int : Char8(a * m) \in Byte
<1>1. \A v \in Int : Char8(v) \in Byte
  BY DEF Char8, Byte
<1>2. \A a, b \in Byte : a + b \in Int
  BY DEF Byte
<1>3. \A a \in Byte : \A m \in Int : a * m \in Int
  BY DEF Byte
<1>. QED
  BY <1>1, <1>2, <1>3, Zenon

(* The sum of two keys is one.                                             *)
LEMMA SumIsByteKey ==
  ASSUME NEW n, NEW x \in ByteKeys(n), NEW y \in ByteKeys(n)
  PROVE  x ++ y \in ByteKeys(n)
<1>1. /\ x.b0 \in Byte /\ x.b1 \in Byte /\ x.b2 \in Byte
      /\ y.b0 \in Byte /\ y.b1 \in Byte /\ y.b2 \in Byte
      /\ x.pts \in [1..n -> Byte] /\ y.pts \in [1..n -> Byte]
  BY DEF ByteKeys
<1>2. AddPts(x.pts, y.pts) \in [1..n -> Byte]
  <2>1. \A e \in 1..n : Char8(x.pts[e] + y.pts[e]) \in Byte
    BY <1>1, BytesStay
  <2>2. DOMAIN x.pts = 1..n
    BY <1>1
  <2>. QED
    BY <2>1, <2>2 DEF AddPts
<1>3. /\ Char8(x.b0 + y.b0) \in Byte /\ Char8(x.b1 + y.b1) \in Byte
      /\ Char8(x.b2 + y.b2) \in Byte
  BY <1>1, BytesStay
<1>. QED
  BY <1>2, <1>3 DEF ByteKeys, ++

LEMMA ZeroIsByteKey == ASSUME NEW n PROVE ZeroKey(n) \in ByteKeys(n)
  BY DEF ZeroKey, ZeroPts, ByteKeys, Byte

(* Products of sets of keys are sets of keys.                              *)
LEMMA ProductIsByteKeys ==
  ASSUME NEW n, NEW a \in SUBSET ByteKeys(n), NEW b \in SUBSET ByteKeys(n)
  PROVE  SetProduct(a, b) \in SUBSET ByteKeys(n)
  BY SumIsByteKey DEF SetProduct

(* f is made from zero by one product after the other, up to k of them.    *)
SumsBy(f, zero, keys, k) ==
  f = [m \in 0..k |-> IF m = 0 THEN {zero} ELSE SetProduct(f[m - 1], keys)]

(* The recursive definition of SumsOf defines a function, of sums of which *)
(* T[m] has those of m keys.                                               *)
LEMMA SumsWithin ==
  ASSUME NEW n, NEW zero \in ByteKeys(n), NEW keys \in SUBSET ByteKeys(n), NEW k \in Nat,
         NEW T, zero \in T[0],
         \A m \in 1..k : \A x \in T[m - 1], y \in keys : x \in ByteKeys(n) => x ++ y \in T[m]
  PROVE  SumsOf(zero, keys, k) \in SUBSET (ByteKeys(n) \cap T[k])
<1>. DEFINE S == [m \in 0..k |-> SUBSET (ByteKeys(n) \cap T[m])]
            step == [mx \in (1..k) \X SUBSET ByteKeys(n) |-> SetProduct(mx[2], keys)]
            base == {zero}
            g == CHOOSE f : SumsBy(f, zero, keys, k)
<1>1. base \in S[0]
  OBVIOUS
<1>2. ASSUME NEW m \in 1..k, NEW X \in S[m - 1]
      PROVE  /\ X \in SUBSET ByteKeys(n) /\ step[<<m, X>>] = SetProduct(X, keys)
             /\ step[<<m, X>>] \in S[m]
  <2>1. m - 1 \in 0..k /\ m \in 0..k
    OBVIOUS
  <2>2. X \in SUBSET (ByteKeys(n) \cap T[m - 1])
    BY <2>1
  <2>3. X \in SUBSET ByteKeys(n) /\ \A x \in X : x \in T[m - 1] /\ x \in ByteKeys(n)
    BY <2>2
  <2>4. step[<<m, X>>] = SetProduct(X, keys)
    BY <2>3
  <2>5. SetProduct(X, keys) \in SUBSET ByteKeys(n)
    BY <2>3, ProductIsByteKeys
  <2>6. \A z \in SetProduct(X, keys) : z \in T[m]
    BY <2>3 DEF SetProduct
  <2>7. SetProduct(X, keys) \in SUBSET (ByteKeys(n) \cap T[m])
    BY <2>5, <2>6
  <2>8. SetProduct(X, keys) \in S[m]
    BY <2>1, <2>7
  <2>. HIDE DEF step, S
  <2>. QED
    BY <2>3, <2>4, <2>8
<1>3. S[k] = SUBSET (ByteKeys(n) \cap T[k])
  OBVIOUS
<1>. HIDE DEF S, step, base
<1>4. PICK f : FunctionUpTo(f, k) /\ Steps(f, k, base, step) /\ Within(f, k, S)
  BY <1>1, <1>2, RecursionExists
<1>5. SumsBy(f, zero, keys, k)
  <2>1. ASSUME NEW m \in 0..k
        PROVE  f[m] = IF m = 0 THEN {zero} ELSE SetProduct(f[m - 1], keys)
    <3>1. CASE m = 0
      BY <1>4, <3>1, Zenon DEF Steps, base
    <3>2. CASE m # 0
      <4>1. m \in 1..k /\ m - 1 \in 0..k
        BY <3>2
      <4>2. f[m] = step[<<m, f[m - 1]>>] /\ f[m - 1] \in S[m - 1]
        BY <1>4, <4>1, Zenon DEF Steps, Within
      <4>. QED
        BY <1>2, <3>2, <4>1, <4>2, Zenon
    <3>. QED
      BY <3>1, <3>2
  <2>. QED
    BY <1>4, <2>1, Zenon DEF SumsBy, FunctionUpTo
<1>6. SumsBy(g, zero, keys, k)
  BY <1>5, Zenon
<1>7. SumsOf(zero, keys, k) = g[k]
  BY DEF SumsOf, SumsBy
<1>. HIDE DEF g
<1>8. g[0] = base /\ \A m \in 1..k : g[m] = SetProduct(g[m - 1], keys)
  <2>1. 0 \in 0..k /\ \A m \in 1..k : m \in 0..k /\ m # 0
    OBVIOUS
  <2>. QED
    BY <1>6, <2>1, Zenon DEF SumsBy, base
<1>9. \A m \in 1..k : g[m - 1] \in S[m - 1] => g[m] = step[<<m, g[m - 1]>>]
  BY <1>2, <1>8
<1>10. \A m \in 1..k : \A x \in S[m - 1] : step[<<m, x>>] \in S[m]
  BY <1>2
<1>11. g[0] \in S[0]
  BY <1>1, <1>8
<1>12. \A m \in 0..k : g[m] \in S[m]
  BY <1>9, <1>10, <1>11, RecursionWithin
<1>. QED
  BY <1>3, <1>7, <1>12

-----------------------------------------------------------------------------
(***************************************************************************)
(* What the bytes of a sum of jewels say: c counts the jewels in the slots *)
(* of the parts and d those in a body that counts m times.                 *)
(***************************************************************************)
NoJewels == <<0, 0, 0>>

(* The holes the jewels fill, those of the body as often as it counts.     *)
Weight(c, d, m) == Holes(c) + m * Holes(d)

(* The counts that no field of the header is too small for.                *)
Roomy(c, d, m) == Weight(c, d, m) <= 21 /\ c[2] + c[3] <= 7 /\ Holes(d) <= 3

Header(x, c, d) ==
  /\ x.b0 = c[1]
  /\ x.b1 = c[2] + 16 * c[3]
  /\ x.b2 = 8 * d[1] + 32 * d[2] + 64 * d[3]

Counted(n, x, c, d, m) ==
  /\ x \in ByteKeys(n)
  /\ Header(x, c, d)
  /\ \A e \in 1..n : x.pts[e] \in (-2 * Weight(c, d, m))..(2 * Weight(c, d, m))

LEMMA CountFields ==
  ASSUME NEW c \in Counts
  PROVE  /\ c[1] \in Nat /\ c[2] \in Nat /\ c[3] \in Nat /\ c = <<c[1], c[2], c[3]>>
         /\ Holes(c) \in Nat
         /\ c[1] <= Holes(c) /\ 2 * c[2] <= Holes(c) /\ 3 * c[3] <= Holes(c)
  BY DEF Counts, Holes

LEMMA WeightIs ==
  ASSUME NEW c \in Counts, NEW d \in Counts, NEW m \in Nat
  PROVE  /\ Weight(c, d, m) \in Nat /\ Holes(c) <= Weight(c, d, m)
         /\ m >= 1 => Holes(d) <= Weight(c, d, m)
<1>. DEFINE h == Holes(c)
            g == Holes(d)
<1>1. h \in Nat /\ g \in Nat
  BY CountFields
<1>. HIDE DEF h, g
<1>2. m * g \in Nat /\ (m >= 1 => g <= m * g)
  <2>1. m * g \in Nat
    BY <1>1
  <2>2. ASSUME m >= 1 PROVE g <= m * g
    <3>1. m * g = g + (m - 1) * g /\ (m - 1) * g \in Nat
      BY <1>1, <2>2
    <3>. QED
      BY <1>1, <3>1
  <2>. QED
    BY <2>1, <2>2
<1>3. Weight(c, d, m) = h + m * g
  BY DEF Weight, h, g
<1>. QED
  BY <1>1, <1>2, <1>3 DEF h, g

(* A sum that stays below 128 is not changed.                              *)
LEMMA NoCarry == ASSUME NEW v \in -128..127 PROVE Char8(v) = v
  BY DEF Char8

LEMMA OnesAdd ==
  ASSUME NEW p \in Nat, NEW q \in Nat, p + q <= 21
  PROVE  Char8(p + q) = p + q
  BY DEF Char8

(* Counts add up, and so do their weights.                                 *)
LEMMA PlusCounts ==
  ASSUME NEW a \in Counts, NEW b \in Counts
  PROVE  /\ Plus(a, b) \in Counts
         /\ Plus(a, b)[1] = a[1] + b[1] /\ Plus(a, b)[2] = a[2] + b[2]
         /\ Plus(a, b)[3] = a[3] + b[3]
         /\ Holes(Plus(a, b)) = Holes(a) + Holes(b)
  BY DEF Counts, Holes, Plus

LEMMA PlusWeight ==
  ASSUME NEW a \in Counts, NEW b \in Counts, NEW c \in Counts, NEW d \in Counts, NEW m \in Nat
  PROVE  Weight(Plus(a, c), Plus(b, d), m) = Weight(a, b, m) + Weight(c, d, m)
<1>. DEFINE h == Holes(b)
            g == Holes(d)
<1>1. /\ Holes(a) \in Nat /\ h \in Nat /\ Holes(c) \in Nat /\ g \in Nat
      /\ Holes(Plus(a, c)) = Holes(a) + Holes(c) /\ Holes(Plus(b, d)) = h + g
  BY CountFields, PlusCounts
<1>. HIDE DEF h, g
<1>2. m * (h + g) = m * h + m * g /\ m * h \in Nat /\ m * g \in Nat
  BY <1>1
<1>3. /\ Weight(a, b, m) = Holes(a) + m * h
      /\ Weight(c, d, m) = Holes(c) + m * g
      /\ Weight(Plus(a, c), Plus(b, d), m) = Holes(a) + Holes(c) + m * (h + g)
  BY <1>1 DEF Weight, h, g
<1>. QED
  BY <1>1, <1>2, <1>3

(* No jewels.                                                              *)
LEMMA NoneCounted ==
  ASSUME NEW n, NEW m \in Nat
  PROVE  NoJewels \in Counts /\ Holes(NoJewels) = 0 /\ Counted(n, ZeroKey(n), NoJewels, NoJewels, m)
<1>1. NoJewels \in Counts /\ Holes(NoJewels) = 0
  BY DEF NoJewels, Counts, Holes
<1>2. Weight(NoJewels, NoJewels, m) = 0
  BY <1>1 DEF Weight
<1>3. /\ ZeroKey(n).b0 = 0 /\ ZeroKey(n).b1 = 0 /\ ZeroKey(n).b2 = 0
      /\ \A e \in 1..n : ZeroKey(n).pts[e] = 0
  BY DEF ZeroKey, ZeroPts
<1>4. NoJewels[1] = 0 /\ NoJewels[2] = 0 /\ NoJewels[3] = 0
  BY DEF NoJewels
<1>5. Header(ZeroKey(n), NoJewels, NoJewels)
  BY <1>3, <1>4 DEF Header
<1>6. \A e \in 1..n : ZeroKey(n).pts[e] \in (-2 * 0)..(2 * 0)
  BY <1>3
<1>. QED
  BY <1>1, <1>2, <1>5, <1>6, ZeroIsByteKey DEF Counted

(* Sums that no field is too small for are added byte by byte.             *)
LEMMA SumCounted ==
  ASSUME NEW n, NEW x, NEW y, NEW a \in Counts, NEW b \in Counts,
         NEW c \in Counts, NEW d \in Counts, NEW m \in Nat \ {0},
         Counted(n, x, a, b, m), Counted(n, y, c, d, m),
         Roomy(Plus(a, c), Plus(b, d), m)
  PROVE  Counted(n, x ++ y, Plus(a, c), Plus(b, d), m)
<1>. DEFINE v == Weight(a, b, m)
            w == Weight(c, d, m)
            u == Weight(Plus(a, c), Plus(b, d), m)
<1>1. v \in Nat /\ w \in Nat /\ u = v + w /\ u <= 21
  BY WeightIs, PlusWeight DEF Roomy
<1>2. /\ a[1] \in Nat /\ a[2] \in Nat /\ a[3] \in Nat /\ b[1] \in Nat /\ b[2] \in Nat /\ b[3] \in Nat
      /\ c[1] \in Nat /\ c[2] \in Nat /\ c[3] \in Nat /\ d[1] \in Nat /\ d[2] \in Nat /\ d[3] \in Nat
  BY CountFields
<1>3. /\ Plus(a, c)[1] = a[1] + c[1] /\ Plus(a, c)[2] = a[2] + c[2] /\ Plus(a, c)[3] = a[3] + c[3]
      /\ Plus(b, d)[1] = b[1] + d[1] /\ Plus(b, d)[2] = b[2] + d[2] /\ Plus(b, d)[3] = b[3] + d[3]
  BY PlusCounts
<1>4. a[1] + c[1] <= 21
  <2>1. Plus(a, c) \in Counts /\ Plus(b, d) \in Counts
    BY PlusCounts
  <2>2. Plus(a, c)[1] <= Holes(Plus(a, c)) /\ Holes(Plus(a, c)) <= u /\ Holes(Plus(a, c)) \in Nat
    BY <2>1, CountFields, WeightIs
  <2>. HIDE DEF u
  <2>. QED
    BY <1>1, <1>2, <1>3, <2>2
<1>5. a[2] + c[2] + a[3] + c[3] <= 7
  BY <1>2, <1>3 DEF Roomy
<1>6. (b[1] + d[1]) + 2 * (b[2] + d[2]) + 3 * (b[3] + d[3]) <= 3
  BY <1>3 DEF Roomy, Holes
<1>7. /\ x.b0 = a[1] /\ x.b1 = a[2] + 16 * a[3] /\ x.b2 = 8 * b[1] + 32 * b[2] + 64 * b[3]
      /\ y.b0 = c[1] /\ y.b1 = c[2] + 16 * c[3] /\ y.b2 = 8 * d[1] + 32 * d[2] + 64 * d[3]
  BY DEF Counted, Header
<1>11. /\ x \in ByteKeys(n) /\ y \in ByteKeys(n)
       /\ \A e \in 1..n : x.pts[e] \in (-2 * v)..(2 * v)
       /\ \A e \in 1..n : y.pts[e] \in (-2 * w)..(2 * w)
  BY DEF Counted
<1>. HIDE DEF v, w, u
<1>8. /\ (x ++ y).b0 = Char8(x.b0 + y.b0) /\ (x ++ y).b1 = Char8(x.b1 + y.b1)
      /\ (x ++ y).b2 = Char8(x.b2 + y.b2) /\ (x ++ y).pts = AddPts(x.pts, y.pts)
  BY DEF ++
<1>9. Header(x ++ y, Plus(a, c), Plus(b, d))
  <2>1. Char8(x.b0 + y.b0) = a[1] + c[1]
    <3>1. Char8(a[1] + c[1]) = a[1] + c[1]
      BY <1>2, <1>4, OnesAdd
    <3>. QED
      BY <1>7, <3>1, Zenon
  <2>2. Char8(x.b1 + y.b1) = (a[2] + c[2]) + 16 * (a[3] + c[3])
    <3>. DEFINE p == a[2]
                q == a[3]
                r == c[2]
                s == c[3]
    <3>1. p \in Nat /\ q \in Nat /\ r \in Nat /\ s \in Nat /\ p + r + q + s <= 7
      BY <1>2, <1>5
    <3>2. x.b1 = p + 16 * q /\ y.b1 = r + 16 * s
      BY <1>7
    <3>. HIDE DEF p, q, r, s
    <3>. DEFINE total == (p + 16 * q) + (r + 16 * s)
    <3>3. total = (p + r) + 16 * (q + s) /\ total \in -128..127
      BY <3>1
    <3>4. x.b1 + y.b1 = total
      BY <3>2
    <3>. HIDE DEF total
    <3>5. Char8(x.b1 + y.b1) = (p + r) + 16 * (q + s)
      BY <3>3, <3>4, NoCarry
    <3>. QED
      BY <3>5 DEF p, q, r, s
  <2>3. Char8(x.b2 + y.b2) = 8 * (b[1] + d[1]) + 32 * (b[2] + d[2]) + 64 * (b[3] + d[3])
    <3>. DEFINE p == b[1]
                q == b[2]
                r == b[3]
                s == d[1]
                t == d[2]
                o == d[3]
    <3>1. /\ p \in Nat /\ q \in Nat /\ r \in Nat /\ s \in Nat /\ t \in Nat /\ o \in Nat
          /\ (p + s) + 2 * (q + t) + 3 * (r + o) <= 3
      BY <1>2, <1>6
    <3>2. x.b2 = 8 * p + 32 * q + 64 * r /\ y.b2 = 8 * s + 32 * t + 64 * o
      BY <1>7
    <3>. HIDE DEF p, q, r, s, t, o
    <3>. DEFINE total == (8 * p + 32 * q + 64 * r) + (8 * s + 32 * t + 64 * o)
    <3>3. total = 8 * (p + s) + 32 * (q + t) + 64 * (r + o) /\ total \in -128..127
      BY <3>1
    <3>4. x.b2 + y.b2 = total
      BY <3>2
    <3>. HIDE DEF total
    <3>5. Char8(x.b2 + y.b2) = 8 * (p + s) + 32 * (q + t) + 64 * (r + o)
      BY <3>3, <3>4, NoCarry
    <3>. QED
      BY <3>5 DEF p, q, r, s, t, o
  <2>. QED
    BY <1>3, <1>8, <2>1, <2>2, <2>3 DEF Header
<1>10. ASSUME NEW e \in 1..n PROVE (x ++ y).pts[e] \in (-2 * u)..(2 * u)
  <2>1. (x ++ y).pts[e] = Char8(x.pts[e] + y.pts[e])
    <3>1. DOMAIN x.pts = 1..n
      BY <1>11 DEF ByteKeys
    <3>. QED
      BY <1>8, <3>1 DEF AddPts
  <2>. DEFINE s == x.pts[e]
              t == y.pts[e]
  <2>2. s \in (-2 * v)..(2 * v) /\ t \in (-2 * w)..(2 * w)
    BY <1>11
  <2>. HIDE DEF s, t
  <2>3. s + t \in (-2 * u)..(2 * u) /\ s + t \in -128..127
    BY <1>1, <2>2
  <2>4. Char8(s + t) = s + t
    BY <2>3 DEF Char8
  <2>. QED
    BY <2>1, <2>3, <2>4 DEF s, t
<1>. QED
  BY <1>11, <1>9, <1>10, SumIsByteKey DEF Counted, u

(* The jewels that a body has room for.                                    *)
LEMMA FewJewels ==
  ASSUME NEW d \in Counts, Holes(d) <= 3
  PROVE  /\ Holes(d) \in 0..3 /\ Holes(d) = d[1] + 2 * d[2] + 3 * d[3]
         /\ d[1] \in 0..3 /\ d[2] \in 0..1 /\ d[3] \in 0..1
         /\ d[2] = 1 => d[1] \in 0..1 /\ d[3] = 0
         /\ d[3] = 1 => d[1] = 0 /\ d[2] = 0
<1>. DEFINE h == Holes(d)
            p == d[1]
            q == d[2]
            r == d[3]
<1>1. p \in Nat /\ q \in Nat /\ r \in Nat /\ h \in Nat /\ h <= 3
  BY CountFields
<1>2. h = p + 2 * q + 3 * r
  BY DEF Holes
<1>. HIDE DEF h, p, q, r
<1>3. /\ h \in 0..3 /\ p \in 0..3 /\ q \in 0..1 /\ r \in 0..1
      /\ q = 1 => p \in 0..1 /\ r = 0
      /\ r = 1 => p = 0 /\ q = 0
  BY <1>1, <1>2
<1>. QED
  BY <1>2, <1>3 DEF h, p, q, r

(* The jewels of a body, which counts m times.                             *)
LEMMA RefactorCounted ==
  ASSUME NEW n, NEW y, NEW d \in Counts, NEW m \in 2..7,
         Counted(n, y, d, NoJewels, m), Holes(d) <= 3
  PROVE  Counted(n, BodyRefactor(y, m), NoJewels, d, m)
<1>. DEFINE h == Holes(d)
            p == d[1]
            q == d[2]
            r == d[3]
            z == BodyRefactor(y, m)
            b2 == Char8(y.b2 + 8 * y.b0 + (IF Twos(y) # 0 THEN 32 ELSE 0)
                                        + (IF Threes(y) # 0 THEN 64 ELSE 0))
<1>1. /\ h \in 0..3 /\ p \in 0..3 /\ q \in 0..1 /\ r \in 0..1
      /\ q = 1 => p \in 0..1 /\ r = 0
      /\ r = 1 => p = 0 /\ q = 0
  BY FewJewels
<1>3. NoJewels[1] = 0 /\ NoJewels[2] = 0 /\ NoJewels[3] = 0 /\ Holes(NoJewels) = 0
  BY DEF NoJewels, Holes
<1>4. Weight(d, NoJewels, m) = h /\ Weight(NoJewels, d, m) = m * h
  BY <1>1, <1>3 DEF Weight
<1>5. /\ y.b0 = p /\ y.b1 = q + 16 * r /\ y.b2 = 0 /\ y \in ByteKeys(n)
      /\ \A e \in 1..n : y.pts[e] \in (-2 * h)..(2 * h)
  BY <1>3, <1>4 DEF Counted, Header
<1>. HIDE DEF h, p, q, r
<1>6. Twos(y) = q /\ Threes(y) = r
  BY <1>1, <1>5 DEF Twos, Threes
<1>7. b2 = 8 * p + 32 * q + 64 * r /\ b2 \in Byte
  <2>. DEFINE v == 8 * p + 32 * q + 64 * r
  <2>1. y.b2 + 8 * y.b0 + (IF Twos(y) # 0 THEN 32 ELSE 0) + (IF Threes(y) # 0 THEN 64 ELSE 0) = v
    BY <1>1, <1>5, <1>6
  <2>2. v \in -128..127
    BY <1>1
  <2>3. b2 = Char8(v)
    BY <2>1, Zenon
  <2>. HIDE DEF v, b2
  <2>4. Char8(v) = v /\ v \in Byte
    BY <2>2, NoCarry DEF Byte
  <2>. QED
    BY <2>3, <2>4 DEF v
<1>8. z = [b0 |-> 0, b1 |-> 0, b2 |-> b2, pts |-> Scale(y.pts, m)]
  BY DEF BodyRefactor
<1>. HIDE DEF z, b2
<1>9. z.b0 = 0 /\ z.b1 = 0 /\ z.b2 = b2 /\ z.pts = Scale(y.pts, m)
  BY <1>8
<1>10. Header(z, NoJewels, d)
  BY <1>3, <1>7, <1>9 DEF Header, p, q, r
<1>11. Scale(y.pts, m) \in [1..n -> Byte]
  <2>1. y.pts \in [1..n -> Byte] /\ m \in Int
    BY <1>5 DEF ByteKeys
  <2>2. \A e \in 1..n : Char8(y.pts[e] * m) \in Byte
    BY <2>1, BytesStay
  <2>. QED
    BY <2>1, <2>2 DEF Scale
<1>12. z \in ByteKeys(n)
  <2>1. 0 \in Byte
    BY DEF Byte
  <2>. QED
    BY <1>7, <1>8, <1>11, <2>1 DEF ByteKeys
<1>13. ASSUME NEW e \in 1..n PROVE z.pts[e] \in (-2 * (m * h))..(2 * (m * h))
  <2>1. DOMAIN y.pts = 1..n
    BY <1>5 DEF ByteKeys
  <2>2. z.pts[e] = Char8(y.pts[e] * m)
    BY <1>9, <2>1 DEF Scale
  <2>. DEFINE s == y.pts[e]
  <2>3. s \in (-2 * h)..(2 * h)
    BY <1>5
  <2>. HIDE DEF s
  <2>4. m = 2 \/ m = 3 \/ m = 4 \/ m = 5 \/ m = 6 \/ m = 7
    OBVIOUS
  <2>5. s * m \in (-2 * (m * h))..(2 * (m * h)) /\ s * m \in -128..127
    BY <1>1, <2>3, <2>4
  <2>6. Char8(s * m) = s * m
    BY <2>5 DEF Char8
  <2>. QED
    BY <2>2, <2>5, <2>6 DEF s
<1>14. Counted(n, z, NoJewels, d, m)
  BY <1>4, <1>10, <1>12, <1>13, Zenon DEF Counted
<1>. QED
  BY <1>14 DEF z

(* k jewels of size s.                                                     *)
OfSize(s, k) == <<IF s = 1 THEN k ELSE 0, IF s = 2 THEN k ELSE 0, IF s = 3 THEN k ELSE 0>>

LEMMA OfSizeIs ==
  ASSUME NEW s \in 1..3, NEW k \in Nat
  PROVE  /\ OfSize(s, k) \in Counts /\ Holes(OfSize(s, k)) = s * k
         /\ OfSize(s, k)[2] + OfSize(s, k)[3] = IF s = 1 THEN 0 ELSE k
         /\ OfSize(s, 0) = NoJewels
         /\ k > 0 => Plus(OfSize(s, k - 1), OfSize(s, 1)) = OfSize(s, k)
<1>1. s = 1 \/ s = 2 \/ s = 3
  OBVIOUS
<1>. QED
  BY <1>1 DEF OfSize, Counts, Holes, NoJewels, Plus

LEMMA NothingMore ==
  /\ NoJewels \in Counts /\ Holes(NoJewels) = 0
  /\ \A c \in Counts : Plus(c, NoJewels) = c /\ Plus(NoJewels, c) = c
  BY DEF NoJewels, Counts, Plus, Holes

(* The keys K of the jewels of each size.                                  *)
JewelsCount(n, K, m) ==
  \A s \in 1..3 : \A y \in K[s] : Counted(n, y, OfSize(s, 1), NoJewels, m)

(* Sums of k jewels of a size.                                             *)
LEMMA SumsCounted ==
  ASSUME NEW n, NEW K, NEW m \in Nat \ {0}, JewelsCount(n, K, m),
         NEW s \in 1..3, NEW k \in Nat, s * k <= 21, s = 1 \/ k <= 7
  PROVE  \A x \in SumsOf(ZeroKey(n), K[s], k) : Counted(n, x, OfSize(s, k), NoJewels, m)
<1>. DEFINE T == [j \in 0..k |-> { x \in ByteKeys(n) : Counted(n, x, OfSize(s, j), NoJewels, m) }]
<1>1. ZeroKey(n) \in ByteKeys(n)
  BY ZeroIsByteKey
<1>2. K[s] \in SUBSET ByteKeys(n)
  BY DEF JewelsCount, Counted
<1>3. ZeroKey(n) \in T[0]
  <2>1. Counted(n, ZeroKey(n), OfSize(s, 0), NoJewels, m)
    <3>1. OfSize(s, 0) = NoJewels
      BY OfSizeIs
    <3>. QED
      BY <3>1, NoneCounted
  <2>2. 0 \in 0..k
    OBVIOUS
  <2>. QED
    BY <1>1, <2>1, <2>2
<1>4. ASSUME NEW j \in 1..k, NEW x \in T[j - 1], NEW y \in K[s]
      PROVE  x ++ y \in T[j]
  <2>1. j - 1 \in 0..k /\ j \in 0..k /\ j \in Nat /\ j - 1 \in Nat /\ j > 0
    OBVIOUS
  <2>2. Counted(n, x, OfSize(s, j - 1), NoJewels, m) /\ x \in ByteKeys(n)
    BY <2>1
  <2>3. Counted(n, y, OfSize(s, 1), NoJewels, m) /\ y \in ByteKeys(n)
    BY DEF JewelsCount, Counted
  <2>4. /\ OfSize(s, j - 1) \in Counts /\ OfSize(s, 1) \in Counts /\ OfSize(s, j) \in Counts
        /\ Plus(OfSize(s, j - 1), OfSize(s, 1)) = OfSize(s, j)
        /\ Holes(OfSize(s, j)) = s * j
        /\ OfSize(s, j)[2] + OfSize(s, j)[3] = IF s = 1 THEN 0 ELSE j
    BY <2>1, OfSizeIs
  <2>5. s * j <= 21 /\ (s = 1 \/ j <= 7)
    <3>1. s = 1 \/ s = 2 \/ s = 3
      OBVIOUS
    <3>. QED
      BY <2>1, <3>1
  <2>6. Plus(NoJewels, NoJewels) = NoJewels /\ NoJewels \in Counts /\ Holes(NoJewels) = 0
    BY NothingMore
  <2>7. Weight(OfSize(s, j), NoJewels, m) = s * j
    BY <2>4, <2>6 DEF Weight
  <2>8. Roomy(OfSize(s, j), NoJewels, m)
    BY <2>4, <2>5, <2>6, <2>7 DEF Roomy
  <2>9. Counted(n, x ++ y, Plus(OfSize(s, j - 1), OfSize(s, 1)), Plus(NoJewels, NoJewels), m)
    BY <2>2, <2>3, <2>4, <2>6, <2>8, SumCounted
  <2>10. x ++ y \in ByteKeys(n)
    BY <2>2, <2>3, SumIsByteKey
  <2>. QED
    BY <2>1, <2>4, <2>6, <2>9, <2>10
<1>5. T[k] = { x \in ByteKeys(n) : Counted(n, x, OfSize(s, k), NoJewels, m) }
  OBVIOUS
<1>. HIDE DEF T
<1>6. SumsOf(ZeroKey(n), K[s], k) \in SUBSET (ByteKeys(n) \cap T[k])
  BY <1>1, <1>2, <1>3, <1>4, SumsWithin
<1>. QED
  BY <1>5, <1>6

(* The slots of a tree, of which the body's are used m times.              *)
Room(S, B, m) ==
  /\ S \in Counts /\ B \in 0..3 /\ m \in 1..7
  /\ Holes(S) + m * B <= 21 /\ S[2] + S[3] <= 7

(* What fits small slots is small.                                         *)
LEMMA FittingIsSmall ==
  ASSUME NEW S \in Counts, Holes(S) <= 21, S[2] + S[3] <= 7, NEW c \in Counts, Fits(c, S)
  PROVE  /\ c[1] \in Nat /\ c[2] \in Nat /\ c[3] \in Nat
         /\ Holes(c) <= 21 /\ c[2] + c[3] <= 7
         /\ c[1] <= 21 /\ 2 * c[2] <= 21 /\ 3 * c[3] <= 21
         /\ Plus(Plus(OfSize(1, c[1]), OfSize(2, c[2])), OfSize(3, c[3])) = c
         /\ Holes(Plus(OfSize(1, c[1]), OfSize(2, c[2]))) <= 21
         /\ Plus(OfSize(1, c[1]), OfSize(2, c[2]))[2]
              + Plus(OfSize(1, c[1]), OfSize(2, c[2]))[3] <= 7
<1>1. c[1] \in Nat /\ c[2] \in Nat /\ c[3] \in Nat /\ c = <<c[1], c[2], c[3]>>
  BY CountFields
<1>2. Holes(c) <= Holes(S) /\ c[2] + c[3] <= S[2] + S[3]
  BY DEF Fits
<1>3. Holes(c) <= 21 /\ c[2] + c[3] <= 7
  BY <1>2 DEF Counts, Holes
<1>4. PICK p \in Nat, q \in Nat, r \in Nat : c = <<p, q, r>>
  BY DEF Counts
<1>5. p + 2 * q + 3 * r <= 21 /\ q + r <= 7
  BY <1>3, <1>4 DEF Holes
<1>6. /\ Plus(Plus(OfSize(1, p), OfSize(2, q)), OfSize(3, r)) = <<p, q, r>>
      /\ Plus(OfSize(1, p), OfSize(2, q)) = <<p, q, 0>>
  BY DEF OfSize, Plus
<1>7. p <= 21 /\ 2 * q <= 21 /\ 3 * r <= 21 /\ p + 2 * q <= 21 /\ q <= 7
  BY <1>5
<1>8. Holes(<<p, q, 0>>) = p + 2 * q
  BY DEF Holes
<1>. QED
  BY <1>1, <1>3, <1>4, <1>6, <1>7, <1>8

(* No field is too small for what fits a tree.                             *)
LEMMA FitsAreRoomy ==
  ASSUME NEW S \in Counts, NEW B \in 0..3, NEW m \in 1..7,
         Holes(S) + m * B <= 21, S[2] + S[3] <= 7,
         NEW c \in Counts, NEW d \in Counts, Fits(c, S), Holes(d) <= B
  PROVE  Roomy(c, d, m)
<1>. DEFINE h == Holes(S)
            g == Holes(c)
            b == Holes(d)
<1>1. h \in Nat /\ g \in Nat /\ b \in Nat
  BY CountFields
<1>2. g <= h /\ c[2] + c[3] <= S[2] + S[3]
  BY DEF Fits
<1>3. c[2] + c[3] <= 7
  BY <1>2 DEF Counts
<1>4. b \in 0..3 /\ h + m * B <= 21 /\ b <= B
  BY <1>1
<1>. HIDE DEF h, g, b
<1>5. m = 1 \/ m = 2 \/ m = 3 \/ m = 4 \/ m = 5 \/ m = 6 \/ m = 7
  OBVIOUS
<1>6. g + m * b <= 21
  BY <1>1, <1>2, <1>4, <1>5
<1>. QED
  BY <1>3, <1>4, <1>6 DEF Roomy, Weight, g, b

(* What the slots other than a body's are stuffed with.                    *)
LEMMA StuffedCounted ==
  ASSUME NEW n, NEW K, NEW m \in Nat \ {0}, JewelsCount(n, K, m),
         NEW S \in Counts, Holes(S) <= 21, S[2] + S[3] <= 7,
         NEW x \in Stuffed(ZeroKey(n), K, S)
  PROVE  \E c \in Counts : Fits(c, S) /\ Counted(n, x, c, NoJewels, m)
<1>1. PICK c \in Fitting(S) :
        x \in SetProduct(SetProduct(SumsOf(ZeroKey(n), K[1], c[1]),
                                    SumsOf(ZeroKey(n), K[2], c[2])),
                         SumsOf(ZeroKey(n), K[3], c[3]))
  BY DEF Stuffed
<1>2. PICK x1 \in SumsOf(ZeroKey(n), K[1], c[1]), x2 \in SumsOf(ZeroKey(n), K[2], c[2]),
           x3 \in SumsOf(ZeroKey(n), K[3], c[3]) : x = (x1 ++ x2) ++ x3
  BY <1>1 DEF SetProduct
<1>3. c \in Counts /\ Fits(c, S)
  BY FittingCounts
<1>. DEFINE c1 == OfSize(1, c[1])
            c2 == OfSize(2, c[2])
            c3 == OfSize(3, c[3])
<1>4. /\ c[1] \in Nat /\ c[2] \in Nat /\ c[3] \in Nat
      /\ Holes(c) <= 21 /\ c[2] + c[3] <= 7
      /\ c[1] <= 21 /\ 2 * c[2] <= 21 /\ 3 * c[3] <= 21
      /\ Plus(Plus(c1, c2), c3) = c
      /\ Holes(Plus(c1, c2)) <= 21 /\ Plus(c1, c2)[2] + Plus(c1, c2)[3] <= 7
  BY <1>3, FittingIsSmall
<1>5. 1 * c[1] <= 21 /\ c[2] <= 7 /\ c[3] <= 7 /\ 1 \in 1..3 /\ 2 \in 1..3 /\ 3 \in 1..3
  BY <1>4
<1>6. /\ Counted(n, x1, c1, NoJewels, m)
      /\ Counted(n, x2, c2, NoJewels, m)
      /\ Counted(n, x3, c3, NoJewels, m)
  BY <1>2, <1>4, <1>5, SumsCounted
<1>7. c1 \in Counts /\ c2 \in Counts /\ c3 \in Counts
  BY <1>4, <1>5, OfSizeIs
<1>. HIDE DEF c1, c2, c3
<1>8. /\ NoJewels \in Counts /\ Holes(NoJewels) = 0 /\ Plus(NoJewels, NoJewels) = NoJewels
      /\ Plus(c1, c2) \in Counts
  BY <1>7, NothingMore, PlusCounts
<1>9. ASSUME NEW v \in Counts, Holes(v) <= 21, v[2] + v[3] <= 7 PROVE Roomy(v, NoJewels, m)
  <2>1. Weight(v, NoJewels, m) = Holes(v)
    <3>1. Holes(v) \in Nat
      BY CountFields
    <3>. QED
      BY <1>8, <3>1 DEF Weight
  <2>. QED
    BY <1>8, <1>9, <2>1 DEF Roomy
<1>10. Roomy(Plus(c1, c2), NoJewels, m) /\ Roomy(Plus(Plus(c1, c2), c3), NoJewels, m)
  BY <1>3, <1>4, <1>8, <1>9
<1>11. Counted(n, x1 ++ x2, Plus(c1, c2), NoJewels, m)
  BY <1>6, <1>7, <1>8, <1>10, SumCounted
<1>12. Counted(n, (x1 ++ x2) ++ x3, Plus(Plus(c1, c2), c3), NoJewels, m)
  BY <1>6, <1>7, <1>8, <1>10, <1>11, SumCounted
<1>. QED
  BY <1>2, <1>3, <1>4, <1>12

(* And with a body that counts more than once.                             *)
LEMMA BodyStuffedCounted ==
  ASSUME NEW n, NEW K, NEW S, NEW B, NEW m, Room(S, B, m), JewelsCount(n, K, m),
         NEW x \in BodyStuffed(ZeroKey(n), K, S, B, m)
  PROVE  \E c \in Counts, d \in Counts :
           Fits(c, S) /\ Holes(d) <= B /\ Counted(n, x, c, d, m)
<1>. DEFINE h == Holes(S)
<1>1. S \in Counts /\ B \in 0..3 /\ m \in 1..7 /\ h + m * B <= 21 /\ S[2] + S[3] <= 7 /\ h \in Nat
  BY CountFields DEF Room
<1>. HIDE DEF h
<1>2. m = 1 \/ m = 2 \/ m = 3 \/ m = 4 \/ m = 5 \/ m = 6 \/ m = 7
  BY <1>1
<1>3. h <= 21 /\ m \in Nat \ {0} /\ h + m * B \in Nat
  BY <1>1, <1>2
<1>4. Holes(S) <= 21
  BY <1>3 DEF h
<1>5. NoJewels \in Counts /\ Holes(NoJewels) = 0
  BY NothingMore
<1>6. CASE m < 2 \/ B = 0
  <2>1. x \in Stuffed(ZeroKey(n), K, S)
    BY <1>6 DEF BodyStuffed
  <2>2. PICK c \in Counts : Fits(c, S) /\ Counted(n, x, c, NoJewels, m)
    BY <1>1, <1>3, <1>4, <2>1, StuffedCounted
  <2>. QED
    BY <1>1, <1>5, <2>2
<1>7. CASE ~(m < 2 \/ B = 0)
  <2>1. m \in 2..7 /\ B \in 1..3
    BY <1>1, <1>7
  <2>2. PICK y \in Stuffed(ZeroKey(n), K, S), z \in Stuffed(ZeroKey(n), K, OneSlot(B)) :
          x = y ++ BodyRefactor(z, m)
    BY <1>7 DEF BodyStuffed
  <2>3. PICK c \in Counts : Fits(c, S) /\ Counted(n, y, c, NoJewels, m)
    BY <1>1, <1>3, <1>4, StuffedCounted
  <2>4. OneSlot(B) \in Counts /\ Holes(OneSlot(B)) = B /\ OneSlot(B)[2] + OneSlot(B)[3] <= 7
    <3>1. B = 1 \/ B = 2 \/ B = 3
      BY <2>1
    <3>. QED
      BY <3>1 DEF OneSlot, Counts, Holes
  <2>5. PICK d \in Counts : Fits(d, OneSlot(B)) /\ Counted(n, z, d, NoJewels, m)
    <3>1. Holes(OneSlot(B)) <= 21
      BY <2>1, <2>4
    <3>. QED
      BY <1>3, <2>4, <3>1, StuffedCounted
  <2>6. Holes(d) <= B /\ Holes(d) \in Nat /\ Holes(d) <= 3
    <3>1. Holes(d) \in Nat
      BY CountFields
    <3>. QED
      BY <2>1, <2>4, <2>5, <3>1 DEF Fits
  <2>7. Counted(n, BodyRefactor(z, m), NoJewels, d, m)
    BY <2>1, <2>5, <2>6, RefactorCounted
  <2>8. Plus(c, NoJewels) = c /\ Plus(NoJewels, d) = d
    BY NothingMore
  <2>9. Roomy(c, d, m)
    BY <1>1, <2>3, <2>6, FitsAreRoomy DEF h
  <2>10. Counted(n, y ++ BodyRefactor(z, m), Plus(c, NoJewels), Plus(NoJewels, d), m)
    BY <1>3, <1>5, <2>3, <2>7, <2>8, <2>9, SumCounted
  <2>. QED
    BY <2>2, <2>3, <2>6, <2>8, <2>10
<1>. QED
  BY <1>6, <1>7

(* x is a sum of jewels for the slots S and a body with B holes.           *)
Stuffs(n, x, S, B, m) ==
  \E c \in Counts, d \in Counts : Fits(c, S) /\ Holes(d) <= B /\ Counted(n, x, c, d, m)

(* The fields of a key read back the jewels it is a sum of.                *)
LEMMA CountedTells ==
  ASSUME NEW n, NEW x, NEW c \in Counts, NEW d \in Counts, NEW m,
         Counted(n, x, c, d, m), Roomy(c, d, m)
  PROVE  <<Ones(x), Twos(x), Threes(x)>> = c /\ BodySlotSum(x) = Holes(d)
<1>. DEFINE h == Holes(d)
            p == d[1]
            q == d[2]
            r == d[3]
<1>1. /\ h \in 0..3 /\ p \in 0..3 /\ q \in 0..1 /\ r \in 0..1
      /\ q = 1 => p \in 0..1 /\ r = 0
      /\ r = 1 => p = 0 /\ q = 0
      /\ h = p + 2 * q + 3 * r
  BY FewJewels DEF Roomy
<1>2. x.b0 = c[1] /\ x.b1 = c[2] + 16 * c[3] /\ x.b2 = 8 * p + 32 * q + 64 * r
  BY DEF Counted, Header
<1>. HIDE DEF h, p, q, r
<1>3. Ones(x) = c[1] /\ Twos(x) = c[2] /\ Threes(x) = c[3] /\ c = <<c[1], c[2], c[3]>>
  <2>. DEFINE u == c[2]
              v == c[3]
  <2>1. u \in Nat /\ v \in Nat /\ u + v <= 7 /\ c = <<c[1], u, v>>
    BY CountFields DEF Roomy
  <2>2. x.b1 = u + 16 * v
    BY <1>2
  <2>. HIDE DEF u, v
  <2>3. (u + 16 * v) % 16 = u /\ (u + 16 * v) \div 16 = v
    BY <2>1
  <2>4. Twos(x) = u /\ Threes(x) = v
    BY <2>2, <2>3 DEF Twos, Threes
  <2>. QED
    BY <1>2, <2>1, <2>4 DEF Ones, u, v
<1>4. BodySlotSum(x) = h
  <2>1. BodyOnes(x) = p /\ BodyTwos(x) = q /\ BodyThrees(x) = r
    BY <1>1, <1>2 DEF BodyOnes, BodyTwos, BodyThrees
  <2>. QED
    BY <1>1, <2>1 DEF BodySlotSum
<1>. QED
  BY <1>3, <1>4 DEF h

(* What is stuffed into what GetResidual leaves.                           *)
LEMMA MoreStuffs ==
  ASSUME NEW n, NEW K, NEW S, NEW B, NEW m, Room(S, B, m), JewelsCount(n, K, m),
         NEW x, Stuffs(n, x, S, B, m),
         NEW y \in BodyStuffed(ZeroKey(n), K, Residual(S, <<Ones(x), Twos(x), Threes(x)>>),
                               B - BodySlotSum(x), m)
  PROVE  Stuffs(n, x ++ y, S, B, m)
<1>1. PICK c \in Counts, d \in Counts : Fits(c, S) /\ Holes(d) <= B /\ Counted(n, x, c, d, m)
  BY DEF Stuffs
<1>2. /\ S \in Counts /\ B \in 0..3 /\ m \in 1..7 /\ m \in Nat \ {0}
      /\ Holes(S) + m * B <= 21 /\ S[2] + S[3] <= 7
  BY DEF Room
<1>3. Roomy(c, d, m)
  BY <1>1, <1>2, FitsAreRoomy
<1>4. <<Ones(x), Twos(x), Threes(x)>> = c /\ BodySlotSum(x) = Holes(d)
  BY <1>1, <1>3, CountedTells
<1>. DEFINE R == Residual(S, c)
            h == Holes(S)
            g == Holes(c)
            b == Holes(d)
<1>5. h \in Nat /\ g \in Nat /\ b \in Nat /\ b <= B /\ c[2] \in Nat /\ c[3] \in Nat
  BY <1>1, <1>2, CountFields
<1>6. /\ R \in Counts /\ Holes(R) = h - g
      /\ R[2] + R[3] <= S[2] + S[3] - c[2] - c[3]
  BY <1>1, <1>2, ResidualLemma
<1>7. Room(R, B - b, m)
  <2>1. R[2] + R[3] <= 7
    BY <1>2, <1>5, <1>6 DEF Counts
  <2>2. h + m * B <= 21
    BY <1>2
  <2>3. B - b \in 0..3
    BY <1>2, <1>5
  <2>4. m = 1 \/ m = 2 \/ m = 3 \/ m = 4 \/ m = 5 \/ m = 6 \/ m = 7
    BY <1>2
  <2>5. (h - g) + m * (B - b) <= 21
    <3>. HIDE DEF h, g, b
    <3>. QED
      BY <1>2, <1>5, <2>2, <2>4
  <2>. HIDE DEF R, h, g, b
  <2>. QED
    BY <1>2, <1>6, <2>1, <2>3, <2>5 DEF Room
<1>8. PICK e \in Counts, f \in Counts : Fits(e, R) /\ Holes(f) <= B - b /\ Counted(n, y, e, f, m)
  <2>1. y \in BodyStuffed(ZeroKey(n), K, R, B - b, m)
    BY <1>4
  <2>. QED
    BY <1>7, <2>1, BodyStuffedCounted
<1>9. Plus(c, e) \in Counts /\ Fits(Plus(c, e), S)
  BY <1>1, <1>2, <1>8, ResidualSound
<1>10. Plus(d, f) \in Counts /\ Holes(Plus(d, f)) <= B
  <2>1. Plus(d, f) \in Counts /\ Holes(Plus(d, f)) = b + Holes(f) /\ Holes(f) \in Nat
    BY PlusCounts, CountFields
  <2>. HIDE DEF b
  <2>. QED
    BY <1>2, <1>5, <1>8, <2>1
<1>11. Roomy(Plus(c, e), Plus(d, f), m)
  BY <1>2, <1>9, <1>10, FitsAreRoomy
<1>12. Counted(n, x ++ y, Plus(c, e), Plus(d, f), m)
  BY <1>1, <1>2, <1>8, <1>11, SumCounted
<1>. QED
  BY <1>9, <1>10, <1>12 DEF Stuffs

(* No jewels are always there.                                             *)
LEMMA ZeroStuffs ==
  ASSUME NEW n, NEW S, NEW B, NEW m, Room(S, B, m)
  PROVE  Stuffs(n, ZeroKey(n), S, B, m)
<1>1. S \in Counts /\ B \in 0..3 /\ m \in Nat
  BY DEF Room
<1>2. Fits(NoJewels, S)
  BY <1>1 DEF NoJewels, Fits, Counts, Holes
<1>3. Holes(NoJewels) <= B
  BY <1>1, NothingMore
<1>. QED
  BY <1>1, <1>2, <1>3, NoneCounted, NothingMore DEF Stuffs

(* What stuffs slots fits them, and changes no skill by more than it can.  *)
LEMMA StuffsFit ==
  ASSUME NEW n, NEW S, NEW B, NEW m, Room(S, B, m), NEW x, Stuffs(n, x, S, B, m)
  PROVE  /\ Fits(<<Ones(x), Twos(x), Threes(x)>>, S) /\ BodySlotSum(x) <= B
         /\ x \in ByteKeys(n) /\ \A e \in 1..n : x.pts[e] \in -42..42
<1>1. PICK c \in Counts, d \in Counts : Fits(c, S) /\ Holes(d) <= B /\ Counted(n, x, c, d, m)
  BY DEF Stuffs
<1>2. Roomy(c, d, m)
  BY <1>1, FitsAreRoomy DEF Room
<1>3. <<Ones(x), Twos(x), Threes(x)>> = c /\ BodySlotSum(x) = Holes(d)
  BY <1>1, <1>2, CountedTells
<1>. DEFINE w == Weight(c, d, m)
<1>4. w \in Nat /\ w <= 21
  BY <1>2, WeightIs DEF Roomy, Room
<1>5. x \in ByteKeys(n) /\ \A e \in 1..n : x.pts[e] \in (-2 * w)..(2 * w)
  BY <1>1 DEF Counted
<1>. HIDE DEF w
<1>. QED
  BY <1>1, <1>3, <1>4, <1>5

-----------------------------------------------------------------------------
(* Trees: their room and their points.                                     *)

(* The room of seven parts: six of n that are worn give x1, x2 and x3      *)
(* slots and t torso-ups, and the body gives one slot or, with a torso-up, *)
(* b holes that count 1 + t times.                                         *)
LEMMA SevenParts ==
  ASSUME NEW n \in 0..6, NEW t \in 0..n, NEW b \in 0..3,
         NEW x1 \in 0..n, NEW x2 \in 0..n, NEW x3 \in 0..n, x1 + x2 + x3 + t <= n,
         NEW h1 \in 0..1, NEW h2 \in 0..1, NEW h3 \in 0..1, h1 + h2 + h3 <= 1
  PROVE  /\ (h1 + x1) + 2 * (h2 + x2) + 3 * (h3 + x3) <= 21
         /\ (h2 + x2) + (h3 + x3) <= 7 /\ x2 + x3 <= 7
         /\ t # 0 => x1 + 2 * x2 + 3 * x3 + (1 + t) * b <= 21
<1>1. ASSUME t # 0 PROVE x1 + 2 * x2 + 3 * x3 + (1 + t) * b <= 21
  <2>1. t = 1 \/ t = 2 \/ t = 3 \/ t = 4 \/ t = 5 \/ t = 6
    BY <1>1
  <2>. QED
    BY <2>1
<1>. QED
  BY <1>1

(* The slots of an armor set.                                              *)
LEMMA SetRoom ==
  ASSUME NEW q \in Queries, NEW x \in PartialSets(q, PART_NUM)
  PROVE  Room(<<SlotCount(q, x, 1), SlotCount(q, x, 2), SlotCount(q, x, 3)>>,
              BodyHoles(q, x), 1 + TorsoUps(q, x))
<1>1. PICK a \in Armors(q), y \in Seq(Armors(q)) :
        /\ x = Led(a, y) /\ Len(y) \in 0..6
        /\ Arsenal(q)[a].part = "BODY"
  BY FullSetIs
<1>. DEFINE n == Len(y)
            t == TorsoUps(q, y)
            b == Arsenal(q)[a].slots
            x1 == SlotsLike(q, y, 1)
            x2 == SlotsLike(q, y, 2)
            x3 == SlotsLike(q, y, 3)
            h1 == Hole(q, a, 1)
            h2 == Hole(q, a, 2)
            h3 == Hole(q, a, 3)
<1>2. PartBounds(q, y, n) /\ n \in Nat
  BY BoundsHold
<1>3. /\ n \in 0..6 /\ t \in 0..n
      /\ x1 \in 0..n /\ x2 \in 0..n /\ x3 \in 0..n /\ x1 + x2 + x3 + t <= n
  BY <1>1, <1>2 DEF PartBounds
<1>4. b \in 0..3 /\ h1 \in 0..1 /\ h2 \in 0..1 /\ h3 \in 0..1 /\ h1 + h2 + h3 <= 1
  <2>1. /\ b \in 0..3 /\ \A size : Hole(q, a, size) \in 0..1
        /\ Up(q, a) \in 0..1 /\ h1 + h2 + h3 + Up(q, a) \in 0..1
    BY ArmorParts
  <2>2. h1 \in 0..1 /\ h2 \in 0..1 /\ h3 \in 0..1
    BY <2>1
  <2>. HIDE DEF b, h1, h2, h3
  <2>. QED
    BY <2>1, <2>2
<1>5. /\ TorsoUps(q, x) = t
      /\ BodyHoles(q, x) = IF t = 0 THEN 0 ELSE b
      /\ SlotCount(q, x, 1) = (IF t = 0 THEN h1 ELSE 0) + x1
      /\ SlotCount(q, x, 2) = (IF t = 0 THEN h2 ELSE 0) + x2
      /\ SlotCount(q, x, 3) = (IF t = 0 THEN h3 ELSE 0) + x3
  BY <1>1, <1>2, BodyCounts
<1>. HIDE DEF n, t, b, x1, x2, x3, h1, h2, h3
<1>6. /\ (h1 + x1) + 2 * (h2 + x2) + 3 * (h3 + x3) <= 21
      /\ (h2 + x2) + (h3 + x3) <= 7 /\ x2 + x3 <= 7
      /\ t # 0 => x1 + 2 * x2 + 3 * x3 + (1 + t) * b <= 21
  BY <1>3, <1>4, SevenParts
<1>7. CASE t = 0
  <2>. DEFINE S == <<h1 + x1, h2 + x2, h3 + x3>>
  <2>1. S \in Counts /\ Holes(S) = (h1 + x1) + 2 * (h2 + x2) + 3 * (h3 + x3)
        /\ S[2] + S[3] = (h2 + x2) + (h3 + x3)
    BY <1>3, <1>4 DEF Counts, Holes
  <2>2. S = <<SlotCount(q, x, 1), SlotCount(q, x, 2), SlotCount(q, x, 3)>>
    BY <1>5, <1>7
  <2>3. Room(S, 0, 1)
    <3>. HIDE DEF S
    <3>1. Holes(S) \in Nat /\ Holes(S) + 1 * 0 <= 21
      BY <1>6, <2>1, CountFields
    <3>. QED
      BY <1>6, <2>1, <3>1 DEF Room
  <2>. QED
    BY <1>5, <1>7, <2>2, <2>3
<1>8. CASE t # 0
  <2>. DEFINE S == <<x1, x2, x3>>
  <2>1. S \in Counts /\ Holes(S) = x1 + 2 * x2 + 3 * x3 /\ S[2] + S[3] = x2 + x3
    BY <1>3 DEF Counts, Holes
  <2>2. S = <<SlotCount(q, x, 1), SlotCount(q, x, 2), SlotCount(q, x, 3)>>
    BY <1>3, <1>5, <1>8
  <2>3. Room(S, b, 1 + t)
    <3>. HIDE DEF S
    <3>1. Holes(S) + (1 + t) * b <= 21 /\ 1 + t \in 1..7
      BY <1>3, <1>6, <1>8, <2>1
    <3>. QED
      BY <1>4, <1>6, <2>1, <3>1 DEF Room
  <2>. QED
    BY <1>5, <1>8, <2>2, <2>3
<1>. QED
  BY <1>7, <1>8

(* The points of an armor set leave room for jewels in a byte.             *)
LEMMA SetPointsFit ==
  ASSUME NEW q \in Queries, NEW x \in PartialSets(q, PART_NUM), NEW e \in DOMAIN q.effects
  PROVE  SetPoints(q, x, e) \in -85..85
<1>1. x \in AdmittedSets(q)
  BY AdmittedAre
<1>. QED
  BY <1>1, BytesAssumption DEF SET_POINTS

(* What the key of a tree says of its room and of its points.              *)
NodeFits(q, key, m, effects) ==
  /\ key \in Keys /\ DOMAIN key.pts = 1..Len(q.effects)
  /\ Room(<<Ones(key), Twos(key), Threes(key)>>, BodySlotSum(key), m)
  /\ \A e \in 1..Len(q.effects) :
       key.pts[e] \in -85..85 /\ (e > effects => key.pts[e] = 0)

LEMMA TreeFits ==
  ASSUME NEW q \in Queries, NEW p \in Pools, Sound(p, Armors(q)),
         NEW tree, TreeHolds(q, p, tree)
  PROVE  NodeFits(q, p.ors[tree.id].key, tree.multiplier, tree.effects)
<1>. DEFINE key == p.ors[tree.id].key
<1>1. Armors(q) \in SUBSET Nat /\ DOMAIN q.effects = 1..Len(q.effects) /\ Len(q.effects) \in Nat
  BY QueryParts
<1>2. tree.id \in DOMAIN p.ors /\ tree.effects \in 0..Len(q.effects)
  BY DEF TreeHolds
<1>3. PICK x \in SetsOf(p, tree.id) : TRUE
  BY <1>1, <1>2, SetsAreThere
<1>4. x \in PartialSets(q, PART_NUM) /\ SetTells(q, key, x, tree.effects)
  BY DEF TreeHolds
<1>5. tree.multiplier = 1 + TorsoUps(q, x)
  BY TreeMultiplier
<1>6. key \in Keys /\ DOMAIN key.pts = 1..Len(q.effects) /\ KeyTells(q, key, x, tree.effects)
  BY <1>1, <1>4 DEF SetTells
<1>7. Room(<<Ones(key), Twos(key), Threes(key)>>, BodySlotSum(key), tree.multiplier)
  BY <1>4, <1>5, <1>6, SetRoom DEF KeyTells
<1>8. ASSUME NEW e \in 1..Len(q.effects)
      PROVE  key.pts[e] \in -85..85 /\ (e > tree.effects => key.pts[e] = 0)
  <2>1. key.pts[e] = IF e <= tree.effects THEN SetPoints(q, x, e) ELSE 0
    BY <1>1, <1>6 DEF KeyTells, GetPoints
  <2>2. SetPoints(q, x, e) \in -85..85
    BY <1>1, <1>4, SetPointsFit
  <2>. QED
    BY <1>2, <2>1, <2>2
<1>. QED
  BY <1>6, <1>7, <1>8 DEF NodeFits

(* The keys of the jewels a slot client knows.                             *)
LEMMA ClientCounts ==
  ASSUME NEW q \in Queries, NEW skills, NEW filter, NEW m \in Nat
  PROVE  JewelsCount(Len(q.effects), ClientKeys(skills, filter, q.effects), m)
<1>. DEFINE n == Len(q.effects)
            K == ClientKeys(skills, filter, q.effects)
<1>1. n \in Nat /\ DOMAIN q.effects = 1..n
  BY QueryParts
<1>2. ASSUME NEW s \in 1..3, NEW y \in K[s]
      PROVE  Counted(n, y, OfSize(s, 1), NoJewels, m)
  <2>1. PICK id \in DOMAIN JewelData :
          JewelData[id].slots = s /\ y = JewelKey(JewelData[id], q.effects)
    BY DEF ClientKeys, ValidKeys
  <2>. DEFINE points == [e \in 1..n |-> EffectPoints(JewelData[id].effects, q.effects[e].id)]
  <2>2. \A e \in 1..n : points[e] \in (-2 * s)..(2 * s)
    <3>1. \A e \in DOMAIN q.effects :
            EffectPoints(JewelData[id].effects, q.effects[e].id)
              \in -(2 * JewelData[id].slots)..(2 * JewelData[id].slots)
      BY BytesAssumption
    <3>2. -(2 * s) = -2 * s
      OBVIOUS
    <3>. QED
      BY <1>1, <2>1, <3>1, <3>2
  <2>3. s = 1 \/ s = 2 \/ s = 3
    OBVIOUS
  <2>4. y.pts = [e \in 1..n |-> IF e <= n THEN Char8(points[e]) ELSE 0]
    BY <2>1 DEF JewelKey, PtsOf
  <2>. HIDE DEF points
  <2>5. \A e \in 1..n : points[e] \in -128..127 /\ e <= n
    <3>1. ASSUME NEW e \in 1..n PROVE points[e] \in -128..127
      <4>. DEFINE v == points[e]
      <4>1. v \in (-2 * s)..(2 * s)
        BY <2>2
      <4>. HIDE DEF v
      <4>2. v \in -128..127
        BY <2>3, <4>1
      <4>. QED
        BY <4>2 DEF v
    <3>2. \A e \in 1..n : e <= n
      BY <1>1
    <3>. QED
      BY <3>1, <3>2
  <2>6. \A e \in 1..n : y.pts[e] = points[e]
    <3>1. \A e \in 1..n : y.pts[e] = Char8(points[e])
      BY <2>4, <2>5
    <3>. QED
      BY <2>5, <3>1, NoCarry
  <2>7. y.b0 = (IF s = 1 THEN 1 ELSE 0) /\ y.b2 = 0
        /\ y.b1 = IF s = 2 THEN 1 ELSE IF s = 3 THEN 16 ELSE 0
    BY <2>1, <2>3 DEF JewelKey, SlotBytes
  <2>8. y \in ByteKeys(n)
    <3>1. y = [b0 |-> y.b0, b1 |-> y.b1, b2 |-> y.b2, pts |-> y.pts]
      BY <2>1 DEF JewelKey
    <3>2. y.b0 \in Byte /\ y.b1 \in Byte /\ y.b2 \in Byte
      BY <2>3, <2>7 DEF Byte
    <3>3. y.pts \in [1..n -> Byte]
      <4>1. \A e \in 1..n : y.pts[e] \in Byte
        BY <2>5, <2>6 DEF Byte
      <4>2. y.pts = [e \in 1..n |-> y.pts[e]]
        BY <2>4
      <4>. QED
        BY <4>1, <4>2
    <3>. QED
      BY <3>1, <3>2, <3>3 DEF ByteKeys
  <2>9. Weight(OfSize(s, 1), NoJewels, m) = s
    <3>1. Holes(OfSize(s, 1)) = s * 1 /\ Holes(NoJewels) = 0
      BY OfSizeIs, NothingMore
    <3>. QED
      BY <3>1 DEF Weight
  <2>10. Header(y, OfSize(s, 1), NoJewels)
    <3>1. /\ OfSize(s, 1)[1] = (IF s = 1 THEN 1 ELSE 0)
          /\ OfSize(s, 1)[2] = (IF s = 2 THEN 1 ELSE 0)
          /\ OfSize(s, 1)[3] = (IF s = 3 THEN 1 ELSE 0)
          /\ NoJewels[1] = 0 /\ NoJewels[2] = 0 /\ NoJewels[3] = 0
      BY DEF OfSize, NoJewels
    <3>. QED
      BY <2>3, <2>7, <3>1 DEF Header
  <2>. QED
    BY <2>2, <2>6, <2>8, <2>9, <2>10 DEF Counted
<1>. QED
  BY <1>2 DEF JewelsCount

(* Numbers that are not too small have a least one, and numbers that are   *)
(* not too large a greatest.                                               *)
LEMMA LeastIs ==
  ASSUME NEW S, S # {}, \A v \in S : v \in Int /\ v >= -1000
  PROVE  Min(S) \in S /\ \A v \in S : Min(S) <= v
<1>. DEFINE T == { v + 1000 : v \in S }
            R == OpToRel(<, Nat)
<1>1. T \subseteq Nat /\ T # {}
  OBVIOUS
<1>2. PICK x \in T : \A y \in T : ~(<<y, x>> \in R)
  <2>1. IsWellFoundedOn(R, Nat)
    BY NatLessThanWellFounded
  <2>. HIDE DEF R, T
  <2>. QED
    BY <1>1, <2>1, WFMin
<1>3. PICK v \in S : x = v + 1000
  OBVIOUS
<1>. HIDE DEF R
<1>4. ASSUME NEW w \in S PROVE v <= w
  <2>1. w + 1000 \in T /\ w + 1000 \in Nat /\ x \in Nat
    BY <1>1
  <2>2. ~(w + 1000 < x)
    <3>1. ASSUME w + 1000 < x PROVE <<w + 1000, x>> \in R
      BY <2>1, <3>1 DEF OpToRel, R
    <3>. QED
      BY <1>2, <2>1, <3>1
  <2>. QED
    BY <1>3, <2>1, <2>2
<1>. QED
  BY <1>4, Zenon DEF Min

LEMMA GreatestIs ==
  ASSUME NEW S, S # {}, \A v \in S : v \in -85..85
  PROVE  Max(S) \in S /\ \A v \in S : Max(S) >= v
<1>. DEFINE T == { -v : v \in S }
            x == Min(T)
<1>1. T # {} /\ \A v \in T : v \in Int /\ v >= -1000
  OBVIOUS
<1>2. x \in T /\ \A v \in T : x <= v
  <2>. HIDE DEF T
  <2>. QED
    BY <1>1, LeastIs
<1>. HIDE DEF x
<1>3. PICK v \in S : x = -v
  BY <1>2
<1>4. ASSUME NEW w \in S PROVE v >= w
  <2>1. -w \in T
    OBVIOUS
  <2>2. x <= -w
    BY <1>2, <2>1
  <2>. QED
    BY <1>3, <2>2
<1>. QED
  BY <1>4, Zenon DEF Max

(* The points of a node and of jewels, in bytes, against their targets.    *)
Target(q, mask, e) == IF e \in mask THEN q.effects[e].points ELSE 0

LEMMA SatisfyIs ==
  ASSUME NEW q \in Queries, NEW mask, NEW n, n = Len(q.effects),
         NEW x, DOMAIN x.pts = 1..n, NEW y,
         \A e \in 1..n : x.pts[e] + y.pts[e] \in -128..127
  PROVE  Satisfy(x || y, InverseKey(q.effects, mask))
           <=> \A e \in 1..n : x.pts[e] + y.pts[e] >= Target(q, mask, e)
<1>1. DOMAIN q.effects = 1..n
  BY QueryParts
<1>. DEFINE sum == x || y
            inverse == InverseKey(q.effects, mask)
            s(e) == x.pts[e] + y.pts[e]
            t(e) == Target(q, mask, e)
<1>2. sum.pts = [e \in 1..n |-> Char8(s(e))]
  BY DEF ||, AddPts
<1>3. inverse.pts = [e \in 1..n |-> IF e \in mask THEN Char8(-q.effects[e].points) ELSE 0]
  BY DEF InverseKey, ZeroKey
<1>4. ASSUME NEW e \in 1..n PROVE (sum.pts[e] + inverse.pts[e] >= 0) <=> s(e) >= t(e)
  <2>. DEFINE v == s(e)
              p == q.effects[e].points
  <2>1. v \in -128..127
    OBVIOUS
  <2>2. p \in -127..127
    BY <1>1, BytesAssumption
  <2>3. sum.pts[e] = Char8(v) /\ inverse.pts[e] = IF e \in mask THEN Char8(-p) ELSE 0
    BY <1>2, <1>3
  <2>4. t(e) = IF e \in mask THEN p ELSE 0
    BY DEF Target
  <2>. HIDE DEF v, p, sum, inverse, t
  <2>5. -p \in -128..127
    BY <2>2
  <2>6. Char8(v) = v /\ Char8(-p) = -p
    BY <2>1, <2>5, NoCarry
  <2>7. (v + inverse.pts[e] >= 0) <=> v >= t(e)
    BY <2>1, <2>2, <2>3, <2>4, <2>6
  <2>. QED
    BY <2>3, <2>6, <2>7 DEF v
<1>5. DOMAIN sum.pts = 1..n
  BY <1>2
<1>. HIDE DEF sum, inverse
<1>6. Satisfy(sum, inverse) <=> \A e \in 1..n : sum.pts[e] + inverse.pts[e] >= 0
  BY <1>5 DEF Satisfy
<1>. QED
  BY <1>4, <1>6 DEF sum, inverse

-----------------------------------------------------------------------------
(* The foundation.                                                         *)

(* Foundation merges the parts one by one.                                 *)
Merges(f, parts) ==
  f = [p \in 1..PART_NUM |->
         IF p = 1 THEN [pool |-> parts.pool, forest |-> parts.forests[1]]
         ELSE MergeForests(f[p - 1].pool, parts.forests[p], f[p - 1].forest, p = Body)]

(* There is such a function, so what Foundation chooses is one.            *)
LEMMA MergesExist ==
  ASSUME NEW q \in Queries, NEW parts, parts = ClassifyArmors(Arsenal(q), q)
  PROVE  \E f : Merges(f, parts)
<1>. DEFINE most == PART_NUM - 1
            Holding(n) == { x \in [pool : Pools, forest : Seq(Nat)] :
                              PoolHolds(q, x.pool, parts.forests, x.forest, n) }
            Accs == [pool : Pools, forest : Seq(Nat)]
            S == [n \in 0..most |-> Holding(n + 1)]
            base == [pool |-> parts.pool, forest |-> parts.forests[1]]
            step == [nx \in (1..most) \X Accs |->
                       MergeForests(nx[2].pool, parts.forests[nx[1] + 1], nx[2].forest,
                                    nx[1] + 1 = Body)]
<1>1. most \in Nat /\ PART_NUM = most + 1 /\ most >= 1
  BY PartNum
<1>2. ASSUME NEW n, NEW x, PoolHolds(q, x.pool, parts.forests, x.forest, n),
             x = [pool |-> x.pool, forest |-> x.forest]
      PROVE  x \in Holding(n)
  <2>1. x.pool \in Pools /\ x.forest \in Seq(Nat)
    BY <1>2 DEF PoolHolds, Forested, Holds
  <2>. QED
    BY <1>2, <2>1
<1>3. base \in S[0]
  <2>1. PoolHolds(q, base.pool, parts.forests, base.forest, 1)
    BY ClassifyHolds
  <2>2. base \in Holding(1)
    BY <1>2, <2>1
  <2>. QED
    BY <1>1, <2>2
<1>4. ASSUME NEW n \in 1..most, NEW x \in S[n - 1]
      PROVE  /\ step[<<n, x>>] = MergeForests(x.pool, parts.forests[n + 1], x.forest, n + 1 = Body)
             /\ step[<<n, x>>] \in S[n]
  <2>1. n \in 1..(PART_NUM - 1) /\ n - 1 \in 0..most /\ n \in 0..most /\ (n - 1) + 1 = n
    BY <1>1
  <2>2. S[n - 1] = Holding(n) /\ S[n] = Holding(n + 1)
    BY <2>1
  <2>. DEFINE r == MergeForests(x.pool, parts.forests[n + 1], x.forest, n + 1 = Body)
  <2>3. x \in Accs /\ PoolHolds(q, x.pool, parts.forests, x.forest, n)
    BY <2>2
  <2>4. step[<<n, x>>] = r
    BY <2>3
  <2>5. PoolHolds(q, r.pool, parts.forests, r.forest, n + 1)
    BY <2>1, <2>3, MergeHolds
  <2>6. r = [pool |-> r.pool, forest |-> r.forest]
    BY Zenon DEF MergeForests
  <2>. HIDE DEF r, Holding, step, S
  <2>7. r \in Holding(n + 1)
    BY <1>2, <2>5, <2>6
  <2>. QED
    BY <2>2, <2>4, <2>7 DEF r
<1>. HIDE DEF step, S, base, most, Holding, Accs
<1>5. PICK f : FunctionUpTo(f, most) /\ Steps(f, most, base, step) /\ Within(f, most, S)
  BY <1>1, <1>3, <1>4, RecursionExists
<1>. DEFINE g == [p \in 1..PART_NUM |-> f[p - 1]]
<1>6. ASSUME NEW p \in 1..PART_NUM
      PROVE  g[p] = IF p = 1 THEN base
                    ELSE MergeForests(g[p - 1].pool, parts.forests[p], g[p - 1].forest, p = Body)
  <2>1. CASE p = 1
    <3>1. g[p] = f[0]
      BY <2>1
    <3>. QED
      BY <1>5, <2>1, <3>1 DEF Steps
  <2>2. CASE p # 1
    <3>. DEFINE n == p - 1
    <3>1. n \in 1..most /\ n + 1 = p /\ n \in 1..PART_NUM /\ n - 1 \in 0..most
      BY <1>1, <2>2
    <3>2. g[p] = f[n] /\ g[n] = f[n - 1]
      BY <3>1
    <3>. HIDE DEF n, g
    <3>3. f[n] = step[<<n, f[n - 1]>>] /\ f[n - 1] \in S[n - 1]
      BY <1>5, <3>1 DEF Steps, Within
    <3>4. f[n] = MergeForests(g[n].pool, parts.forests[p], g[n].forest, p = Body)
      BY <1>4, <3>1, <3>2, <3>3
    <3>. QED
      BY <2>2, <3>2, <3>4 DEF n
  <2>. QED
    BY <2>1, <2>2
<1>7. g = [p \in 1..PART_NUM |-> g[p]]
  OBVIOUS
<1>. HIDE DEF g
<1>8. Merges(g, parts)
  BY <1>6, <1>7, Zenon DEF Merges, base
<1>. QED
  BY <1>8

(* What Foundation makes, when all the parts are merged.                   *)
LEMMA FoundationPool ==
  ASSUME NEW q \in Queries, NEW r, r = Foundation(Arsenal(q), q)
  PROVE  \E forests : PoolHolds(q, r.pool, forests, r.forest, PART_NUM)
<1>. DEFINE parts == ClassifyArmors(Arsenal(q), q)
            g == CHOOSE f : Merges(f, parts)
            most == PART_NUM - 1
            T == { n \in 0..most : PoolHolds(q, g[n + 1].pool, parts.forests, g[n + 1].forest, n + 1) }
<1>1. Merges(g, parts)
  BY MergesExist, Zenon
<1>2. r = g[PART_NUM]
  BY Zenon DEF Foundation, Merges
<1>. HIDE DEF g
<1>3. most \in Nat /\ PART_NUM = most + 1 /\ most >= 1
  BY PartNum
<1>4. 0 \in T
  <2>1. 1 \in 1..PART_NUM
    BY <1>3
  <2>2. g[1] = [pool |-> parts.pool, forest |-> parts.forests[1]]
    BY <1>1, <2>1, Zenon DEF Merges
  <2>3. PoolHolds(q, g[1].pool, parts.forests, g[1].forest, 1)
    BY <2>2, ClassifyHolds
  <2>4. 0 \in 0..most /\ 0 + 1 = 1
    BY <1>3
  <2>. QED
    BY <2>3, <2>4
<1>5. ASSUME NEW n \in 1..most, n - 1 \in T PROVE n \in T
  <2>1. n \in 1..(PART_NUM - 1) /\ n + 1 \in 1..PART_NUM /\ n + 1 # 1 /\ (n + 1) - 1 = n
        /\ (n - 1) + 1 = n /\ n \in 0..most
    BY <1>3
  <2>2. PoolHolds(q, g[n].pool, parts.forests, g[n].forest, n)
    BY <1>5, <2>1
  <2>3. g[n + 1] = MergeForests(g[n].pool, parts.forests[n + 1], g[n].forest, n + 1 = Body)
    <3>. DEFINE p == n + 1
    <3>1. p \in 1..PART_NUM /\ p # 1 /\ p - 1 = n
      BY <2>1
    <3>. HIDE DEF p
    <3>2. g[p] = MergeForests(g[p - 1].pool, parts.forests[p], g[p - 1].forest, p = Body)
      BY <1>1, <3>1, Zenon DEF Merges
    <3>3. g[p] = MergeForests(g[n].pool, parts.forests[p], g[n].forest, p = Body)
      BY <3>1, <3>2
    <3>. QED
      BY <3>3 DEF p
  <2>4. PoolHolds(q, g[n + 1].pool, parts.forests, g[n + 1].forest, n + 1)
    BY <2>1, <2>2, <2>3, MergeHolds
  <2>. QED
    BY <2>1, <2>4
<1>6. most \in T
  <2>. HIDE DEF T, most
  <2>1. \A n \in 0..most : n \in T
    BY <1>3, <1>4, <1>5, IntervalInduction
  <2>. QED
    BY <1>3, <2>1
<1>7. PoolHolds(q, r.pool, parts.forests, r.forest, PART_NUM)
  BY <1>2, <1>3, <1>6
<1>. QED
  BY <1>7

-----------------------------------------------------------------------------
(* The trees of the stages.                                                *)

(* A tree that has passed stage k, as one that is split by its effects.    *)
Staged(q, tree, k) ==
  [id |-> tree.id, multiplier |-> tree.torso_multiplier,
   effects |-> IF k <= FoundationEffects(q) THEN FoundationEffects(q) ELSE k]

(* The jewels y fit a tree of that key and multiplier.                     *)
FitsTree(q, key, m, y) ==
  Stuffs(Len(q.effects), y, <<Ones(key), Twos(key), Threes(key)>>, BodySlotSum(key), m)

Reaches(q, key, y, k) == \A e \in 1..k : key.pts[e] + y.pts[e] >= q.effects[e].points

JewelsGood(q, key, m, jewel_keys, k) ==
  IF k = 0 THEN jewel_keys = {}
  ELSE /\ jewel_keys # {}
       /\ \A y \in jewel_keys : FitsTree(q, key, m, y) /\ Reaches(q, key, y, k)

TreeAt(q, p, k, tree) ==
  /\ tree = [id |-> tree.id, jewel_keys |-> tree.jewel_keys,
             torso_multiplier |-> tree.torso_multiplier]
  /\ TreeHolds(q, p, Staged(q, tree, k))
  /\ JewelsGood(q, p.ors[tree.id].key, tree.torso_multiplier, tree.jewel_keys, k)

(* A tree stays what it is while the pool grows.                           *)
LEMMA TreeAtStays ==
  ASSUME NEW q, NEW p \in Pools, NEW r \in Pools, Extends(p, r),
         NEW k, NEW tree, TreeAt(q, p, k, tree)
  PROVE  TreeAt(q, r, k, tree)
<1>1. TreeHolds(q, p, Staged(q, tree, k))
  BY DEF TreeAt
<1>2. tree.id \in DOMAIN p.ors
  BY <1>1 DEF TreeHolds, Staged
<1>3. r.ors[tree.id] = p.ors[tree.id]
  BY <1>2, PoolParts DEF Extends
<1>. QED
  BY <1>1, <1>3, TreeStays DEF TreeAt

(* The jewels that Extended adds fit with those that are there.            *)
LEMMA ExtendedFits ==
  ASSUME query \in Queries, NEW tree, NEW key, key = NodeKey(tree),
         NEW m, m = tree.torso_multiplier, NEW effects, NodeFits(query, key, m, effects),
         NEW k, FitsTree(query, key, m, k), NEW e, NEW j \in Extended(tree, k, e)
  PROVE  FitsTree(query, key, m, j)
<1>. DEFINE n == Len(query.effects)
            K == ClientKeys({query.effects[e].id}, query.jewel_filter, query.effects)
            R == Residual(<<Ones(key), Twos(key), Threes(key)>>,
                          <<Ones(k), Twos(k), Threes(k)>>)
            B == BodySlotSum(key) - BodySlotSum(k)
<1>1. PICK y \in BodyStuffed(ZeroKey(n), K, R, B, m) : j = k ++ y
  BY DEF Extended, N, SlotsOf
<1>2. Room(<<Ones(key), Twos(key), Threes(key)>>, BodySlotSum(key), m) /\ m \in Nat
  BY DEF NodeFits, Room
<1>3. JewelsCount(n, K, m)
  BY <1>2, ClientCounts
<1>4. Stuffs(n, k, <<Ones(key), Twos(key), Threes(key)>>, BodySlotSum(key), m)
  BY DEF FitsTree
<1>. HIDE DEF n, K
<1>5. Stuffs(n, k ++ y, <<Ones(key), Twos(key), Threes(key)>>, BodySlotSum(key), m)
  BY <1>1, <1>2, <1>3, <1>4, MoreStuffs
<1>. QED
  BY <1>1, <1>5 DEF FitsTree, n

(* What fits a tree is a key in bytes that changes no skill by much.       *)
LEMMA TreeJewels ==
  ASSUME NEW q \in Queries, NEW key, NEW m, NEW effects, NodeFits(q, key, m, effects),
         NEW j, FitsTree(q, key, m, j)
  PROVE  /\ Fits(<<Ones(j), Twos(j), Threes(j)>>, <<Ones(key), Twos(key), Threes(key)>>)
         /\ BodySlotSum(j) <= BodySlotSum(key)
         /\ DOMAIN j.pts = 1..Len(q.effects)
         /\ \A e \in 1..Len(q.effects) : j.pts[e] \in -42..42
<1>. DEFINE n == Len(q.effects)
<1>1. Room(<<Ones(key), Twos(key), Threes(key)>>, BodySlotSum(key), m)
  BY DEF NodeFits
<1>2. Stuffs(n, j, <<Ones(key), Twos(key), Threes(key)>>, BodySlotSum(key), m)
  BY DEF FitsTree
<1>. HIDE DEF n
<1>3. /\ Fits(<<Ones(j), Twos(j), Threes(j)>>, <<Ones(key), Twos(key), Threes(key)>>)
      /\ BodySlotSum(j) <= BodySlotSum(key)
      /\ j \in ByteKeys(n) /\ \A e \in 1..n : j.pts[e] \in -42..42
  BY <1>1, <1>2, StuffsFit
<1>4. DOMAIN j.pts = 1..n
  BY <1>3 DEF ByteKeys
<1>. QED
  BY <1>3, <1>4 DEF n

(* Arithmetic: points with jewels stay in a byte.                          *)
LEMMA SumFits == ASSUME NEW v \in -85..85, NEW w \in -42..42 PROVE v + w \in -128..127
  OBVIOUS

(* What Reaching finds fits the tree and brings the points to the targets. *)
LEMMA ReachingHolds ==
  ASSUME query \in Queries, NEW tree, NEW key, key = NodeKey(tree),
         NEW m, m = tree.torso_multiplier, NEW effects, NodeFits(query, key, m, effects),
         \A k \in tree.jewel_keys : FitsTree(query, key, m, k),
         NEW e, NEW points, DOMAIN points.pts = 1..Len(query.effects),
         \A d \in 1..Len(query.effects) : points.pts[d] \in -85..85,
         NEW mask, NEW j \in Reaching(tree, e, points, mask)
  PROVE  /\ FitsTree(query, key, m, j)
         /\ \A d \in 1..Len(query.effects) : points.pts[d] + j.pts[d] >= Target(query, mask, d)
<1>. DEFINE n == Len(query.effects)
<1>1. /\ \E k \in tree.jewel_keys : j \in Extended(tree, k, e)
      /\ Satisfy(points || j, InverseKey(query.effects, mask))
  BY DEF Reaching
<1>2. FitsTree(query, key, m, j)
  BY <1>1, ExtendedFits
<1>3. ASSUME NEW d \in 1..n PROVE points.pts[d] + j.pts[d] \in -128..127
  <2>. DEFINE v == points.pts[d]
              w == j.pts[d]
  <2>1. v \in -85..85 /\ w \in -42..42
    BY <1>2, TreeJewels
  <2>. HIDE DEF v, w
  <2>2. v + w \in -128..127
    BY <2>1, SumFits
  <2>. QED
    BY <2>2 DEF v, w
<1>4. \A d \in 1..n : points.pts[d] + j.pts[d] >= Target(query, mask, d)
  BY <1>1, <1>3, SatisfyIs
<1>. QED
  BY <1>2, <1>4

(* Below a mask of the first k effects the targets are those of the query. *)
LEMMA TargetsReached ==
  ASSUME NEW q \in Queries, NEW k \in 0..Len(q.effects), NEW key, NEW j,
         \A d \in 1..Len(q.effects) : key.pts[d] + j.pts[d] >= Target(q, 1..k, d)
  PROVE  Reaches(q, key, j, k)
<1>1. ASSUME NEW e \in 1..k PROVE key.pts[e] + j.pts[e] >= q.effects[e].points
  <2>1. e \in 1..Len(q.effects)
    BY QueryParts
  <2>2. Target(q, 1..k, e) = q.effects[e].points
    BY DEF Target
  <2>. QED
    BY <2>1, <2>2
<1>. QED
  BY <1>1 DEF Reaches

-----------------------------------------------------------------------------
(* Pruners and splitters.                                                  *)

(* What a JewelPruner passes on is a tree that has passed its stage.       *)
LEMMA PrunedHolds ==
  ASSUME query \in Queries, pool_ \in Pools, Sound(pool_, Armors(query)),
         NEW k \in 1..F, NEW tree, TreeAt(query, pool_, k - 1, tree), NEW from,
         from = IF tree.jewel_keys = {} THEN [tree EXCEPT !.jewel_keys = {ZeroKey(N)}] ELSE tree,
         NEW keys, keys = Reaching(from, k, NodeKey(tree), 1..k), keys # {},
         NEW new, new = [tree EXCEPT !.jewel_keys = keys]
  PROVE  TreeAt(query, pool_, k, new)
<1>. DEFINE n == Len(query.effects)
            key == NodeKey(tree)
            m == tree.torso_multiplier
<1>1. n \in Nat /\ F \in Nat /\ F = FoundationEffects(query) /\ F <= n
  BY QueryParts, FoundationAssumption DEF F, FoundationEffects
<1>2. /\ tree = [id |-> tree.id, jewel_keys |-> tree.jewel_keys, torso_multiplier |-> m]
      /\ TreeHolds(query, pool_, Staged(query, tree, k - 1))
      /\ JewelsGood(query, key, m, tree.jewel_keys, k - 1)
  BY DEF TreeAt, NodeKey
<1>3. NodeFits(query, key, m, FoundationEffects(query))
  <2>1. /\ Staged(query, tree, k - 1).id = tree.id /\ Staged(query, tree, k - 1).multiplier = m
        /\ Staged(query, tree, k - 1).effects = FoundationEffects(query)
    BY <1>1 DEF Staged
  <2>. QED
    BY <1>2, <2>1, TreeFits DEF NodeKey
<1>4. /\ from.id = tree.id /\ from.torso_multiplier = m
      /\ \A y \in from.jewel_keys : FitsTree(query, key, m, y)
  <2>1. CASE tree.jewel_keys = {}
    <3>1. from.id = tree.id /\ from.torso_multiplier = m /\ from.jewel_keys = {ZeroKey(n)}
      BY <1>2, <2>1 DEF N
    <3>2. FitsTree(query, key, m, ZeroKey(n))
      BY <1>3, ZeroStuffs DEF FitsTree, NodeFits
    <3>. QED
      BY <3>1, <3>2
  <2>2. CASE tree.jewel_keys # {}
    <3>1. k - 1 # 0
      BY <1>2, <2>2 DEF JewelsGood
    <3>. QED
      BY <1>2, <2>2, <3>1 DEF JewelsGood
  <2>. QED
    BY <2>1, <2>2
<1>5. NodeKey(from) = key
  BY <1>4 DEF NodeKey
<1>6. DOMAIN key.pts = 1..n /\ \A d \in 1..n : key.pts[d] \in -85..85
  BY <1>3 DEF NodeFits
<1>7. ASSUME NEW y \in keys PROVE FitsTree(query, key, m, y) /\ Reaches(query, key, y, k)
  <2>. HIDE DEF key, m
  <2>1. /\ FitsTree(query, key, m, y)
        /\ \A d \in 1..n : key.pts[d] + y.pts[d] >= Target(query, 1..k, d)
    BY <1>3, <1>4, <1>5, <1>6, ReachingHolds DEF key
  <2>2. k \in 0..n
    BY <1>1
  <2>. QED
    BY <2>1, <2>2, TargetsReached
<1>8. JewelsGood(query, key, m, keys, k)
  <2>1. k # 0
    BY <1>1
  <2>. QED
    BY <1>7, <2>1 DEF JewelsGood
<1>9. /\ new.id = tree.id /\ new.jewel_keys = keys /\ new.torso_multiplier = m
      /\ new = [id |-> new.id, jewel_keys |-> new.jewel_keys,
                torso_multiplier |-> new.torso_multiplier]
  BY <1>2
<1>10. Staged(query, new, k) = Staged(query, tree, k - 1)
  <2>1. k <= FoundationEffects(query) /\ k - 1 <= FoundationEffects(query)
    BY <1>1
  <2>. QED
    BY <1>9, <2>1 DEF Staged
<1>. QED
  BY <1>2, <1>8, <1>9, <1>10 DEF TreeAt, NodeKey

(* MaxPoints is reached by an armor set of the tree.                       *)
LEMMA MaxPointsHolds ==
  ASSUME query \in Queries, arsenal_ = Arsenal(query), pool_ \in Pools,
         Sound(pool_, Armors(query)), NEW e \in DOMAIN query.effects,
         NEW k, NEW tree, TreeHolds(query, pool_, Staged(query, tree, k))
  PROVE  /\ MaxPoints(e, tree) \in -85..85
         /\ \E x \in SetsOf(pool_, tree.id) : SetPoints(query, x, e) = MaxPoints(e, tree)
<1>. DEFINE staged == Staged(query, tree, k)
            V == { SetPoints(query, x, e) : x \in SetsOf(pool_, tree.id) }
<1>1. staged.id = tree.id /\ staged.multiplier = tree.torso_multiplier
  BY DEF Staged
<1>2. SplitterOf(e) = Splitter(query, e)
  BY DEF SplitterOf, Splitter
<1>3. MaxPoints(e, tree) = Max(V)
  <2>1. MaxOr(pool_, Splitter(query, e), staged.id, staged.multiplier)
          = Max({ SetPoints(query, x, e) : x \in SetsOf(pool_, staged.id) })
    BY TreeMax
  <2>. QED
    BY <1>1, <1>2, <2>1 DEF MaxPoints
<1>4. \A x \in SetsOf(pool_, tree.id) : SetPoints(query, x, e) \in -85..85
  <2>1. \A x \in SetsOf(pool_, tree.id) : x \in PartialSets(query, PART_NUM)
    BY <1>1 DEF TreeHolds
  <2>. QED
    BY <2>1, SetPointsFit
<1>5. SetsOf(pool_, tree.id) # {}
  <2>1. tree.id \in DOMAIN pool_.ors /\ Armors(query) \in SUBSET Nat
    BY <1>1, QueryParts DEF TreeHolds
  <2>. QED
    BY <2>1, SetsAreThere
<1>6. V # {} /\ \A v \in V : v \in -85..85
  BY <1>4, <1>5
<1>7. Max(V) \in V
  <2>. HIDE DEF V
  <2>. QED
    BY <1>6, GreatestIs
<1>. QED
  BY <1>3, <1>4, <1>7

(* Jewels with which the best armor set of a tree, that has h points,      *)
(* reaches the first k effects.                                            *)
Candidates(q, key, m, k, h, C) ==
  /\ C # {}
  /\ \A c \in C :
       /\ FitsTree(q, key, m, c)
       /\ \A d \in 1..Len(q.effects) :
            d # k => key.pts[d] + c.pts[d] >= Target(q, 1..k, d)
       /\ h + c.pts[k] >= q.effects[k].points

(* Arithmetic: the least of what points v leave to ask for.                *)
LEMMA AskedIs ==
  ASSUME NEW t \in -127..127, NEW h \in -85..85, NEW v \in -42..42, h + v >= t
  PROVE  t - v \in Int /\ t - v >= -1000 /\ t - v < 1000 /\ t - v <= h
  OBVIOUS

Asks(t, h, P, W) ==
  /\ t \in -127..127 /\ h \in -85..85
  /\ P # {} /\ \A v \in P : v \in -42..42 /\ h + v >= t
  /\ 1000 \in W /\ \A v \in P : t - v \in W
  /\ \A w \in W : w = 1000 \/ \E v \in P : w = t - v

LEMMA LeastAsked ==
  ASSUME NEW t, NEW h, NEW P, NEW W, Asks(t, h, P, W)
  PROVE  \E v \in P : Min(W) = t - v /\ Min(W) \in Int /\ Min(W) <= h
<1>. USE DEF Asks
<1>1. ASSUME NEW v \in P
      PROVE  t - v \in Int /\ t - v >= -1000 /\ t - v < 1000 /\ t - v <= h
  <2>. DEFINE Asked(x, y, z) == x - z \in Int /\ x - z >= -1000 /\ x - z < 1000 /\ x - z <= y
  <2>1. v \in -42..42 /\ h + v >= t
    OBVIOUS
  <2>2. \A x \in -127..127 : \A y \in -85..85 : \A z \in -42..42 : y + z >= x => Asked(x, y, z)
    BY AskedIs
  <2>3. t \in -127..127 /\ h \in -85..85
    OBVIOUS
  <2>. HIDE DEF Asked
  <2>4. Asked(t, h, v)
    BY <2>1, <2>2, <2>3, Zenon
  <2>. QED
    BY <2>4 DEF Asked
<1>2. ASSUME NEW w \in W PROVE w \in Int /\ w >= -1000
  <2>1. CASE w = 1000
    BY <2>1
  <2>2. CASE \E v \in P : w = t - v
    BY <1>1, <2>2
  <2>. QED
    BY <2>1, <2>2
<1>3. Min(W) \in W /\ \A w \in W : Min(W) <= w
  <2>1. W # {}
    OBVIOUS
  <2>. QED
    BY <1>2, <2>1, LeastIs
<1>4. PICK v \in P : TRUE
  OBVIOUS
<1>. DEFINE d == t - v
            least == Min(W)
<1>5. d \in W /\ d \in Int /\ d < 1000
  BY <1>1
<1>6. least # 1000
  <2>1. least <= d
    BY <1>3, <1>5
  <2>. HIDE DEF d, least
  <2>. QED
    BY <1>5, <2>1
<1>7. PICK u \in P : least = t - u
  BY <1>3, <1>6
<1>. QED
  BY <1>1, <1>7

(* The minimum of a split is what one of them asks for.                    *)
AsksLeast(q, key, m, effects, k, h, C, sub_min) ==
  /\ q \in Queries /\ k \in 1..Len(q.effects) /\ h \in -85..85
  /\ NodeFits(q, key, m, effects) /\ Candidates(q, key, m, k, h, C)
  /\ sub_min = Min({1000} \union { q.effects[k].points - GetPoints(c, k) : c \in C })

LEMMA SubMinIs ==
  ASSUME NEW q, NEW key, NEW m, NEW effects, NEW k, NEW h, NEW C, NEW sub_min,
         AsksLeast(q, key, m, effects, k, h, C, sub_min)
  PROVE  /\ sub_min \in Int /\ sub_min <= h
         /\ \E c \in C : c.pts[k] \in -42..42 /\ sub_min = q.effects[k].points - c.pts[k]
<1>. USE DEF AsksLeast
<1>. DEFINE t == q.effects[k].points
            P == { c.pts[k] : c \in C }
<1>1. t \in -127..127
  BY QueryParts, BytesAssumption
<1>2. ASSUME NEW c \in C PROVE c.pts[k] \in -42..42 /\ h + c.pts[k] >= t
  <2>1. FitsTree(q, key, m, c) /\ h + c.pts[k] >= t
    BY DEF Candidates
  <2>. QED
    BY <2>1, TreeJewels
<1>3. { t - GetPoints(c, k) : c \in C } = { t - v : v \in P }
  BY DEF GetPoints
<1>4. C # {}
  BY DEF Candidates
<1>. DEFINE W == {1000} \union { t - v : v \in P }
<1>5. sub_min = Min(W)
  <2>. DEFINE G == { t - GetPoints(c, k) : c \in C }
  <2>1. sub_min = Min({1000} \union G)
    BY Zenon
  <2>2. W = {1000} \union G
    BY <1>3
  <2>. HIDE DEF G, W
  <2>. QED
    BY <2>1, <2>2
<1>6. P # {} /\ \A v \in P : v \in -42..42 /\ h + v >= t
  BY <1>2, <1>4
<1>7. \A v \in P : \E c \in C : v = c.pts[k]
  OBVIOUS
<1>8. /\ 1000 \in W /\ \A v \in P : t - v \in W
      /\ \A w \in W : w = 1000 \/ \E v \in P : w = t - v
  OBVIOUS
<1>. HIDE DEF t, P, W
<1>9. PICK v \in P : Min(W) = t - v /\ Min(W) \in Int /\ Min(W) <= h
  <2>1. Asks(t, h, P, W)
    BY <1>1, <1>6, <1>8 DEF Asks
  <2>. QED
    BY <2>1, LeastAsked
<1>10. PICK c \in C : v = c.pts[k]
  BY <1>7
<1>. QED
  BY <1>5, <1>6, <1>9, <1>10 DEF t

(* A node whose key has gained points is as wide as before.                *)
LEMMA SameRoom ==
  ASSUME NEW key, NEW node, NEW k, NEW points, PointsAdded(key, node, k, points)
  PROVE  /\ Ones(node) = Ones(key) /\ Twos(node) = Twos(key) /\ Threes(node) = Threes(key)
         /\ BodySlotSum(node) = BodySlotSum(key) /\ Multiplier(node) = Multiplier(key)
<1>1. node.b0 = key.b0 /\ node.b1 = key.b1 /\ node.b2 = key.b2
  BY DEF PointsAdded
<1>2. BodyOnes(node) = BodyOnes(key) /\ BodyTwos(node) = BodyTwos(key)
      /\ BodyThrees(node) = BodyThrees(key)
  BY <1>1 DEF BodyOnes, BodyTwos, BodyThrees
<1>. QED
  BY <1>1, <1>2 DEF Ones, Twos, Threes, BodySlotSum, Multiplier

(* The candidates that a new node keeps are good for it, and the one that  *)
(* asked for the minimum is among them.                                    *)
LEMMA KeptIs ==
  ASSUME NEW q \in Queries, NEW k \in 1..Len(q.effects),
         NEW key, NEW m, NEW h, NEW C, Candidates(q, key, m, k, h, C),
         NEW points, NEW node, PointsAdded(key, node, k, points), NodeFits(q, node, m, k),
         DOMAIN key.pts = 1..Len(q.effects),
         NEW least \in C, node.pts[k] + least.pts[k] >= q.effects[k].points,
         NEW kept, kept = { c \in C : Satisfy(c || node, InverseKey(q.effects, 1..k)) }
  PROVE  JewelsGood(q, node, m, kept, k)
<1>. DEFINE n == Len(q.effects)
            Within128(x, y) == \A d \in 1..n : x.pts[d] + y.pts[d] \in -128..127
            Enough8(x, y) == \A d \in 1..n : x.pts[d] + y.pts[d] >= Target(q, 1..k, d)
<1>1. n \in Nat /\ k # 0 /\ k \in 0..n
  BY QueryParts
<1>2. ASSUME NEW c \in C
      PROVE  /\ FitsTree(q, node, m, c) /\ DOMAIN c.pts = 1..n /\ Within128(c, node)
             /\ \A d \in 1..n : /\ c.pts[d] + node.pts[d] = node.pts[d] + c.pts[d]
                                /\ d # k => node.pts[d] = key.pts[d]
  <2>1. FitsTree(q, node, m, c)
    BY SameRoom DEF FitsTree, Candidates
  <2>2. DOMAIN c.pts = 1..n
    BY <2>1, TreeJewels
  <2>3. ASSUME NEW d \in 1..n
        PROVE  /\ c.pts[d] + node.pts[d] \in -128..127
               /\ c.pts[d] + node.pts[d] = node.pts[d] + c.pts[d]
    <3>. DEFINE v == node.pts[d]
                w == c.pts[d]
    <3>1. w \in -42..42
      BY <2>1, TreeJewels
    <3>2. v \in -85..85
      BY DEF NodeFits
    <3>. HIDE DEF v, w
    <3>3. v + w \in -128..127
      BY <3>1, <3>2, SumFits
    <3>4. w + v = v + w
      BY <3>1, <3>2
    <3>. QED
      BY <3>3, <3>4 DEF v, w
  <2>4. \A d \in 1..n : d # k => node.pts[d] = key.pts[d]
    BY DEF PointsAdded
  <2>. QED
    BY <2>1, <2>2, <2>3, <2>4
<1>3. ASSUME NEW c \in C
      PROVE  /\ Satisfy(c || node, InverseKey(q.effects, 1..k)) <=> Enough8(c, node)
             /\ Enough8(c, node) <=> Enough8(node, c)
  <2>1. Satisfy(c || node, InverseKey(q.effects, 1..k)) <=> Enough8(c, node)
    BY <1>2, SatisfyIs
  <2>. QED
    BY <1>2, <2>1
<1>4. Enough8(node, least)
  <2>1. ASSUME NEW d \in 1..n PROVE node.pts[d] + least.pts[d] >= Target(q, 1..k, d)
    <3>1. CASE d # k
      BY <1>2, <3>1 DEF Candidates
    <3>2. CASE d = k
      <4>1. Target(q, 1..k, d) = q.effects[k].points
        BY <1>1, <3>2 DEF Target
      <4>. QED
        BY <3>2, <4>1
    <3>. QED
      BY <3>1, <3>2
  <2>. QED
    BY <2>1
<1>. HIDE DEF Enough8
<1>5. kept # {}
  BY <1>3, <1>4
<1>6. ASSUME NEW c \in kept PROVE FitsTree(q, node, m, c) /\ Reaches(q, node, c, k)
  <2>1. c \in C /\ Enough8(node, c)
    BY <1>3
  <2>2. Reaches(q, node, c, k)
    BY <1>1, <2>1, TargetsReached DEF Enough8
  <2>. QED
    BY <1>2, <2>1, <2>2
<1>. QED
  BY <1>1, <1>5, <1>6 DEF JewelsGood

(* A tree before a SkillSplitPruner, its best armor set, and what reaches  *)
(* the targets with that set.                                              *)
SplitsTree(k, tree, C) ==
  /\ query \in Queries /\ arsenal_ = Arsenal(query)
  /\ pool_ \in Pools /\ Sound(pool_, Armors(query))
  /\ k \in (F + 1)..N /\ TreeAt(query, pool_, k - 1, tree)
  /\ C # {}
  /\ C \subseteq Reaching(tree, k, AddPoints(NodeKey(tree), k, MaxPoints(k, tree)), 1..k)

LEMMA StageIs ==
  ASSUME query \in Queries, NEW k \in (F + 1)..N
  PROVE  /\ Len(query.effects) \in Nat /\ k \in 1..Len(query.effects)
         /\ k \in DOMAIN query.effects /\ k - 1 # 0 /\ (k - 1) + 1 = k
         /\ k - 1 < Len(query.effects)
         /\ ~(k <= FoundationEffects(query))
         /\ \A tree : Staged(query, tree, k - 1)
              = [id |-> tree.id, multiplier |-> tree.torso_multiplier, effects |-> k - 1]
<1>1. /\ Len(query.effects) \in Nat /\ DOMAIN query.effects = 1..Len(query.effects)
      /\ FoundationEffects(query) = F /\ N = Len(query.effects)
      /\ F = IF N < FOUNDATION_NUM THEN N ELSE FOUNDATION_NUM
  BY QueryParts DEF F, N, FoundationEffects
<1>2. F \in Nat /\ k \in Nat /\ F < k /\ k <= N /\ F # 0
  BY <1>1, FoundationAssumption
<1>3. ~(k <= F) /\ k \in 1..N /\ k - 1 # 0 /\ k - 1 < N /\ (k - 1 <= F => k - 1 = F)
  BY <1>1, <1>2
<1>4. ASSUME NEW tree PROVE Staged(query, tree, k - 1).effects = k - 1
  BY <1>1, <1>3 DEF Staged
<1>5. ASSUME NEW tree
      PROVE  Staged(query, tree, k - 1)
               = [id |-> tree.id, multiplier |-> tree.torso_multiplier, effects |-> k - 1]
  BY <1>1, <1>3, <1>4 DEF Staged
<1>. QED
  BY <1>1, <1>2, <1>3, <1>5

(* What is before a split.                                                 *)
LEMMA BeforeSplit ==
  ASSUME NEW k, NEW tree, NEW C, SplitsTree(k, tree, C)
  PROVE  /\ NodeFits(query, NodeKey(tree), tree.torso_multiplier, k - 1)
         /\ MaxPoints(k, tree) \in -85..85
         /\ \E x \in SetsOf(pool_, tree.id) : SetPoints(query, x, k) = MaxPoints(k, tree)
         /\ Candidates(query, NodeKey(tree), tree.torso_multiplier, k, MaxPoints(k, tree), C)
<1>. DEFINE n == Len(query.effects)
            key == NodeKey(tree)
            m == tree.torso_multiplier
            h == MaxPoints(k, tree)
            best == AddPoints(key, k, h)
            staged == Staged(query, tree, k - 1)
<1>1. /\ query \in Queries /\ arsenal_ = Arsenal(query)
      /\ pool_ \in Pools /\ Sound(pool_, Armors(query))
      /\ k \in (F + 1)..N /\ C # {} /\ C \subseteq Reaching(tree, k, best, 1..k)
      /\ TreeHolds(query, pool_, staged)
      /\ JewelsGood(query, key, m, tree.jewel_keys, k - 1)
  BY DEF SplitsTree, TreeAt, NodeKey
<1>2. /\ k \in 1..n /\ k \in DOMAIN query.effects /\ k - 1 # 0
      /\ staged = [id |-> tree.id, multiplier |-> m, effects |-> k - 1]
      /\ k > k - 1
  BY <1>1, StageIs
<1>3. NodeFits(query, key, m, k - 1)
  BY <1>1, <1>2, TreeFits DEF NodeKey
<1>4. h \in -85..85 /\ \E x \in SetsOf(pool_, tree.id) : SetPoints(query, x, k) = h
  BY <1>1, <1>2, MaxPointsHolds
<1>5. /\ key \in Keys /\ DOMAIN key.pts = 1..n
      /\ \A d \in 1..n : key.pts[d] \in -85..85 /\ key.pts[k] = 0
  BY <1>2, <1>3 DEF NodeFits
<1>6. \A y \in tree.jewel_keys : FitsTree(query, key, m, y)
  BY <1>1, <1>2 DEF JewelsGood
<1>. HIDE DEF h
<1>7. PointsAdded(key, best, k, h)
  <2>1. h \in Int
    BY <1>4
  <2>. QED
    BY <1>5, <2>1, AddPointsFields
<1>. HIDE DEF best
<1>8. best.pts[k] = h
  <2>1. best.pts[k] = Char8(0 + h)
    BY <1>2, <1>5, <1>7 DEF PointsAdded
  <2>2. 0 + h = h /\ h \in -128..127
    BY <1>4
  <2>. QED
    BY <2>1, <2>2, NoCarry
<1>9. DOMAIN best.pts = 1..n /\ \A d \in 1..n : d # k => best.pts[d] = key.pts[d]
  BY <1>5, <1>7 DEF PointsAdded
<1>10. \A d \in 1..n : best.pts[d] \in -85..85
  BY <1>4, <1>5, <1>8, <1>9
<1>11. ASSUME NEW c \in C
       PROVE  /\ FitsTree(query, key, m, c)
              /\ \A d \in 1..n : best.pts[d] + c.pts[d] >= Target(query, 1..k, d)
  <2>1. c \in Reaching(tree, k, best, 1..k)
    BY <1>1
  <2>. QED
    BY <1>1, <1>3, <1>6, <1>9, <1>10, <2>1, ReachingHolds
<1>12. Target(query, 1..k, k) = query.effects[k].points
  BY <1>2 DEF Target
<1>13. Candidates(query, key, m, k, h, C)
  BY <1>1, <1>2, <1>8, <1>9, <1>11, <1>12 DEF Candidates
<1>. QED
  BY <1>3, <1>4, <1>13 DEF h

(* What a SkillSplitPruner puts into its buffer.                           *)
SplitMade(k, tree, C, sub_min, split) ==
  /\ sub_min = Min({1000} \union { query.effects[k].points - GetPoints(c, k) : c \in C })
  /\ split = SplitOr(pool_, SplitterOf(k), tree.id, sub_min, tree.torso_multiplier)

KeptBy(k, C, node) == { c \in C : Satisfy(c || node, InverseKey(query.effects, 1..k)) }

(* The new trees have passed its stage, and there is one.                  *)
LEMMA SplitTryHolds ==
  ASSUME NEW k, NEW tree, NEW C, SplitsTree(k, tree, C),
         NEW sub_min, NEW split, SplitMade(k, tree, C, sub_min, split)
  PROVE  /\ split.pool \in Pools /\ Extends(pool_, split.pool)
         /\ Sound(split.pool, Armors(query))
         /\ Len(split.result) \in Nat /\ Len(split.result) # 0
         /\ DOMAIN split.result = 1..Len(split.result)
         /\ \A i \in DOMAIN split.result :
              TreeAt(query, split.pool, k,
                     TreeRoot(split.pool, split.result[i].id,
                              KeptBy(k, C, split.pool.ors[split.result[i].id].key)))
<1>. DEFINE n == Len(query.effects)
            key == NodeKey(tree)
            m == tree.torso_multiplier
            h == MaxPoints(k, tree)
            staged == Staged(query, tree, k - 1)
            D == { x \in SetsOf(pool_, tree.id) : SetPoints(query, x, k) >= sub_min }
<1>1. /\ query \in Queries /\ arsenal_ = Arsenal(query)
      /\ pool_ \in Pools /\ Sound(pool_, Armors(query))
      /\ k \in (F + 1)..N /\ TreeHolds(query, pool_, staged)
  BY DEF SplitsTree, TreeAt
<1>2. /\ n \in Nat /\ k \in 1..n /\ k \in DOMAIN query.effects /\ (k - 1) + 1 = k
      /\ k - 1 < n /\ ~(k <= FoundationEffects(query))
      /\ staged = [id |-> tree.id, multiplier |-> m, effects |-> k - 1]
  BY <1>1, StageIs
<1>3. /\ NodeFits(query, key, m, k - 1) /\ h \in -85..85
      /\ Candidates(query, key, m, k, h, C)
      /\ \E x \in SetsOf(pool_, tree.id) : SetPoints(query, x, k) = h
  BY BeforeSplit
<1>. HIDE DEF h
<1>4. /\ sub_min \in Int /\ sub_min <= h
      /\ \E c \in C : c.pts[k] \in -42..42 /\ sub_min = query.effects[k].points - c.pts[k]
  <2>1. sub_min = Min({1000} \union { query.effects[k].points - GetPoints(c, k) : c \in C })
    BY DEF SplitMade
  <2>2. AsksLeast(query, key, m, k - 1, k, h, C, sub_min)
    BY <1>1, <1>2, <1>3, <2>1 DEF AsksLeast
  <2>. HIDE DEF key, m
  <2>. QED
    BY <2>2, SubMinIs
<1>5. TreeSplit(query, pool_, staged, k, sub_min, split)
  <2>1. SplitterOf(k) = Splitter(query, k)
    BY <1>1 DEF SplitterOf, Splitter
  <2>2. split = SplitOr(pool_, Splitter(query, k), staged.id, sub_min, staged.multiplier)
    BY <1>2, <2>1 DEF SplitMade
  <2>. QED
    BY <1>1, <1>2, <1>4, <2>2, TreeIsSplit
<1>6. /\ split.pool \in Pools /\ Extends(pool_, split.pool) /\ Sound(split.pool, Armors(query))
      /\ Len(split.result) \in Nat /\ DOMAIN split.result = 1..Len(split.result)
      /\ Holds(split.pool, ResultIds(split.result), D)
      /\ \A i \in DOMAIN split.result :
           /\ split.result[i].points \in Int
           /\ split.pool.ors[split.result[i].id].key
                = AddPoints(key, k, split.result[i].points)
  <2>1. staged.id = tree.id /\ Splitter(query, k).effect = k
    BY <1>2 DEF Splitter
  <2>. HIDE DEF D, staged
  <2>2. SplitInto(pool_, split, key, "ANDS", { x \in SetsOf(pool_, tree.id) : SetPoints(query, x, k) >= sub_min },
                  Splitter(query, k), staged.multiplier, Armors(query))
    BY <1>5, <2>1 DEF TreeSplit, NodeKey
  <2>. QED
    BY <2>1, <2>2 DEF SplitInto, D
<1>7. Len(split.result) # 0
  <2>1. PICK x \in SetsOf(pool_, tree.id) : SetPoints(query, x, k) = h
    BY <1>3
  <2>2. x \in D
    BY <1>4, <2>1, <1>3
  <2>3. \E i \in DOMAIN ResultIds(split.result) : TRUE
    BY <1>6, <2>2 DEF Holds
  <2>. QED
    BY <1>6, <2>3 DEF ResultIds
<1>8. ASSUME NEW i \in DOMAIN split.result
      PROVE  TreeAt(query, split.pool, k,
                    TreeRoot(split.pool, split.result[i].id,
                             KeptBy(k, C, split.pool.ors[split.result[i].id].key)))
  <2>. DEFINE id == split.result[i].id
              node == split.pool.ors[id].key
              times == Multiplier(node)
              new == [id |-> id, multiplier |-> times, effects |-> k]
              made == TreeRoot(split.pool, id, KeptBy(k, C, node))
  <2>1. TreeHolds(query, split.pool, new)
    <3>1. staged.effects = k - 1
      BY <1>2
    <3>. HIDE DEF staged
    <3>. QED
      BY <1>1, <1>2, <1>4, <1>5, <3>1, NewTrees
  <2>2. NodeFits(query, node, times, k)
    <3>1. NodeFits(query, split.pool.ors[new.id].key, new.multiplier, new.effects)
      BY <1>1, <1>6, <2>1, TreeFits
    <3>2. new.id = id /\ new.multiplier = times /\ new.effects = k
      OBVIOUS
    <3>. QED
      BY <3>1, <3>2
  <2>3. /\ made = [id |-> made.id, jewel_keys |-> made.jewel_keys,
                   torso_multiplier |-> made.torso_multiplier]
        /\ made.id = id /\ made.jewel_keys = KeptBy(k, C, node)
        /\ made.torso_multiplier = times
    BY DEF TreeRoot
  <2>4. Staged(query, made, k) = new
    BY <1>2, <2>3 DEF Staged
  <2>5. PointsAdded(key, node, k, split.result[i].points)
    <3>1. key \in Keys /\ node = AddPoints(key, k, split.result[i].points)
          /\ split.result[i].points \in Int
      BY <1>3, <1>6 DEF NodeFits
    <3>. QED
      BY <3>1, AddPointsFields
  <2>6. times = m
    <3>1. times = Multiplier(key)
      BY <2>5, SameRoom
    <3>2. staged.multiplier = Multiplier(pool_.ors[staged.id].key)
      BY <1>1 DEF TreeHolds
    <3>. QED
      BY <1>2, <3>1, <3>2 DEF NodeKey
  <2>7. node.pts[k] >= sub_min /\ node.pts[k] \in Int
    <3>1. id \in DOMAIN split.pool.ors /\ SetsOf(split.pool, id) # {}
          /\ SetsOf(split.pool, id) \subseteq D
      <4>1. i \in DOMAIN ResultIds(split.result) /\ ResultIds(split.result)[i] = id
        BY DEF ResultIds
      <4>. QED
        BY <1>6, <4>1 DEF Holds
    <3>2. PICK x \in SetsOf(split.pool, id) : TRUE
      BY <3>1
    <3>3. SetPoints(query, x, k) >= sub_min
      BY <3>1
    <3>4. SetTells(query, node, x, k)
      <4>1. new.id = id /\ new.effects = k
        OBVIOUS
      <4>. QED
        BY <2>1, <4>1 DEF TreeHolds
    <3>5. node.pts[k] = SetPoints(query, x, k)
      <4>1. GetPoints(node, k) = IF k <= k THEN SetPoints(query, x, k) ELSE 0
        BY <1>2, <3>4 DEF SetTells, KeyTells
      <4>2. k <= k
        BY <1>2
      <4>. HIDE DEF node
      <4>. QED
        BY <4>1, <4>2 DEF GetPoints
    <3>6. node.pts[k] \in -85..85
      BY <1>2, <2>2 DEF NodeFits
    <3>. QED
      BY <3>3, <3>5, <3>6
  <2>8. PICK c \in C : c.pts[k] \in -42..42 /\ sub_min = query.effects[k].points - c.pts[k]
    BY <1>4
  <2>9. node.pts[k] + c.pts[k] >= query.effects[k].points
    <3>. DEFINE v == node.pts[k]
                w == c.pts[k]
                t == query.effects[k].points
    <3>1. t \in -127..127
      BY <1>1, <1>2, BytesAssumption
    <3>2. w \in -42..42 /\ sub_min = t - w /\ v >= sub_min /\ v \in Int
      BY <2>7, <2>8
    <3>. HIDE DEF v, w, t
    <3>3. v + w >= t
      BY <3>1, <3>2
    <3>. QED
      BY <3>3 DEF v, w, t
  <2>10. JewelsGood(query, node, times, KeptBy(k, C, node), k)
    <3>1. DOMAIN key.pts = 1..n
      BY <1>3 DEF NodeFits
    <3>2. Candidates(query, key, times, k, h, C)
      BY <1>3, <2>6
    <3>. HIDE DEF key, node, times
    <3>. QED
      BY <1>1, <1>2, <2>2, <2>5, <2>8, <2>9, <3>1, <3>2, KeptIs DEF KeptBy
  <2>. HIDE DEF new, made
  <2>11. TreeAt(query, split.pool, k, made)
    BY <2>1, <2>3, <2>4, <2>10 DEF TreeAt
  <2>. QED
    BY <2>11 DEF made
<1>. QED
  BY <1>6, <1>7, <1>8

-----------------------------------------------------------------------------
(* The inductive invariant.                                                *)

(* A list of trees that have passed stage k.                               *)
Buffered(q, p, k, list) ==
  /\ list \in Seq(ToSet(list))
  /\ \A tree \in ToSet(list) : TreeAt(q, p, k, tree)

RootsHold(q, p, ids) ==
  /\ ids \in Seq(Nat)
  /\ \A id \in ToSet(ids) :
       TreeHolds(q, p, [id |-> id, multiplier |-> Multiplier(p.ors[id].key),
                        effects |-> FoundationEffects(q)])

Searching ==
  /\ query \in Queries /\ arsenal_ = Arsenal(query)
  /\ pool_ \in Pools /\ Sound(pool_, Armors(query))
  /\ RootsHold(query, pool_, roots)
  /\ pointer \in Nat
  /\ DOMAIN buffer = 0..N
  /\ \A k \in 0..N : Buffered(query, pool_, k, buffer[k])

(* A stage whose source has answered finds a tree there.                   *)
Answered == (msg = "yes" /\ at \in 1..(N + 1)) => buffer[at - 1] # <<>>

SearchInv == (msg = "idle" /\ buffer = NoTrees) \/ (Searching /\ Answered)

(* Lists of trees.                                                         *)
LEMMA NoneBuffered == ASSUME NEW q, NEW p, NEW k PROVE Buffered(q, p, k, <<>>)
<1>1. ToSet(<<>>) = {} /\ <<>> \in Seq({})
  BY DEF ToSet
<1>. QED
  BY <1>1 DEF Buffered

LEMMA ManyBuffered ==
  ASSUME NEW q, NEW p, NEW k, NEW n \in Nat, NEW list, list = [i \in 1..n |-> list[i]],
         \A i \in 1..n : TreeAt(q, p, k, list[i])
  PROVE  Buffered(q, p, k, list) /\ (n # 0 => list # <<>>)
<1>1. ToSet(list) = { list[i] : i \in 1..n } /\ DOMAIN list = 1..n
  BY DEF ToSet
<1>2. list \in [1..n -> ToSet(list)]
  BY <1>1
<1>3. list \in Seq(ToSet(list))
  BY <1>2, SeqDef
<1>4. ASSUME n # 0 PROVE list # <<>>
  <2>1. 1 \in DOMAIN list
    BY <1>1, <1>4
  <2>. QED
    BY <2>1
<1>. QED
  BY <1>1, <1>3, <1>4 DEF Buffered

LEMMA OneBuffered ==
  ASSUME NEW q, NEW p, NEW k, NEW tree, TreeAt(q, p, k, tree)
  PROVE  Buffered(q, p, k, <<tree>>) /\ <<tree>> # <<>>
<1>. DEFINE list == <<tree>>
            one == 1
<1>1. list = [i \in 1..1 |-> list[i]] /\ \A i \in 1..1 : list[i] = tree
  OBVIOUS
<1>2. one \in Nat /\ one # 0 /\ list = [i \in 1..one |-> list[i]]
      /\ \A i \in 1..one : list[i] = tree
  BY <1>1
<1>. HIDE DEF list, one
<1>3. Buffered(q, p, k, list) /\ (one # 0 => list # <<>>)
  BY <1>2, ManyBuffered
<1>. QED
  BY <1>2, <1>3 DEF list

LEMMA LastBuffered ==
  ASSUME NEW q, NEW p, NEW k, NEW list, Buffered(q, p, k, list), list # <<>>
  PROVE  TreeAt(q, p, k, Last(list))
<1>1. list \in Seq(ToSet(list))
  BY DEF Buffered
<1>2. Len(list) \in Nat /\ DOMAIN list = 1..Len(list) /\ Len(list) # 0
  BY <1>1, EmptySeq, LenProperties
<1>3. Last(list) = list[Len(list)] /\ Len(list) \in DOMAIN list
  BY <1>2 DEF Last
<1>4. Last(list) \in ToSet(list)
  BY <1>3 DEF ToSet
<1>. QED
  BY <1>4 DEF Buffered

LEMMA FrontBuffered ==
  ASSUME NEW q, NEW p, NEW k, NEW list, Buffered(q, p, k, list), Len(list) > 1
  PROVE  Buffered(q, p, k, Front(list)) /\ Front(list) # <<>>
<1>. DEFINE n == Len(list) - 1
            front == Front(list)
<1>1. list \in Seq(ToSet(list))
  BY DEF Buffered
<1>2. Len(list) \in Nat /\ DOMAIN list = 1..Len(list) /\ n \in Nat /\ n # 0
  <2>. DEFINE L == Len(list)
  <2>1. L \in Nat /\ DOMAIN list = 1..L
    BY <1>1, LenProperties
  <2>2. L > 1
    OBVIOUS
  <2>. HIDE DEF L
  <2>3. L - 1 \in Nat /\ L - 1 # 0
    BY <2>1, <2>2
  <2>. QED
    BY <2>1, <2>3 DEF L
<1>3. front = SubSeq(list, 1, n)
  BY DEF Front
<1>4. front = [i \in 1..n |-> front[i]] /\ \A i \in 1..n : front[i] = list[i]
  BY <1>1, <1>2, <1>3
<1>5. ASSUME NEW i \in 1..n PROVE TreeAt(q, p, k, front[i])
  <2>1. list[i] \in ToSet(list)
    BY <1>2 DEF ToSet
  <2>. QED
    BY <1>4, <2>1 DEF Buffered
<1>. HIDE DEF n, front
<1>6. Buffered(q, p, k, front) /\ (n # 0 => front # <<>>)
  BY <1>2, <1>4, <1>5, ManyBuffered
<1>. QED
  BY <1>2, <1>6 DEF front

LEMMA BufferedStays ==
  ASSUME NEW q, NEW p \in Pools, NEW r \in Pools, Extends(p, r),
         NEW k, NEW list, Buffered(q, p, k, list)
  PROVE  Buffered(q, r, k, list)
BY TreeAtStays DEF Buffered

LEMMA RootsStay ==
  ASSUME NEW q, NEW p \in Pools, NEW r \in Pools, Extends(p, r),
         NEW ids, RootsHold(q, p, ids)
  PROVE  RootsHold(q, r, ids)
<1>1. ASSUME NEW id \in ToSet(ids)
      PROVE  TreeHolds(q, r, [id |-> id, multiplier |-> Multiplier(r.ors[id].key),
                              effects |-> FoundationEffects(q)])
  <2>. DEFINE tree == [id |-> id, multiplier |-> Multiplier(p.ors[id].key),
                       effects |-> FoundationEffects(q)]
  <2>1. TreeHolds(q, p, tree)
    BY DEF RootsHold
  <2>2. tree.id = id
    OBVIOUS
  <2>3. id \in DOMAIN p.ors
    BY <2>1, <2>2 DEF TreeHolds
  <2>4. r.ors[id] = p.ors[id]
    BY <2>3, PoolParts DEF Extends
  <2>. HIDE DEF tree
  <2>5. TreeHolds(q, r, tree)
    BY <2>1, TreeStays
  <2>. QED
    BY <2>4, <2>5 DEF tree
<1>. QED
  BY <1>1 DEF RootsHold

(* Steps that leave the trees alone.                                       *)
forest_vars == <<query, arsenal_, pool_, roots, pointer, buffer>>

LEMMA QuietStep ==
  ASSUME Searching, UNCHANGED forest_vars, ~(msg' = "yes" /\ at' \in 1..(N + 1))
  PROVE  SearchInv'
<1>1. Searching'
  BY DEF Searching, forest_vars, N
<1>2. Answered'
  BY DEF Answered, forest_vars, N
<1>. QED
  BY <1>1, <1>2 DEF SearchInv

(* Steps that fill the buffer of one stage.                                *)
LEMMA BufferStep ==
  ASSUME Searching, UNCHANGED <<query, arsenal_, pool_, roots>>, pointer' \in Nat,
         NEW k \in 0..N, NEW list, Buffered(query, pool_, k, list),
         buffer' = [buffer EXCEPT ![k] = list],
         msg' = "yes" => at' = k + 1 /\ list # <<>>
  PROVE  SearchInv'
<1>1. DOMAIN buffer' = 0..N /\ buffer'[k] = list
      /\ \A j \in 0..N : j # k => buffer'[j] = buffer[j]
  BY DEF Searching
<1>2. \A j \in 0..N : Buffered(query, pool_, j, buffer'[j])
  BY <1>1 DEF Searching
<1>3. Searching'
  BY <1>1, <1>2 DEF Searching, N
<1>4. Answered'
  <2>1. k \in Int
    OBVIOUS
  <2>2. (k + 1) - 1 = k
    BY <2>1
  <2>. QED
    BY <1>1, <2>2 DEF Answered
<1>. QED
  BY <1>3, <1>4 DEF SearchInv

-----------------------------------------------------------------------------
(* The steps of the chain.                                                 *)
LEMMA StagesAre ==
  ASSUME query \in Queries
  PROVE  N \in Nat /\ N = Len(query.effects) /\ F \in Nat /\ F <= N /\ F = FoundationEffects(query)
<1>1. N \in Nat /\ N = Len(query.effects) /\ F = FoundationEffects(query)
      /\ F = IF N < FOUNDATION_NUM THEN N ELSE FOUNDATION_NUM
  BY QueryParts DEF F, N, FoundationEffects
<1>. QED
  BY <1>1, FoundationAssumption

(* Search starts with a foundation and no trees in the buffers.            *)
LEMMA SearchCoreStep ==
  ASSUME NEW q \in Queries, SearchCore(q)
  PROVE  SearchInv'
<1>. DEFINE r == Foundation(Arsenal(q), q)
<1>1. /\ query' = q /\ arsenal_' = Arsenal(q)
      /\ pointer' = 0 /\ msg' = "ask"
      /\ buffer' = [k \in 0 .. Len(q.effects) |-> <<>>]
  BY DEF SearchCore, InitializeArsenal, Arsenal
<1>2. pool_' = r.pool /\ roots' = r.forest
  BY <1>1 DEF SearchCore
<1>. HIDE DEF r
<1>3. PICK forests : PoolHolds(q, pool_', forests, roots', PART_NUM)
  BY <1>2, FoundationPool DEF r
<1>4. pool_' \in Pools /\ Sound(pool_', Armors(q)) /\ roots' \in Seq(Nat)
  BY <1>3 DEF PoolHolds, Forested, Holds
<1>5. RootsHold(q, pool_', roots')
  BY <1>3, <1>4, RootsAreTrees DEF RootsHold
<1>6. N' = Len(q.effects)
  BY <1>1 DEF N
<1>7. DOMAIN buffer' = 0..N' /\ \A k \in 0..N' : Buffered(q, pool_', k, buffer'[k])
  BY <1>1, <1>6, NoneBuffered
<1>8. Searching'
  BY <1>1, <1>4, <1>5, <1>7 DEF Searching
<1>9. Answered'
  BY <1>1 DEF Answered
<1>. QED
  BY <1>8, <1>9 DEF SearchInv

(* ListIterator::Next gives a root, without jewels.                        *)
LEMMA ListNextStep ==
  ASSUME Searching, ListNext
  PROVE  SearchInv'
<1>1. /\ query \in Queries /\ RootsHold(query, pool_, roots) /\ pointer \in Nat
      /\ UNCHANGED <<query, arsenal_, pool_, roots>> /\ at = 0 /\ pointer' = pointer + 1
  BY DEF Searching, ListNext, request
<1>2. pointer' \in Nat /\ DOMAIN buffer = 0..N /\ N \in Nat
  BY <1>1, StagesAre DEF Searching
<1>3. CASE pointer < Len(roots)
  <2>. DEFINE id == roots[pointer']
              tree == TreeRoot(pool_, id, {})
  <2>1. roots \in Seq(Nat) /\ DOMAIN roots = 1..Len(roots) /\ Len(roots) \in Nat
    BY <1>1, LenProperties DEF RootsHold
  <2>2. pointer' \in DOMAIN roots
    BY <1>1, <1>3, <2>1
  <2>3. id \in ToSet(roots)
    BY <2>2 DEF ToSet
  <2>4. TreeHolds(query, pool_, [id |-> id, multiplier |-> Multiplier(pool_.ors[id].key),
                                 effects |-> FoundationEffects(query)])
    BY <1>1, <2>3 DEF RootsHold
  <2>. HIDE DEF id
  <2>5. /\ tree = [id |-> tree.id, jewel_keys |-> tree.jewel_keys,
                   torso_multiplier |-> tree.torso_multiplier]
        /\ tree.id = id /\ tree.jewel_keys = {}
        /\ tree.torso_multiplier = Multiplier(pool_.ors[id].key)
    BY DEF TreeRoot
  <2>6. 0 <= FoundationEffects(query)
    BY <1>1, StagesAre
  <2>. HIDE DEF tree
  <2>7. TreeAt(query, pool_, 0, tree)
    BY <2>4, <2>5, <2>6 DEF TreeAt, Staged, JewelsGood
  <2>8. Buffered(query, pool_, 0, <<tree>>) /\ <<tree>> # <<>>
    BY <2>7, OneBuffered
  <2>9. buffer' = [buffer EXCEPT ![0] = <<tree>>] /\ at' = 0 + 1
    BY <1>1, <1>3 DEF ListNext, Answer, tree, id
  <2>10. 0 \in 0..N
    BY <1>2
  <2>. QED
    BY <1>1, <1>2, <2>8, <2>9, <2>10, BufferStep
<1>4. CASE ~(pointer < Len(roots))
  <2>1. UNCHANGED <<query, arsenal_, pool_, roots, buffer>> /\ msg' = "no"
    BY <1>1, <1>4 DEF ListNext, GiveUp
  <2>2. Searching'
    BY <1>2, <2>1 DEF Searching, N
  <2>3. Answered'
    BY <2>1 DEF Answered
  <2>. QED
    BY <2>2, <2>3 DEF SearchInv
<1>. QED
  BY <1>3, <1>4

LEMMA PassDownStep ==
  ASSUME Searching, PassDown
  PROVE  SearchInv'
<1>1. /\ query \in Queries /\ pointer \in Nat /\ msg' = "ask"
      /\ UNCHANGED <<query, arsenal_, pool_, roots, pointer>>
  BY DEF Searching, PassDown, Ask, request
<1>2. N \in Nat /\ F \in Nat
  BY <1>1, StagesAre
<1>3. CASE UNCHANGED buffer
  BY <1>1, <1>3, QuietStep DEF forest_vars
<1>4. CASE at \in F + 1 .. N /\ buffer' = [buffer EXCEPT ![at] = <<>>]
  <2>1. at \in 0..N
    BY <1>2, <1>4
  <2>2. Buffered(query, pool_, at, <<>>)
    BY NoneBuffered
  <2>. QED
    BY <1>1, <1>4, <2>1, <2>2, BufferStep
<1>. QED
  BY <1>3, <1>4 DEF PassDown

(* The steps above the pruners and splitters, and those that give up.      *)
LEMMA UpperStep ==
  ASSUME Searching,
         \/ PassUp \/ UnpackNext \/ UnpackTree \/ DefenseTry
         \/ FinalNext \/ FinalTry \/ FinalFault
         \/ \E back \in Backs(raw_keys) : NextRaw(back)
         \/ Collect \/ Finish
  PROVE  SearchInv'
<1>1. N \in Nat
  BY StagesAre DEF Searching
<1>2. UNCHANGED forest_vars
  BY DEF PassUp, UnpackNext, UnpackTree, DefenseTry, FinalNext, FinalTry, FinalFault,
         NextRaw, Collect, Finish, request, forest_vars
<1>3. ASSUME msg' = "yes", at' \in 1..(N + 1) PROVE FALSE
  <2>1. ~(PassUp \/ FinalNext \/ FinalFault \/ (\E back \in Backs(raw_keys) : NextRaw(back))
            \/ Collect \/ Finish)
    BY <1>3 DEF PassUp, FinalNext, FinalFault, NextRaw, Collect, Finish, GiveUp, Ask
  <2>2. at \in {N + 1, N + 2, N + 3} /\ at' = at + 1
    BY <1>3, <2>1 DEF UnpackNext, UnpackTree, DefenseTry, FinalTry, Answer, Ask,
                      UnpackStage, DefenseStage, FinalStage
  <2>. QED
    BY <1>1, <1>3, <2>2
<1>. QED
  BY <1>2, <1>3, QuietStep

(* What is at the stage below one that got an answer.                      *)
LEMMA TreeGot ==
  ASSUME Searching, Answered, msg = "yes", at \in 1..N
  PROVE  TreeAt(query, pool_, at - 1, Get(at - 1))
<1>1. N \in Nat
  BY StagesAre DEF Searching
<1>2. at - 1 \in 0..N /\ at \in 1..(N + 1)
  BY <1>1
<1>3. Buffered(query, pool_, at - 1, buffer[at - 1]) /\ buffer[at - 1] # <<>>
  BY <1>2 DEF Searching, Answered
<1>. QED
  BY <1>3, LastBuffered DEF Get

LEMMA JewelTryStep ==
  ASSUME Searching, Answered, JewelTry
  PROVE  SearchInv'
<1>. DEFINE tree == Get(at - 1)
            from == IF tree.jewel_keys = {}
                    THEN [tree EXCEPT !.jewel_keys = {ZeroKey(N)}] ELSE tree
            keys == Reaching(from, at, NodeKey(tree), 1..at)
            new == [tree EXCEPT !.jewel_keys = keys]
<1>1. /\ query \in Queries /\ pool_ \in Pools /\ Sound(pool_, Armors(query))
      /\ UNCHANGED <<query, arsenal_, pool_, roots, pointer>> /\ pointer \in Nat
      /\ at \in 1..F /\ msg = "yes"
  BY DEF Searching, JewelTry, request
<1>2. N \in Nat /\ F \in Nat /\ F <= N
  BY <1>1, StagesAre
<1>3. at \in 1..N /\ at \in 0..N
  BY <1>1, <1>2
<1>4. TreeAt(query, pool_, at - 1, tree)
  BY <1>1, <1>3, TreeGot
<1>5. CASE keys # {}
  <2>1. buffer' = [buffer EXCEPT ![at] = <<new>>] /\ at' = at + 1
    BY <1>5 DEF JewelTry, Answer
  <2>. HIDE DEF tree
  <2>2. TreeAt(query, pool_, at, new)
    BY <1>1, <1>4, <1>5, PrunedHolds
  <2>. HIDE DEF new
  <2>3. Buffered(query, pool_, at, <<new>>) /\ <<new>> # <<>>
    BY <2>2, OneBuffered
  <2>. QED
    BY <1>1, <1>3, <2>1, <2>3, BufferStep
<1>6. CASE keys = {}
  <2>1. UNCHANGED buffer /\ msg' = "ask"
    BY <1>6 DEF JewelTry, Ask
  <2>. QED
    BY <1>1, <2>1, QuietStep DEF forest_vars
<1>. QED
  BY <1>5, <1>6

LEMMA SplitNextStep ==
  ASSUME Searching, SplitNext
  PROVE  SearchInv'
<1>1. /\ query \in Queries /\ UNCHANGED <<query, arsenal_, pool_, roots, pointer>>
      /\ pointer \in Nat /\ at \in F + 1 .. N /\ Len(buffer[at]) > 1
      /\ DOMAIN buffer = 0..N /\ at' = at + 1
  BY DEF Searching, SplitNext, Answer, request
<1>2. N \in Nat /\ F \in Nat
  BY <1>1, StagesAre
<1>3. at \in 0..N
  BY <1>1, <1>2
<1>4. Buffered(query, pool_, at, buffer[at])
  BY <1>3 DEF Searching
<1>. DEFINE list == Front(buffer[at])
<1>5. Buffered(query, pool_, at, list) /\ list # <<>>
  BY <1>1, <1>4, FrontBuffered
<1>6. buffer' = [buffer EXCEPT ![at] = list]
  BY DEF SplitNext
<1>. HIDE DEF list
<1>. QED
  BY <1>1, <1>3, <1>5, <1>6, BufferStep

(* A split: new trees at its stage, the others as they were.               *)
LEMMA SplitTryStep ==
  ASSUME Searching, Answered, SplitTry
  PROVE  SearchInv'
<1>. DEFINE tree == Get(at - 1)
            candidates ==
              IF ~PreFilter(tree) THEN {}
              ELSE Reaching(tree, at, AddPoints(NodeKey(tree), at, MaxPoints(at, tree)), 1..at)
            sub_min == Min({1000} \union
                           { query.effects[at].points - GetPoints(key, at) : key \in candidates })
            split == SplitOr(pool_, SplitterOf(at), tree.id, sub_min, tree.torso_multiplier)
            made == [n \in DOMAIN split.result |->
                       LET id == split.result[n].id
                       IN  TreeRoot(split.pool, id,
                                    KeptBy(at, candidates, split.pool.ors[id].key))]
<1>1. /\ query \in Queries /\ arsenal_ = Arsenal(query)
      /\ pool_ \in Pools /\ Sound(pool_, Armors(query))
      /\ UNCHANGED <<query, arsenal_, roots, pointer>> /\ pointer \in Nat
      /\ RootsHold(query, pool_, roots)
      /\ at \in (F + 1)..N /\ msg = "yes" /\ DOMAIN buffer = 0..N
  BY DEF Searching, SplitTry, request
<1>2. N \in Nat /\ F \in Nat
  BY <1>1, StagesAre
<1>3. at \in 1..N /\ at \in 0..N /\ (at + 1) - 1 = at
  BY <1>1, <1>2
<1>4. TreeAt(query, pool_, at - 1, tree)
  BY <1>1, <1>3, TreeGot
<1>5. CASE candidates # {}
  <2>1. /\ pool_' = split.pool /\ at' = at + 1 /\ msg' = "yes"
        /\ buffer' = [buffer EXCEPT ![at] = made]
    <3>1. pool_' = split.pool /\ at' = at + 1 /\ msg' = "yes"
      <4>1. Answer
        BY <1>5, Zenon DEF SplitTry
      <4>2. pool_' = split.pool
        BY <1>5, Zenon DEF SplitTry
      <4>. QED
        BY <4>1, <4>2 DEF Answer
    <3>2. buffer' = [buffer EXCEPT ![at] =
                       [n \in DOMAIN split.result |->
                          TreeRoot(split.pool, split.result[n].id,
                                   KeptBy(at, candidates,
                                          split.pool.ors[split.result[n].id].key))]]
      BY <1>5, Zenon DEF SplitTry, KeptBy
    <3>. QED
      BY <3>1, <3>2
  <2>2. candidates \subseteq
          Reaching(tree, at, AddPoints(NodeKey(tree), at, MaxPoints(at, tree)), 1..at)
    OBVIOUS
  <2>3. SplitMade(at, tree, candidates, sub_min, split)
    BY Zenon DEF SplitMade
  <2>. HIDE DEF tree, candidates, sub_min, split
  <2>4. SplitsTree(at, tree, candidates)
    BY <1>1, <1>4, <1>5, <2>2 DEF SplitsTree
  <2>5. /\ split.pool \in Pools /\ Extends(pool_, split.pool)
        /\ Sound(split.pool, Armors(query))
        /\ Len(split.result) \in Nat /\ Len(split.result) # 0
        /\ DOMAIN split.result = 1..Len(split.result)
        /\ \A i \in DOMAIN split.result :
             TreeAt(query, split.pool, at,
                    TreeRoot(split.pool, split.result[i].id,
                             KeptBy(at, candidates, split.pool.ors[split.result[i].id].key)))
    BY <2>3, <2>4, SplitTryHolds
  <2>. DEFINE n == Len(split.result)
  <2>6. made = [i \in 1..n |-> made[i]] /\ \A i \in 1..n : TreeAt(query, split.pool, at, made[i])
    BY <2>5
  <2>. HIDE DEF made, n
  <2>7. n \in Nat /\ n # 0
    BY <2>5 DEF n
  <2>8. Buffered(query, split.pool, at, made) /\ made # <<>>
    BY <2>6, <2>7, ManyBuffered
  <2>9. ASSUME NEW k \in 0..N
        PROVE  Buffered(query, split.pool, k, buffer'[k])
    <3>1. CASE k = at
      BY <1>1, <1>3, <2>1, <2>8, <3>1
    <3>2. CASE k # at
      <4>1. buffer'[k] = buffer[k] /\ Buffered(query, pool_, k, buffer[k])
        BY <1>1, <2>1, <3>2 DEF Searching
      <4>. QED
        BY <1>1, <2>5, <4>1, BufferedStays
    <3>. QED
      BY <3>1, <3>2
  <2>10. RootsHold(query, split.pool, roots)
    BY <1>1, <2>5, RootsStay
  <2>11. DOMAIN buffer' = 0..N /\ buffer'[at] # <<>>
    BY <1>1, <1>3, <2>1, <2>8
  <2>12. Searching'
    BY <1>1, <2>1, <2>5, <2>9, <2>10, <2>11 DEF Searching, N
  <2>13. Answered'
    <3>1. at' - 1 = at
      BY <1>3, <2>1
    <3>. QED
      BY <2>11, <3>1 DEF Answered
  <2>. QED
    BY <2>12, <2>13 DEF SearchInv
<1>6. CASE candidates = {}
  <2>1. UNCHANGED <<pool_, buffer>> /\ msg' = "ask"
    BY <1>6, Zenon DEF SplitTry, Ask
  <2>. QED
    BY <1>1, <2>1, QuietStep DEF forest_vars
<1>. QED
  BY <1>5, <1>6

(* Every step keeps what the stages hold.                                  *)
LEMMA SearchStep ==
  ASSUME SearchInv, [SearchNext]_search_vars
  PROVE  SearchInv'
<1>1. CASE UNCHANGED search_vars
  <2>1. UNCHANGED <<forest_vars, at, msg>>
    BY <1>1 DEF search_vars, request, forest_vars
  <2>2. CASE msg = "idle" /\ buffer = NoTrees
    BY <2>1, <2>2 DEF SearchInv, forest_vars, NoTrees
  <2>3. CASE Searching /\ Answered
    <3>1. Searching'
      BY <2>1, <2>3 DEF Searching, forest_vars, N
    <3>2. Answered'
      BY <2>1, <2>3 DEF Answered, forest_vars, N
    <3>. QED
      BY <3>1, <3>2 DEF SearchInv
  <2>. QED
    BY <2>2, <2>3 DEF SearchInv
<1>2. ASSUME NEW q \in Queries, SearchCore(q) PROVE SearchInv'
  BY <1>2, SearchCoreStep
<1>3. CASE Step
  <2>1. msg # "idle"
    BY <1>3 DEF Step, ListNext, PassDown, PassUp, JewelTry, SplitNext, SplitTry, UnpackNext,
                UnpackTree, DefenseTry, FinalNext, FinalTry, FinalFault, NextRaw, Collect, Finish
  <2>2. Searching /\ Answered
    BY <2>1 DEF SearchInv
  <2>. QED
    BY <1>3, <2>2, ListNextStep, PassDownStep, UpperStep, JewelTryStep, SplitNextStep,
       SplitTryStep DEF Step
<1>. QED
  BY <1>1, <1>2, <1>3 DEF SearchNext

(* What the invariant says of the jewel keys.                              *)
LEMMA GoodKeysReach ==
  ASSUME query \in Queries, pool_ \in Pools, Sound(pool_, Armors(query)),
         NEW k \in 1..N, NEW tree, TreeAt(query, pool_, k, tree)
  PROVE  /\ tree.jewel_keys # {}
         /\ \A key \in tree.jewel_keys :
              /\ Fits(SlotsOf(key), SlotsOf(NodeKey(tree)))
              /\ BodySlotSum(key) <= BodySlotSum(NodeKey(tree))
              /\ \A e \in 1..k :
                   GetPoints(NodeKey(tree), e) + GetPoints(key, e) >= query.effects[e].points
<1>. DEFINE node == NodeKey(tree)
            m == tree.torso_multiplier
            staged == Staged(query, tree, k)
<1>1. TreeHolds(query, pool_, staged) /\ JewelsGood(query, node, m, tree.jewel_keys, k)
  BY DEF TreeAt, NodeKey
<1>2. staged.id = tree.id /\ staged.multiplier = m
  BY DEF Staged
<1>. HIDE DEF staged
<1>3. NodeFits(query, node, m, staged.effects)
  BY <1>1, <1>2, TreeFits DEF NodeKey
<1>. HIDE DEF node, m
<1>4. k # 0
  BY StagesAre
<1>5. /\ tree.jewel_keys # {}
      /\ \A key \in tree.jewel_keys : FitsTree(query, node, m, key) /\ Reaches(query, node, key, k)
  BY <1>1, <1>4 DEF JewelsGood
<1>6. ASSUME NEW key \in tree.jewel_keys
      PROVE  /\ Fits(SlotsOf(key), SlotsOf(node)) /\ BodySlotSum(key) <= BodySlotSum(node)
             /\ \A e \in 1..k :
                  GetPoints(node, e) + GetPoints(key, e) >= query.effects[e].points
  <2>1. Fits(SlotsOf(key), SlotsOf(node)) /\ BodySlotSum(key) <= BodySlotSum(node)
    BY <1>3, <1>5, TreeJewels DEF SlotsOf
  <2>. QED
    BY <1>5, <2>1 DEF Reaches, GetPoints
<1>. QED
  BY <1>5, <1>6 DEF node

LEMMA InvReaches == ASSUME SearchInv PROVE KeysReachTargets
<1>1. CASE buffer = NoTrees
  <2>1. DOMAIN buffer = {}
    BY <1>1 DEF NoTrees
  <2>. QED
    BY <2>1 DEF KeysReachTargets
<1>2. CASE Searching
  <2>1. ASSUME NEW k \in DOMAIN buffer \ {0}, NEW tree \in ToSet(buffer[k])
        PROVE  /\ tree.jewel_keys # {}
               /\ \A key \in tree.jewel_keys :
                    /\ Fits(SlotsOf(key), SlotsOf(NodeKey(tree)))
                    /\ BodySlotSum(key) <= BodySlotSum(NodeKey(tree))
                    /\ \A e \in 1..k :
                         GetPoints(NodeKey(tree), e) + GetPoints(key, e)
                           >= query.effects[e].points
    <3>1. N \in Nat /\ DOMAIN buffer = 0..N
      BY <1>2, StagesAre DEF Searching
    <3>2. k \in 1..N /\ k \in 0..N
      BY <3>1
    <3>3. TreeAt(query, pool_, k, tree)
      BY <1>2, <3>2 DEF Searching, Buffered
    <3>. QED
      BY <1>2, <3>2, <3>3, GoodKeysReach DEF Searching
  <2>. QED
    BY <2>1 DEF KeysReachTargets
<1>. QED
  BY <1>1, <1>2 DEF SearchInv

(* The jewel keys of a tree that has passed stage k, through all pruning,  *)
(* splitting and residual computation, fit the slots of the tree and bring *)
(* the first k effects to their targets: KeysReachTargets.                 *)
THEOREM KeysAlwaysReach == SearchSpec => []KeysReachTargets
<1>1. SearchInit => SearchInv
  BY DEF SearchInit, SearchInv
<1>2. SearchInv /\ [SearchNext]_search_vars => SearchInv'
  BY SearchStep
<1>3. SearchInv => KeysReachTargets
  BY InvReaches
<1>. QED
  BY <1>1, <1>2, <1>3, PTL DEF SearchSpec
=============================================================================
