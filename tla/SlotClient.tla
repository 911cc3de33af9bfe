----------------------------- MODULE SlotClient -----------------------------
(***************************************************************************)
(* The slot client of the pruners (cpp/utils/jewels_query.h): which sums   *)
(* of jewel keys can be stuffed into an alignment of slots.  The answers   *)
(* are memoised in two flat buffers; an empty entry means "not computed".  *)
(* Query runs to completion in the only thread of the search, so a call is *)
(* one step; its recursion is kept, because every nested call fills an     *)
(* entry of its own.                                                       *)
(***************************************************************************)
EXTENDS Stuffings

CONSTANTS
  Effects,     \* the effects of the query the client is built for
  MAX_ONES, MAX_TWOS, MAX_THREES, \* the strides of the buffer
  Blacklists,  \* the jewels a query may exclude
  SlotsLimit,  \* bound: the parts of an armor set, each of one slot
  HolesLimit,  \* bound: the holes of all parts together
  MultLimit,   \* multipliers that the buffer is made for, and bound: those asked
  MaxQueries   \* bound: calls of Query

(* The strides of the code are 24, 8 and 8; the 7 parts have at most 3     *)
(* holes each.  The buffer is made for multipliers up to 5, that of four   *)
(* torso-up parts; a torso-up amulet beside them would give 6.             *)
ASSUME StridesAssumption ==
  /\ {MAX_ONES, MAX_TWOS, MAX_THREES, MultLimit} \subseteq Nat \ {0}
  /\ HolesLimit \in 0 .. MAX_ONES - 1
  /\ SlotsLimit \in 0 .. MAX_TWOS - 1
  /\ SlotsLimit < MAX_THREES

ASSUME DataAssumption ==
  /\ Len(Effects) \in Nat
  /\ \A id \in DOMAIN JewelData : \A skill \in DOMAIN JewelData[id].effects :
       JewelData[id].effects[skill] \in Int

VARIABLES
  jewel_keys,   \* slots -> set of keys of the valid jewels
  fixed_buffer, \* slots, n -> sums of exactly n jewels of that size
  buffer,       \* flat index -> sums for an alignment
  asked,        \* the last call <<i, j, k, extra, multiplier>>
  answer,       \* index of the buffer entry whose reference it returned
  queries       \* calls so far

vars == <<jewel_keys, fixed_buffer, buffer, asked, answer, queries>>

BufferSize == MAX_ONES * MAX_TWOS * MAX_THREES * 3 * MultLimit
NoKey == ZeroKey(Len(Effects))

Index(i, j, k) == (k * MAX_TWOS + j) * MAX_ONES + i

BodyIndex(i, j, k, extra, multiplier) ==
  ((multiplier - 1) * 3 + (extra - 1)) * MAX_THREES * MAX_TWOS * MAX_ONES
  + Index(i, j, k)

-----------------------------------------------------------------------------
(* The recursion, on a record c of the two buffers: each function returns  *)
(* the buffers after the call, in which the entry it was asked for is set. *)
(* Entry 0 is never empty, which is where the recursion of the code ends.  *)

Keys == [b0 : Byte, b1 : Byte, b2 : Byte, pts : [1..Len(Effects) -> Byte]]
Caches == [fixed  : [1..3 -> [0..HolesLimit -> SUBSET Keys]],
           buffer : [0 .. BufferSize - 1 -> SUBSET Keys]]

CalculateFixed(c, slots, i) ==
  LET after[n \in 0..i] ==
        IF n = 0 \/ c.fixed[slots][n] # {} THEN c
        ELSE LET d == after[n - 1]
             IN  [d EXCEPT !.fixed[slots][n] =
                    SetProduct(d.fixed[slots][n - 1], jewel_keys[slots])]
  IN  after[i]

(* Entry `index` gets the keys, then those of `next`, which the call Below  *)
(* computes once `index` has its own.                                      *)
Fill(c, index, keys, Below, next) ==
  LET e == Below[[c EXCEPT !.buffer[index] = keys]]
  IN  [e EXCEPT !.buffer[index] = @ \union e.buffer[next]]

(* The three overloads of Calculate.                                       *)
FillOnes[i \in 0..HolesLimit] ==
  [c \in Caches |->
     IF i = 0 \/ c.buffer[i] # {} THEN c
     ELSE LET d == CalculateFixed(c, 1, i)
          IN  Fill(d, i, d.fixed[1][i], FillOnes[i - 1], i - 1)]

(* A mutant: fewer than i jewels are not an answer.                        *)
CalculateOnes_OnlyFull(c, i) ==
  LET d == CalculateFixed(c, 1, i)
  IN  [d EXCEPT !.buffer[i] = d.fixed[1][i]]

CalculateOnes(c, i) == FillOnes[i][c]

(* A mutant: a 2-slot that takes no 2-jewel counts as a single 1-slot.     *)
FillTwos_OneHole[j \in 0..SlotsLimit] ==
  [i \in 0 .. HolesLimit - 2 * j |-> [c \in Caches |->
     IF c.buffer[Index(i, j, 0)] # {} THEN c
     ELSE IF j = 0 THEN CalculateOnes(c, i)
     ELSE LET d == CalculateFixed(CalculateOnes(c, i), 2, j)
          IN  Fill(d, Index(i, j, 0), SetProduct(d.buffer[i], d.fixed[2][j]),
                   FillTwos_OneHole[j - 1][i + 1], Index(i + 1, j - 1, 0))]]

CalculateTwos_OneHole(c, i, j) == FillTwos_OneHole[j][i][c]

FillTwos[j \in 0..SlotsLimit] ==
  [i \in 0 .. HolesLimit - 2 * j |-> [c \in Caches |->
     IF c.buffer[Index(i, j, 0)] # {} THEN c
     ELSE IF j = 0 THEN CalculateOnes(c, i)
     ELSE LET d == CalculateFixed(CalculateOnes(c, i), 2, j)
          IN  Fill(d, Index(i, j, 0), SetProduct(d.buffer[i], d.fixed[2][j]),
                   FillTwos[j - 1][i + 2], Index(i + 2, j - 1, 0))]]

CalculateTwos(c, i, j) == FillTwos[j][i][c]

FillThrees[k \in 0..SlotsLimit] ==
  [j \in 0 .. SlotsLimit - k |-> [i \in 0 .. HolesLimit - 2 * j - 3 * k |->
     [c \in Caches |->
        IF c.buffer[Index(i, j, k)] # {} THEN c
        ELSE IF k = 0 THEN CalculateTwos(c, i, j)
        ELSE LET d == CalculateFixed(CalculateTwos(c, i, j), 3, k)
             IN  Fill(d, Index(i, j, k),
                      SetProduct(d.buffer[Index(i, j, 0)], d.fixed[3][k]),
                      FillThrees[k - 1][j + 1][i + 1],
                      Index(i + 1, j + 1, k - 1))]]]

CalculateThrees(c, i, j, k) == FillThrees[k][j][i][c]

CalculateBody(c, i, j, k, extra, multiplier) ==
  LET index == BodyIndex(i, j, k, extra, multiplier)
      inner == OneSlot(extra)
      base  == CalculateThrees(c, i, j, k)
      d     == CalculateThrees(base, inner[1], inner[2], inner[3])
      transformed ==
        { BodyRefactor(key, multiplier) :
            key \in d.buffer[Index(inner[1], inner[2], inner[3])] }
  IN  IF multiplier < 2 \/ extra = 0 \/ base.buffer[index] # {} THEN base
      ELSE [d EXCEPT !.buffer[index] =
              SetProduct(d.buffer[Index(i, j, k)], transformed)]

(* The entry of the buffer a call returns a reference to.                   *)
AnswerIndex(i, j, k, extra, multiplier) ==
  IF multiplier < 2 \/ extra = 0 THEN Index(i, j, k)
  ELSE BodyIndex(i, j, k, extra, multiplier)

-----------------------------------------------------------------------------
(* The buffers of the constructor.                                          *)
EmptyFixed == [slots \in 1..3 |-> [n \in 0..HolesLimit |->
                                     IF n = 0 THEN {NoKey} ELSE {}]]
EmptyBuffer == [index \in 0 .. BufferSize - 1 |->
                  IF index = 0 THEN {NoKey} ELSE {}]

Init ==
  /\ \E skills \in (SUBSET {Effects[e].id : e \in DOMAIN Effects}) \ {{}} :
     \E blacklist \in Blacklists :
       jewel_keys = ClientKeys(skills, [blacklist |-> blacklist], Effects)
  /\ fixed_buffer = EmptyFixed
  /\ buffer = EmptyBuffer
  /\ asked = <<0, 0, 0, 0, 1>>
  /\ answer = 0
  /\ queries = 0

Query(i, j, k, extra, multiplier) ==
  /\ queries < MaxQueries
  /\ \E c \in { CalculateBody([fixed |-> fixed_buffer, buffer |-> buffer],
                               i, j, k, extra, multiplier) } :
       /\ fixed_buffer' = c.fixed
       /\ buffer' = c.buffer
  /\ asked' = <<i, j, k, extra, multiplier>>
  /\ answer' = AnswerIndex(i, j, k, extra, multiplier)
  /\ queries' = queries + 1
  /\ UNCHANGED jewel_keys

(* What a tree or a residual can ask: the slots of the parts other than a  *)
(* multiplied body, and the body holes, together at most HolesLimit.  A    *)
(* residual may have more 1-slots than parts, but never more larger slots. *)
(* Multipliers the buffer has no room for are left out: such a call writes *)
(* behind it.                                                              *)
Calls ==
  { c \in (0..HolesLimit) \X (0..SlotsLimit) \X (0..SlotsLimit)
          \X (0..3) \X (1..MultLimit) :
      /\ Holes(<<c[1], c[2], c[3]>>) + c[4] <= HolesLimit
      /\ c[2] + c[3] + (IF c[4] > 0 THEN 1 ELSE 0) <= SlotsLimit
      /\ c[5] = 1 => c[4] = 0 }

Next == \E c \in Calls : Query(c[1], c[2], c[3], c[4], c[5])

Spec == Init /\ [][Next]_vars

-----------------------------------------------------------------------------
(* docs/jewel-query/jewel-query.tex: the set of combinations of jewels     *)
(* that fit into the slots.                                                *)
EveryStuffing(c) ==
  BodyStuffed(NoKey, jewel_keys, <<c[1], c[2], c[3]>>, c[4], c[5])

(* Query answers with exactly the sums of the jewels that fit the slots it *)
(* is asked about, whatever was asked, and left in the buffers, before.    *)
AnswerIsEveryStuffing == buffer[answer] = EveryStuffing(asked)

(* Every entry that a nested call left behind is complete too: no entry is *)
(* shared by two alignments, and none is half computed.                    *)
EntriesComplete ==
  \A c \in Calls :
    LET entry == buffer[AnswerIndex(c[1], c[2], c[3], c[4], c[5])]
    IN  entry # {} => entry = EveryStuffing(c)
=============================================================================
