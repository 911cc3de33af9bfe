-------------------------- MODULE SlotClient_proofs --------------------------
(***************************************************************************)
(* Proofs about the slot client: whatever was asked before, every entry of *)
(* its two buffers is empty or holds exactly the sums of the jewels that   *)
(* fit the alignment it is for, and an answer never changes.               *)
(*                                                                         *)
(* The argument goes from the arithmetic of the flat index (no two         *)
(* alignments share an entry) over the algebra of the sums (what fits i    *)
(* 1-slots, j 2-slots and k 3-slots in terms of fewer slots, which is the  *)
(* recursion of the code) to what each overload of Calculate leaves in the *)
(* buffers, by induction on the slots of its size, and from there to the   *)
(* invariant of the client.                                                *)
(***************************************************************************)
EXTENDS SlotClient, RecursionLemmas

Rooms == { s \in (0..HolesLimit) \X (0..SlotsLimit) \X (0..SlotsLimit) :
             Holes(s) <= HolesLimit /\ s[2] + s[3] <= SlotsLimit }

At(s) == Index(s[1], s[2], s[3])
Layer == MAX_THREES * MAX_TWOS * MAX_ONES

(* Blocks of M numbers do not overlap.                                     *)
LEMMA Blocks ==
  ASSUME NEW M \in Nat, NEW a \in Nat, NEW b \in Nat, a < b
  PROVE  a * M + M <= b * M
<1>1. b = a + 1 + (b - a - 1) /\ b - a - 1 \in Nat
  OBVIOUS
<1>2. PICK d \in Nat : b = a + 1 + d
  BY <1>1
<1>3. d * M \in Nat
  OBVIOUS
<1>4. (a + 1 + d) * M = a * M + M + d * M
  OBVIOUS
<1>. QED
  BY <1>2, <1>3, <1>4

(* The bounds of the alignments against the strides, one fact each.        *)
LEMMA Strides ==
  /\ MAX_ONES \in Nat \ {0} /\ MAX_TWOS \in Nat \ {0} /\ MAX_THREES \in Nat \ {0}
  /\ MultLimit \in Nat \ {0}
  /\ HolesLimit \in Nat /\ HolesLimit < MAX_ONES
  /\ SlotsLimit \in Nat /\ SlotsLimit < MAX_TWOS /\ SlotsLimit < MAX_THREES
BY StridesAssumption

(* a * M + x with x < M determines a and x.                                 *)
LEMMA Digits ==
  ASSUME NEW M \in Nat, NEW a \in Nat, NEW b \in Nat,
         NEW x \in 0 .. M - 1, NEW y \in 0 .. M - 1
  PROVE  /\ a < b => a * M + x < b * M + y
         /\ a * M + x = b * M + y => a = b /\ x = y
         /\ a * M + x \in Nat
<1>1. ASSUME NEW c \in Nat, NEW d \in Nat, c < d,
             NEW v \in 0 .. M - 1, NEW w \in 0 .. M - 1
      PROVE  c * M + v < d * M + w
  <2>1. c * M + M <= d * M
    BY <1>1, Blocks
  <2>2. c * M \in Nat /\ d * M \in Nat
    OBVIOUS
  <2>. QED
    BY <2>1, <2>2
<1>2. a * M \in Nat /\ b * M \in Nat
  OBVIOUS
<1>3. a < b => a * M + x < b * M + y
  BY <1>1
<1>4. b < a => b * M + y < a * M + x
  BY <1>1
<1>. QED
  BY <1>2, <1>3, <1>4

(* Numbers of three digits, in mixed strides, are ordered as their digits.  *)
LEMMA ThreeDigits ==
  ASSUME NEW M \in Nat, NEW N \in Nat, NEW P \in Nat,
         NEW a \in 0 .. M - 1, NEW b \in 0 .. N - 1, NEW c \in 0 .. P - 1,
         NEW x \in 0 .. M - 1, NEW y \in 0 .. N - 1, NEW z \in 0 .. P - 1
  PROVE  /\ (c * N + b) * M + a \in 0 .. P * N * M - 1
         /\ (c * N + b) * M + a = (z * N + y) * M + x => a = x /\ b = y /\ c = z
         /\ c < z => (c * N + b) * M + a < (z * N + y) * M + x
         /\ c = z /\ b < y => (c * N + b) * M + a < (z * N + y) * M + x
         /\ c = z /\ b = y /\ a < x => (c * N + b) * M + a < (z * N + y) * M + x
<1>. DEFINE u == c * N + b
            v == z * N + y
            w == P * N
<1>1. c \in Nat /\ z \in Nat /\ a \in Nat /\ x \in Nat /\ M >= 1 /\ N >= 1
  OBVIOUS
<1>2. u \in Nat /\ v \in Nat
  BY <1>1, Digits
<1>3. (c < z => u < v) /\ (u = v => c = z /\ b = y)
  BY <1>1, Digits
<1>4. c = z /\ b < y => u < v
  <2>1. c * N \in Int
    BY <1>1
  <2>. QED
    BY <2>1
<1>5. c = z /\ b = y => u = v
  OBVIOUS
<1>6. u < w /\ w \in Nat
  <2>1. c * N + N <= P * N
    BY <1>1, Blocks
  <2>2. c * N \in Int /\ P * N \in Nat
    BY <1>1
  <2>. QED
    BY <2>1, <2>2
<1>. HIDE DEF u, v, w
<1>7. u * M + a \in 0 .. w * M - 1
  <2>1. u * M + M <= w * M
    BY <1>2, <1>6, Blocks
  <2>2. u * M \in Nat /\ w * M \in Nat
    BY <1>2, <1>6
  <2>. QED
    BY <2>1, <2>2
<1>8. /\ u < v => u * M + a < v * M + x
      /\ u * M + a = v * M + x => u = v /\ a = x
  BY <1>2, Digits
<1>9. u = v /\ a < x => u * M + a < v * M + x
  <2>1. u * M \in Int
    BY <1>2
  <2>. QED
    BY <2>1
<1>10. /\ u * M + a \in 0 .. w * M - 1
       /\ u * M + a = v * M + x => a = x /\ b = y /\ c = z
       /\ c < z => u * M + a < v * M + x
       /\ c = z /\ b < y => u * M + a < v * M + x
       /\ c = z /\ b = y /\ a < x => u * M + a < v * M + x
  BY <1>3, <1>4, <1>5, <1>7, <1>8, <1>9
<1>. QED
  BY <1>10 DEF u, v, w

(* The flat index tells alignments apart, and more larger slots are        *)
(* further up: what the recursion asks for lies below the entry it fills.  *)
LEMMA IndexOrder ==
  ASSUME NEW s \in Rooms, NEW t \in Rooms
  PROVE  /\ At(s) \in 0 .. Layer - 1
         /\ At(s) = At(t) => s = t
         /\ s[3] < t[3] => At(s) < At(t)
         /\ s[3] = t[3] /\ s[2] < t[2] => At(s) < At(t)
         /\ s[3] = t[3] /\ s[2] = t[2] /\ s[1] < t[1] => At(s) < At(t)
<1>1. /\ s[1] \in 0 .. MAX_ONES - 1 /\ t[1] \in 0 .. MAX_ONES - 1
      /\ s[2] \in 0 .. MAX_TWOS - 1 /\ t[2] \in 0 .. MAX_TWOS - 1
      /\ s[3] \in 0 .. MAX_THREES - 1 /\ t[3] \in 0 .. MAX_THREES - 1
  BY Strides DEF Rooms
<1>2. s = <<s[1], s[2], s[3]>> /\ t = <<t[1], t[2], t[3]>>
  BY DEF Rooms
<1>3. MAX_ONES \in Nat /\ MAX_TWOS \in Nat /\ MAX_THREES \in Nat
  BY Strides
<1>. DEFINE M == MAX_ONES
            N == MAX_TWOS
            P == MAX_THREES
            a == s[1]
            b == s[2]
            c == s[3]
            x == t[1]
            y == t[2]
            z == t[3]
<1>4. At(s) = (c * N + b) * M + a /\ At(t) = (z * N + y) * M + x /\ Layer = P * N * M
  BY DEF At, Index, Layer
<1>5. /\ a \in 0 .. M - 1 /\ b \in 0 .. N - 1 /\ c \in 0 .. P - 1
      /\ x \in 0 .. M - 1 /\ y \in 0 .. N - 1 /\ z \in 0 .. P - 1
      /\ M \in Nat /\ N \in Nat /\ P \in Nat
  BY <1>1, <1>3
<1>6. a = x /\ b = y /\ c = z => s = t
  BY <1>2
<1>. HIDE DEF M, N, P, a, b, c, x, y, z
<1>7. /\ At(s) \in 0 .. Layer - 1
      /\ At(s) = At(t) => a = x /\ b = y /\ c = z
      /\ c < z => At(s) < At(t)
      /\ c = z /\ b < y => At(s) < At(t)
      /\ c = z /\ b = y /\ a < x => At(s) < At(t)
  BY <1>4, <1>5, ThreeDigits
<1>8. /\ At(s) \in 0 .. Layer - 1
      /\ At(s) = At(t) => s = t
      /\ c < z => At(s) < At(t)
      /\ c = z /\ b < y => At(s) < At(t)
      /\ c = z /\ b = y /\ a < x => At(s) < At(t)
  BY <1>6, <1>7
<1>. QED
  BY <1>8 DEF a, b, c, x, y, z

-----------------------------------------------------------------------------
(* A wrapped sum or product is a byte, and a byte is left as it is.        *)
LEMMA Char8Lemma ==
  /\ \A n \in Int : Char8(n) \in Byte
  /\ \A m, n \in Int : Char8(m + n) \in Byte /\ Char8(m * n) \in Byte
  /\ \A n \in Byte : Char8(n) = n /\ n \in Int /\ n + 0 = n
  /\ 0 \in Byte
<1>1. \A n \in Int : Char8(n) \in Byte
  BY DEF Char8, Byte
<1>2. \A m, n \in Int : m + n \in Int /\ m * n \in Int
  OBVIOUS
<1>3. \A n \in Byte : Char8(n) = n /\ n \in Int /\ n + 0 = n
  BY DEF Char8, Byte
<1>4. 0 \in Byte
  BY DEF Byte
<1>5. \A m, n \in Int : Char8(m + n) \in Byte /\ Char8(m * n) \in Byte
  BY <1>1, <1>2, Zenon
<1>. QED
  BY <1>1, <1>3, <1>4, <1>5

(* The sum of two signatures is one.                                       *)
LEMMA AddIsKey == ASSUME NEW x \in Keys, NEW y \in Keys PROVE x ++ y \in Keys
<1>1. /\ x.b0 \in Byte /\ x.b1 \in Byte /\ x.b2 \in Byte
      /\ y.b0 \in Byte /\ y.b1 \in Byte /\ y.b2 \in Byte
      /\ x.pts \in [1..Len(Effects) -> Byte] /\ y.pts \in [1..Len(Effects) -> Byte]
  BY DEF Keys
<1>2. AddPts(x.pts, y.pts) \in [1..Len(Effects) -> Byte]
  <2>1. \A e \in 1..Len(Effects) : x.pts[e] \in Int /\ y.pts[e] \in Int
    BY <1>1, Char8Lemma
  <2>2. \A e \in 1..Len(Effects) : Char8(x.pts[e] + y.pts[e]) \in Byte
    BY <2>1, Char8Lemma
  <2>3. DOMAIN x.pts = 1..Len(Effects)
    BY <1>1
  <2>. QED
    BY <2>2, <2>3 DEF AddPts
<1>3. /\ Char8(x.b0 + y.b0) \in Byte /\ Char8(x.b1 + y.b1) \in Byte
      /\ Char8(x.b2 + y.b2) \in Byte
  BY <1>1, Char8Lemma
<1>. QED
  BY <1>2, <1>3 DEF Keys, ++

(* So is the sum of no jewel.                                              *)
LEMMA NoKeyIsKey == NoKey \in Keys
BY DEF NoKey, ZeroKey, ZeroPts, Keys, Byte

(* The key of no jewel adds nothing.                                       *)
LEMMA AddNoKey == ASSUME NEW x \in Keys PROVE x ++ NoKey = x
<1>1. /\ x.b0 \in Byte /\ x.b1 \in Byte /\ x.b2 \in Byte
      /\ x.pts \in [1..Len(Effects) -> Byte]
      /\ x = [b0 |-> x.b0, b1 |-> x.b1, b2 |-> x.b2, pts |-> x.pts]
  BY DEF Keys
<1>2. /\ NoKey.b0 = 0 /\ NoKey.b1 = 0 /\ NoKey.b2 = 0
      /\ \A e \in 1..Len(Effects) : NoKey.pts[e] = 0
  BY DEF NoKey, ZeroKey, ZeroPts
<1>3. AddPts(x.pts, NoKey.pts) = x.pts
  <2>1. \A e \in 1..Len(Effects) : Char8(x.pts[e] + NoKey.pts[e]) = x.pts[e]
    <3>1. \A e \in 1..Len(Effects) : x.pts[e] + NoKey.pts[e] = x.pts[e] /\ x.pts[e] \in Byte
      BY <1>1, <1>2, Char8Lemma
    <3>. QED
      BY <3>1, Char8Lemma
  <2>. QED
    BY <1>1, <2>1 DEF AddPts
<1>4. Char8(x.b0 + NoKey.b0) = x.b0 /\ Char8(x.b1 + NoKey.b1) = x.b1
      /\ Char8(x.b2 + NoKey.b2) = x.b2
  <2>1. x.b0 + NoKey.b0 = x.b0 /\ x.b1 + NoKey.b1 = x.b1 /\ x.b2 + NoKey.b2 = x.b2
    BY <1>1, <1>2, Char8Lemma
  <2>. QED
    BY <1>1, <2>1, Char8Lemma
<1>. QED
  BY <1>1, <1>3, <1>4 DEF ++

(* What a body jewel becomes under a multiplier is a signature.            *)
LEMMA BodyRefactorIsKey ==
  ASSUME NEW x \in Keys, NEW m \in Nat PROVE BodyRefactor(x, m) \in Keys
<1>1. /\ x.b0 \in Byte /\ x.b1 \in Byte /\ x.b2 \in Byte
      /\ x.pts \in [1..Len(Effects) -> Byte]
  BY DEF Keys
<1>2. Scale(x.pts, m) \in [1..Len(Effects) -> Byte]
  <2>1. \A e \in 1..Len(Effects) : x.pts[e] \in Int
    BY <1>1, Char8Lemma
  <2>2. ASSUME NEW e \in 1..Len(Effects) PROVE Char8(x.pts[e] * m) \in Byte
    <3>1. x.pts[e] * m \in Int
      BY <2>1
    <3>. QED
      BY <3>1, Char8Lemma, Zenon
  <2>. QED
    BY <1>1, <2>2 DEF Scale
<1>3. CASE m <= 1
  BY <1>3 DEF BodyRefactor
<1>4. CASE ~ (m <= 1)
  <2>. DEFINE two   == IF Twos(x) # 0 THEN 32 ELSE 0
              three == IF Threes(x) # 0 THEN 64 ELSE 0
              b2    == Char8(x.b2 + 8 * x.b0 + two + three)
  <2>1. b2 \in Byte
    <3>1. two \in Int /\ three \in Int
      OBVIOUS
    <3>2. x.b0 \in Int /\ x.b2 \in Int
      BY <1>1, Char8Lemma
    <3>. HIDE DEF two, three
    <3>3. x.b2 + 8 * x.b0 + two \in Int
      BY <3>1, <3>2
    <3>. QED
      BY <3>1, <3>3, Char8Lemma
  <2>. HIDE DEF b2
  <2>2. 0 \in Byte
    BY DEF Byte
  <2>3. BodyRefactor(x, m) = [b0 |-> 0, b1 |-> 0, b2 |-> b2, pts |-> Scale(x.pts, m)]
    BY <1>4 DEF BodyRefactor, b2
  <2>. QED
    BY <1>2, <2>1, <2>2, <2>3 DEF Keys
<1>. QED
  BY <1>3, <1>4

-----------------------------------------------------------------------------
(* Products of sets of signatures are sets of signatures.                  *)
LEMMA ProductIsKeys ==
  ASSUME NEW a \in SUBSET Keys, NEW b \in SUBSET Keys
  PROVE  SetProduct(a, b) \in SUBSET Keys
BY AddIsKey DEF SetProduct

(* The product with the sum of no jewel changes nothing.                   *)
LEMMA ProductWithNone ==
  ASSUME NEW a \in SUBSET Keys PROVE SetProduct(a, {NoKey}) = a
BY AddNoKey DEF SetProduct

(* f is made from zero by one product after the other, up to n of them.    *)
Sums(f, zero, keys, n) ==
  f = [m \in 0..n |-> IF m = 0 THEN {zero} ELSE SetProduct(f[m - 1], keys)]

SumsTo(zero, keys, n) == CHOOSE f : Sums(f, zero, keys, n)

(* The recursive definition of SumsOf defines a function.                  *)
LEMMA SumsExist ==
  ASSUME NEW zero \in Keys, NEW keys \in SUBSET Keys, NEW n \in Nat
  PROVE  /\ SumsTo(zero, keys, n)[0] = {zero}
         /\ \A m \in 1..n : SumsTo(zero, keys, n)[m]
                            = SetProduct(SumsTo(zero, keys, n)[m - 1], keys)
<1>. DEFINE S == [m \in 0..n |-> SUBSET Keys]
            step == [mx \in (1..n) \X SUBSET Keys |-> SetProduct(mx[2], keys)]
            g == SumsTo(zero, keys, n)
<1>1. {zero} \in S[0]
  OBVIOUS
<1>2. \A m \in 1..n : \A x \in S[m - 1] : step[<<m, x>>] \in S[m]
  BY ProductIsKeys
<1>3. \A m \in 0..n : S[m] = SUBSET Keys
  OBVIOUS
<1>4. \A m \in 1..n : \A x \in SUBSET Keys : step[<<m, x>>] = SetProduct(x, keys)
  OBVIOUS
<1>. HIDE DEF S, step
<1>. DEFINE base == {zero}
<1>. HIDE DEF base
<1>0. PICK f : FunctionUpTo(f, n) /\ Steps(f, n, base, step) /\ Within(f, n, S)
  BY <1>1, <1>2, RecursionExists DEF base
<1>5. /\ f[0] = {zero}
      /\ \A m \in 1..n : f[m] = step[<<m, f[m - 1]>>]
      /\ \A m \in 0..n : f[m] \in S[m]
  BY <1>0, Zenon DEF Steps, Within, base
<1>6. ASSUME NEW m \in 1..n PROVE f[m] = SetProduct(f[m - 1], keys)
  <2>1. m - 1 \in 0..n
    OBVIOUS
  <2>. QED
    BY <1>3, <1>4, <1>5, <2>1
<1>7. 0 \in 0..n /\ \A m \in 1..n : m \in 0..n /\ m # 0
  OBVIOUS
<1>8. Sums(f, zero, keys, n)
  <2>1. ASSUME NEW m \in 0..n
        PROVE  f[m] = IF m = 0 THEN {zero} ELSE SetProduct(f[m - 1], keys)
    <3>1. m = 0 \/ m \in 1..n
      OBVIOUS
    <3>. QED
      BY <1>5, <1>6, <1>7, <3>1, Zenon
  <2>. QED
    BY <1>0, <2>1, Zenon DEF Sums, FunctionUpTo
<1>9. Sums(g, zero, keys, n)
  BY <1>8, Zenon DEF SumsTo
<1>. HIDE DEF g
<1>10. g[0] = {zero} /\ \A m \in 1..n : g[m] = SetProduct(g[m - 1], keys)
  BY <1>7, <1>9, Zenon DEF Sums
<1>. QED
  BY <1>10 DEF g

(* How far the recursion of SumsOf goes does not matter below it.          *)
LEMMA SumsAgree ==
  ASSUME NEW zero \in Keys, NEW keys \in SUBSET Keys, NEW n \in Nat, NEW k \in 0..n
  PROVE  \A m \in 0..k : /\ SumsTo(zero, keys, k)[m] = SumsTo(zero, keys, n)[m]
                         /\ SumsTo(zero, keys, k)[m] \in SUBSET Keys
<1>. DEFINE f == SumsTo(zero, keys, k)
            g == SumsTo(zero, keys, n)
            T == { m \in 0..k : f[m] = g[m] /\ f[m] \in SUBSET Keys }
<1>0. k \in Nat /\ 0 \in 0..k
  OBVIOUS
<1>1. /\ f[0] = {zero} /\ g[0] = {zero}
      /\ \A m \in 1..k : f[m] = SetProduct(f[m - 1], keys)
      /\ \A m \in 1..n : g[m] = SetProduct(g[m - 1], keys)
  BY <1>0, SumsExist
<1>. HIDE DEF f, g
<1>2. 0 \in T
  BY <1>0, <1>1
<1>3. ASSUME NEW m \in 1..k, m - 1 \in T PROVE m \in T
  <2>1. m \in 1..n /\ m \in 0..k
    OBVIOUS
  <2>. QED
    BY <1>1, <1>3, <2>1, ProductIsKeys
<1>. HIDE DEF T
<1>4. \A m \in 0..k : m \in T
  BY <1>0, <1>2, <1>3, IntervalInduction
<1>. QED
  BY <1>4 DEF T, f, g

(* The recursive equations of SumsOf.                                      *)
LEMMA SumsLemma ==
  ASSUME NEW zero \in Keys, NEW keys \in SUBSET Keys, NEW n \in Nat
  PROVE  /\ SumsOf(zero, keys, n) \in SUBSET Keys
         /\ SumsOf(zero, keys, 0) = {zero}
         /\ SumsOf(zero, keys, n + 1) = SetProduct(SumsOf(zero, keys, n), keys)
<1>1. \A m \in Nat : SumsOf(zero, keys, m) = SumsTo(zero, keys, m)[m]
  BY DEF SumsOf, SumsTo, Sums
<1>2. SumsTo(zero, keys, 0)[0] = {zero}
  BY SumsExist
<1>3. n + 1 \in Nat /\ n \in 0..n + 1 /\ n + 1 \in 1..n + 1 /\ n \in 0..n
  OBVIOUS
<1>4. SumsTo(zero, keys, n + 1)[n + 1]
        = SetProduct(SumsTo(zero, keys, n + 1)[(n + 1) - 1], keys)
  BY <1>3, SumsExist
<1>5. /\ SumsTo(zero, keys, n)[n] = SumsTo(zero, keys, n + 1)[n]
      /\ SumsTo(zero, keys, n)[n] \in SUBSET Keys
  BY <1>3, SumsAgree
<1>6. (n + 1) - 1 = n
  OBVIOUS
<1>. QED
  BY <1>1, <1>2, <1>3, <1>4, <1>5, <1>6

-----------------------------------------------------------------------------
(* The sums of n jewels of a size, and of the jewels that c counts.         *)
SumsOfSize(size, n) == SumsOf(NoKey, jewel_keys[size], n)
SumsCounted(c) ==
  SetProduct(SetProduct(SumsOfSize(1, c[1]), SumsOfSize(2, c[2])), SumsOfSize(3, c[3]))
All(s) == Stuffed(NoKey, jewel_keys, s)

JewelsOK == jewel_keys \in [1..3 -> SUBSET Keys]

(* The same for the jewel keys of a size.                                  *)
LEMMA SizeSums ==
  ASSUME JewelsOK, NEW size \in 1..3, NEW n \in Nat
  PROVE  /\ SumsOfSize(size, n) \in SUBSET Keys
         /\ SumsOfSize(size, 0) = {NoKey}
         /\ SumsOfSize(size, n + 1) = SetProduct(SumsOfSize(size, n), jewel_keys[size])
<1>1. jewel_keys[size] \in SUBSET Keys
  BY DEF JewelsOK
<1>. QED
  BY <1>1, NoKeyIsKey, SumsLemma DEF SumsOfSize

(* The counts that fit, without the bounds of the enumeration.             *)
LEMMA FittingFacts ==
  ASSUME NEW i \in Nat, NEW j \in Nat, NEW k \in Nat
  PROVE  \A c : c \in Fitting(<<i, j, k>>) <=>
                  /\ c \in Counts
                  /\ c[3] <= k
                  /\ c[2] + c[3] <= j + k
                  /\ c[1] + 2 * c[2] + 3 * c[3] <= i + 2 * j + 3 * k
<1>. DEFINE s == <<i, j, k>>
<1>1. Holes(s) = i + 2 * j + 3 * k /\ s[2] = j /\ s[3] = k
  BY DEF Holes
<1>. HIDE DEF s
<1>2. ASSUME NEW c \in Fitting(s)
      PROVE  /\ c \in Counts
             /\ c[3] <= k
             /\ c[2] + c[3] <= j + k
             /\ c[1] + 2 * c[2] + 3 * c[3] <= i + 2 * j + 3 * k
  <2>1. /\ c \in (0..Holes(s)) \X (0 .. s[2] + s[3]) \X (0..s[3])
        /\ Fits(c, s)
    BY DEF Fitting
  <2>. QED
    BY <1>1, <2>1 DEF Fits, Counts, Holes
<1>3. ASSUME NEW c \in Counts, c[3] <= k, c[2] + c[3] <= j + k,
             c[1] + 2 * c[2] + 3 * c[3] <= i + 2 * j + 3 * k
      PROVE  c \in Fitting(s)
  <2>1. Fits(c, s)
    BY <1>1, <1>3 DEF Fits, Holes
  <2>2. c[1] \in Nat /\ c[2] \in Nat /\ c[3] \in Nat /\ c = <<c[1], c[2], c[3]>>
    BY DEF Counts
  <2>3. c[1] \in 0..Holes(s) /\ c[2] \in 0 .. s[2] + s[3] /\ c[3] \in 0..s[3]
    BY <1>1, <1>3, <2>2
  <2>4. c \in (0..Holes(s)) \X (0 .. s[2] + s[3]) \X (0..s[3])
    BY <2>2, <2>3
  <2>. QED
    BY <2>1, <2>4 DEF Fitting
<1>4. \A c : c \in Fitting(s) <=>
                  /\ c \in Counts
                  /\ c[3] <= k
                  /\ c[2] + c[3] <= j + k
                  /\ c[1] + 2 * c[2] + 3 * c[3] <= i + 2 * j + 3 * k
  BY <1>2, <1>3
<1>. QED
  BY <1>4 DEF s

(* A sum that fits is one of some count that fits.                         *)
LEMMA AllFacts ==
  ASSUME NEW s
  PROVE  \A x : x \in All(s) <=> \E c \in Fitting(s) : x \in SumsCounted(c)
BY DEF All, Stuffed, SumsCounted, SumsOfSize

(* Counts without 3-jewels, and without 2-jewels.                          *)
LEMMA FewerSizes ==
  ASSUME JewelsOK, NEW a \in Nat, NEW b \in Nat
  PROVE  /\ SumsCounted(<<a, 0, 0>>) = SumsOfSize(1, a)
         /\ SumsCounted(<<a, b, 0>>) = SetProduct(SumsOfSize(1, a), SumsOfSize(2, b))
<1>1. /\ SumsOfSize(1, a) \in SUBSET Keys /\ SumsOfSize(2, b) \in SUBSET Keys
      /\ SumsOfSize(2, 0) = {NoKey} /\ SumsOfSize(3, 0) = {NoKey}
  BY SizeSums
<1>2. SetProduct(SumsOfSize(1, a), SumsOfSize(2, b)) \in SUBSET Keys
  BY <1>1, ProductIsKeys
<1>. QED
  BY <1>1, <1>2, ProductWithNone DEF SumsCounted

(* Sums that fit are signatures.                                           *)
LEMMA AllIsKeys ==
  ASSUME JewelsOK, NEW i \in Nat, NEW j \in Nat, NEW k \in Nat
  PROVE  All(<<i, j, k>>) \in SUBSET Keys
<1>1. ASSUME NEW c \in Counts PROVE SumsCounted(c) \in SUBSET Keys
  <2>1. c[1] \in Nat /\ c[2] \in Nat /\ c[3] \in Nat
    BY DEF Counts
  <2>2. /\ SumsOfSize(1, c[1]) \in SUBSET Keys
        /\ SumsOfSize(2, c[2]) \in SUBSET Keys
        /\ SumsOfSize(3, c[3]) \in SUBSET Keys
    BY <2>1, SizeSums
  <2>3. SetProduct(SumsOfSize(1, c[1]), SumsOfSize(2, c[2])) \in SUBSET Keys
    BY <2>2, ProductIsKeys
  <2>. QED
    BY <2>2, <2>3, ProductIsKeys DEF SumsCounted
<1>2. \A c \in Fitting(<<i, j, k>>) : c \in Counts
  BY FittingFacts
<1>. QED
  BY <1>1, <1>2, AllFacts

(* The equations of the recursion.                                         *)
LEMMA AllOnes ==
  ASSUME JewelsOK, NEW i \in Nat
  PROVE  /\ All(<<0, 0, 0>>) = {NoKey}
         /\ i > 0 => All(<<i, 0, 0>>)
                       = SumsOfSize(1, i) \union All(<<i - 1, 0, 0>>)
<1>1. ASSUME NEW n \in Nat
      PROVE  \A c : c \in Fitting(<<n, 0, 0>>) <=> \E m \in 0..n : c = <<m, 0, 0>>
  <2>1. ASSUME NEW c \in Fitting(<<n, 0, 0>>) PROVE \E m \in 0..n : c = <<m, 0, 0>>
    <3>1. c \in Counts /\ c[3] <= 0 /\ c[2] + c[3] <= 0
          /\ c[1] + 2 * c[2] + 3 * c[3] <= n
      BY FittingFacts
    <3>2. c = <<c[1], 0, 0>> /\ c[1] \in 0..n
      BY <3>1 DEF Counts
    <3>. QED
      BY <3>2
  <2>2. ASSUME NEW m \in 0..n PROVE <<m, 0, 0>> \in Fitting(<<n, 0, 0>>)
    <3>1. <<m, 0, 0>> \in Counts
      BY DEF Counts
    <3>. QED
      BY <3>1, FittingFacts
  <2>. QED
    BY <2>1, <2>2
<1>2. ASSUME NEW n \in Nat
      PROVE  \A x : x \in All(<<n, 0, 0>>) <=> \E m \in 0..n : x \in SumsOfSize(1, m)
  <2>1. \A m \in 0..n : SumsCounted(<<m, 0, 0>>) = SumsOfSize(1, m)
    BY FewerSizes
  <2>2. ASSUME NEW x \in All(<<n, 0, 0>>) PROVE \E m \in 0..n : x \in SumsOfSize(1, m)
    <3>1. PICK c \in Fitting(<<n, 0, 0>>) : x \in SumsCounted(c)
      BY AllFacts
    <3>2. PICK m \in 0..n : c = <<m, 0, 0>>
      BY <1>1
    <3>. QED
      BY <2>1, <3>1, <3>2
  <2>3. ASSUME NEW m \in 0..n, NEW x \in SumsOfSize(1, m) PROVE x \in All(<<n, 0, 0>>)
    <3>1. <<m, 0, 0>> \in Fitting(<<n, 0, 0>>)
      BY <1>1
    <3>2. x \in SumsCounted(<<m, 0, 0>>)
      BY <2>1
    <3>. QED
      BY <3>1, <3>2, AllFacts
  <2>. QED
    BY <2>2, <2>3
<1>3. All(<<0, 0, 0>>) = {NoKey}
  <2>1. SumsOfSize(1, 0) = {NoKey}
    BY SizeSums
  <2>2. \A m \in 0..0 : m = 0
    OBVIOUS
  <2>. QED
    BY <1>2, <2>1, <2>2
<1>4. ASSUME i > 0 PROVE All(<<i, 0, 0>>) = SumsOfSize(1, i) \union All(<<i - 1, 0, 0>>)
  <2>1. i - 1 \in Nat /\ \A m : m \in 0..i <=> m = i \/ m \in 0..(i - 1)
    BY <1>4
  <2>. QED
    BY <1>2, <2>1
<1>. QED
  BY <1>3, <1>4

(* What fits i 1-slots and j 2-slots fills every 2-slot with a 2-jewel, or *)
(* fits when one of them is two 1-slots.                                   *)
LEMMA AllTwos ==
  ASSUME JewelsOK, NEW i \in Nat, NEW j \in Nat \ {0}
  PROVE  All(<<i, j, 0>>) = SetProduct(All(<<i, 0, 0>>), SumsOfSize(2, j))
                              \union All(<<i + 2, j - 1, 0>>)
<1>1. ASSUME NEW c \in Fitting(<<i, j, 0>>)
      PROVE  \/ c = <<c[1], j, 0>> /\ <<c[1], 0, 0>> \in Fitting(<<i, 0, 0>>) /\ c[1] \in Nat
             \/ c \in Fitting(<<i + 2, j - 1, 0>>)
  <2>1. /\ c \in Counts /\ c[3] <= 0 /\ c[2] + c[3] <= j + 0
        /\ c[1] + 2 * c[2] + 3 * c[3] <= i + 2 * j + 3 * 0
    BY FittingFacts
  <2>2. c[1] \in Nat /\ c[2] \in Nat /\ c[3] = 0 /\ c = <<c[1], c[2], 0>>
    BY <2>1 DEF Counts
  <2>3. CASE c[2] = j
    <3>1. c[1] <= i /\ <<c[1], 0, 0>> \in Counts
      BY <2>1, <2>2, <2>3 DEF Counts
    <3>. QED
      BY <2>2, <2>3, <3>1, FittingFacts
  <2>4. CASE c[2] # j
    <3>1. c[2] <= j - 1 /\ i + 2 \in Nat /\ j - 1 \in Nat
      BY <2>1, <2>2, <2>4
    <3>. QED
      BY <2>1, <2>2, <3>1, FittingFacts
  <2>. QED
    BY <2>3, <2>4
<1>2. ASSUME NEW c \in Fitting(<<i + 2, j - 1, 0>>) PROVE c \in Fitting(<<i, j, 0>>)
  <2>1. /\ c \in Counts /\ c[3] <= 0 /\ c[2] + c[3] <= j - 1 + 0
        /\ c[1] + 2 * c[2] + 3 * c[3] <= i + 2 + 2 * (j - 1) + 3 * 0
    BY FittingFacts
  <2>. QED
    BY <2>1, FittingFacts DEF Counts
<1>3. ASSUME NEW c \in Fitting(<<i, 0, 0>>)
      PROVE  c = <<c[1], 0, 0>> /\ <<c[1], j, 0>> \in Fitting(<<i, j, 0>>) /\ c[1] \in Nat
  <2>1. /\ c \in Counts /\ c[3] <= 0 /\ c[2] + c[3] <= 0
        /\ c[1] + 2 * c[2] + 3 * c[3] <= i
    BY FittingFacts
  <2>2. c = <<c[1], 0, 0>> /\ c[1] \in 0..i
    BY <2>1 DEF Counts
  <2>3. <<c[1], j, 0>> \in Counts
    BY <2>2 DEF Counts
  <2>. QED
    BY <2>2, <2>3, FittingFacts
<1>4. \A a \in Nat : /\ SumsCounted(<<a, 0, 0>>) = SumsOfSize(1, a)
                     /\ SumsCounted(<<a, j, 0>>)
                          = SetProduct(SumsOfSize(1, a), SumsOfSize(2, j))
  BY FewerSizes
<1>5. ASSUME NEW x \in All(<<i, j, 0>>)
      PROVE  \/ x \in SetProduct(All(<<i, 0, 0>>), SumsOfSize(2, j))
             \/ x \in All(<<i + 2, j - 1, 0>>)
  <2>1. PICK c \in Fitting(<<i, j, 0>>) : x \in SumsCounted(c)
    BY AllFacts
  <2>2. CASE c \in Fitting(<<i + 2, j - 1, 0>>)
    BY <2>1, <2>2, AllFacts
  <2>3. CASE c = <<c[1], j, 0>> /\ <<c[1], 0, 0>> \in Fitting(<<i, 0, 0>>) /\ c[1] \in Nat
    <3>1. x \in SetProduct(SumsOfSize(1, c[1]), SumsOfSize(2, j))
      BY <1>4, <2>1, <2>3
    <3>2. SumsOfSize(1, c[1]) \subseteq All(<<i, 0, 0>>)
      BY <1>4, <2>3, AllFacts
    <3>. QED
      BY <3>1, <3>2 DEF SetProduct
  <2>. QED
    BY <1>1, <2>2, <2>3
<1>6. ASSUME NEW x \in SetProduct(All(<<i, 0, 0>>), SumsOfSize(2, j))
      PROVE  x \in All(<<i, j, 0>>)
  <2>1. PICK y \in All(<<i, 0, 0>>) : \E z \in SumsOfSize(2, j) : x = y ++ z
    BY DEF SetProduct
  <2>2. PICK c \in Fitting(<<i, 0, 0>>) : y \in SumsCounted(c)
    BY AllFacts
  <2>3. x \in SumsCounted(<<c[1], j, 0>>)
    BY <1>3, <1>4, <2>1, <2>2 DEF SetProduct
  <2>. QED
    BY <1>3, <2>3, AllFacts
<1>7. ASSUME NEW x \in All(<<i + 2, j - 1, 0>>) PROVE x \in All(<<i, j, 0>>)
  BY <1>2, AllFacts
<1>. QED
  BY <1>5, <1>6, <1>7

(* The same for k 3-slots, the last of which may be a 2-slot and a 1-slot. *)
LEMMA AllThrees ==
  ASSUME JewelsOK, NEW i \in Nat, NEW j \in Nat, NEW k \in Nat \ {0}
  PROVE  All(<<i, j, k>>) = SetProduct(All(<<i, j, 0>>), SumsOfSize(3, k))
                              \union All(<<i + 1, j + 1, k - 1>>)
<1>1. ASSUME NEW c \in Fitting(<<i, j, k>>)
      PROVE  \/ c[3] = k /\ <<c[1], c[2], 0>> \in Fitting(<<i, j, 0>>) /\ c \in Counts
             \/ c \in Fitting(<<i + 1, j + 1, k - 1>>)
  <2>1. /\ c \in Counts /\ c[3] <= k /\ c[2] + c[3] <= j + k
        /\ c[1] + 2 * c[2] + 3 * c[3] <= i + 2 * j + 3 * k
    BY FittingFacts
  <2>2. c[1] \in Nat /\ c[2] \in Nat /\ c[3] \in Nat
    BY <2>1 DEF Counts
  <2>3. CASE c[3] = k
    <3>1. <<c[1], c[2], 0>> \in Counts
      BY <2>2 DEF Counts
    <3>2. c[2] + 0 <= j + 0 /\ c[1] + 2 * c[2] + 3 * 0 <= i + 2 * j + 3 * 0
      BY <2>1, <2>2, <2>3
    <3>. QED
      BY <2>1, <2>3, <3>1, <3>2, FittingFacts
  <2>4. CASE c[3] # k
    <3>1. c[3] <= k - 1 /\ i + 1 \in Nat /\ j + 1 \in Nat /\ k - 1 \in Nat
      BY <2>1, <2>2, <2>4
    <3>2. /\ c[2] + c[3] <= j + 1 + (k - 1)
          /\ c[1] + 2 * c[2] + 3 * c[3] <= i + 1 + 2 * (j + 1) + 3 * (k - 1)
      BY <2>1, <2>2
    <3>. QED
      BY <2>1, <3>1, <3>2, FittingFacts
  <2>. QED
    BY <2>3, <2>4
<1>2. ASSUME NEW c \in Fitting(<<i + 1, j + 1, k - 1>>) PROVE c \in Fitting(<<i, j, k>>)
  <2>1. /\ c \in Counts /\ c[3] <= k - 1 /\ c[2] + c[3] <= j + 1 + (k - 1)
        /\ c[1] + 2 * c[2] + 3 * c[3] <= i + 1 + 2 * (j + 1) + 3 * (k - 1)
    BY FittingFacts
  <2>2. /\ c[3] <= k /\ c[2] + c[3] <= j + k
        /\ c[1] + 2 * c[2] + 3 * c[3] <= i + 2 * j + 3 * k
    BY <2>1 DEF Counts
  <2>. QED
    BY <2>1, <2>2, FittingFacts
<1>3. ASSUME NEW c \in Fitting(<<i, j, 0>>)
      PROVE  /\ c = <<c[1], c[2], 0>> /\ <<c[1], c[2], k>> \in Fitting(<<i, j, k>>)
             /\ c[1] \in Nat /\ c[2] \in Nat
  <2>1. /\ c \in Counts /\ c[3] <= 0 /\ c[2] + c[3] <= j + 0
        /\ c[1] + 2 * c[2] + 3 * c[3] <= i + 2 * j + 3 * 0
    BY FittingFacts
  <2>2. c = <<c[1], c[2], 0>> /\ c[1] \in Nat /\ c[2] \in Nat
    BY <2>1 DEF Counts
  <2>3. <<c[1], c[2], k>> \in Counts
    BY <2>2 DEF Counts
  <2>4. c[2] + k <= j + k /\ c[1] + 2 * c[2] + 3 * k <= i + 2 * j + 3 * k
    BY <2>1, <2>2
  <2>. QED
    BY <2>2, <2>3, <2>4, FittingFacts
<1>4. \A c : c[3] = k => SumsCounted(c)
                 = SetProduct(SetProduct(SumsOfSize(1, c[1]), SumsOfSize(2, c[2])),
                              SumsOfSize(3, k))
  BY DEF SumsCounted
<1>5. \A a, b \in Nat : SumsCounted(<<a, b, 0>>)
                          = SetProduct(SumsOfSize(1, a), SumsOfSize(2, b))
  BY FewerSizes
<1>6. ASSUME NEW x \in All(<<i, j, k>>)
      PROVE  \/ x \in SetProduct(All(<<i, j, 0>>), SumsOfSize(3, k))
             \/ x \in All(<<i + 1, j + 1, k - 1>>)
  <2>1. PICK c \in Fitting(<<i, j, k>>) : x \in SumsCounted(c)
    BY AllFacts
  <2>2. CASE c \in Fitting(<<i + 1, j + 1, k - 1>>)
    BY <2>1, <2>2, AllFacts
  <2>3. CASE c[3] = k /\ <<c[1], c[2], 0>> \in Fitting(<<i, j, 0>>) /\ c \in Counts
    <3>1. SetProduct(SumsOfSize(1, c[1]), SumsOfSize(2, c[2])) \subseteq All(<<i, j, 0>>)
      <4>1. c[1] \in Nat /\ c[2] \in Nat
        BY <2>3 DEF Counts
      <4>. QED
        BY <1>5, <2>3, <4>1, AllFacts
    <3>. QED
      BY <1>4, <2>1, <2>3, <3>1 DEF SetProduct
  <2>. QED
    BY <1>1, <2>2, <2>3
<1>7. ASSUME NEW x \in SetProduct(All(<<i, j, 0>>), SumsOfSize(3, k))
      PROVE  x \in All(<<i, j, k>>)
  <2>1. PICK y \in All(<<i, j, 0>>) : \E z \in SumsOfSize(3, k) : x = y ++ z
    BY DEF SetProduct
  <2>2. PICK c \in Fitting(<<i, j, 0>>) : y \in SumsCounted(c)
    BY AllFacts
  <2>3. y \in SetProduct(SumsOfSize(1, c[1]), SumsOfSize(2, c[2]))
    BY <1>3, <1>5, <2>2
  <2>4. x \in SumsCounted(<<c[1], c[2], k>>)
    BY <2>1, <2>3 DEF SumsCounted, SetProduct
  <2>. QED
    BY <1>3, <2>4, AllFacts
<1>8. ASSUME NEW x \in All(<<i + 1, j + 1, k - 1>>) PROVE x \in All(<<i, j, k>>)
  BY <1>2, AllFacts
<1>. QED
  BY <1>6, <1>7, <1>8

-----------------------------------------------------------------------------
FixedRight(c) ==
  \A size \in 1..3 :
    /\ c.fixed[size][0] = {NoKey}
    /\ \A n \in 0..HolesLimit : c.fixed[size][n] # {} =>
         c.fixed[size][n] = SumsOfSize(size, n)

RightUpTo(c, index) ==
  /\ c.buffer[0] = {NoKey}
  /\ \A s \in Rooms : At(s) <= index /\ c.buffer[At(s)] # {} =>
       c.buffer[At(s)] = All(s)

Ready(c, index) == c \in Caches /\ FixedRight(c) /\ RightUpTo(c, index)

(* No entry of c is lost in e.                                             *)
Keeps(c, e) == \A y \in 0 .. BufferSize - 1 : c.buffer[y] # {} => e.buffer[y] # {}

Answers(c, e, s) ==
  /\ Ready(e, At(s))
  /\ Keeps(c, e)
  /\ e.buffer[At(s)] = All(s)
  /\ \A y \in 0 .. BufferSize - 1 : y > At(s) => e.buffer[y] = c.buffer[y]

Put(c, index, keys) == [c EXCEPT !.buffer[index] = keys]

(* The entries of the alignments are in the buffer.                        *)
LEMMA BufferHasRoom ==
  /\ BufferSize \in Nat
  /\ BufferSize = (3 * MultLimit) * Layer
  /\ Layer \in Nat
  /\ \A s \in Rooms : At(s) \in 0 .. BufferSize - 1
  /\ 0 \in 0 .. BufferSize - 1
<1>1. MAX_ONES \in Nat \ {0} /\ MAX_TWOS \in Nat \ {0} /\ MAX_THREES \in Nat \ {0}
      /\ MultLimit \in Nat \ {0}
  BY Strides
<1>2. Layer \in Nat /\ BufferSize \in Nat
  <2>1. MAX_THREES * MAX_TWOS \in Nat /\ MAX_ONES * MAX_TWOS \in Nat
    BY <1>1
  <2>2. MAX_ONES * MAX_TWOS * MAX_THREES \in Nat
    BY <1>1, <2>1
  <2>. QED
    BY <1>1, <2>1, <2>2 DEF Layer, BufferSize
<1>3. BufferSize = (3 * MultLimit) * Layer
  <2>1. Layer = MAX_ONES * MAX_TWOS * MAX_THREES
    BY <1>1 DEF Layer
  <2>. DEFINE l == MAX_ONES * MAX_TWOS * MAX_THREES
  <2>2. BufferSize = l * 3 * MultLimit
    BY DEF BufferSize
  <2>3. l \in Nat
    BY <1>2, <2>1
  <2>. HIDE DEF l
  <2>4. l * 3 * MultLimit = (3 * MultLimit) * l
    BY <1>1, <2>3
  <2>. QED
    BY <2>1, <2>2, <2>4 DEF l
<1>4. Layer <= BufferSize
  <2>1. 0 * Layer + Layer <= (3 * MultLimit) * Layer
    BY <1>1, <1>2, Blocks
  <2>. QED
    BY <1>2, <1>3, <2>1
<1>5. \A s \in Rooms : At(s) \in 0 .. BufferSize - 1
  BY <1>2, <1>4, IndexOrder
<1>6. <<0, 0, 0>> \in Rooms /\ At(<<0, 0, 0>>) = 0
  BY Strides DEF Rooms, Holes, At, Index
<1>. QED
  BY <1>2, <1>3, <1>5, <1>6

(* The two parts of a cache.                                               *)
LEMMA CacheParts ==
  /\ \A c \in Caches : /\ c.fixed \in [1..3 -> [0..HolesLimit -> SUBSET Keys]]
                       /\ c.buffer \in [0 .. BufferSize - 1 -> SUBSET Keys]
BY DEF Caches

(* Put changes one entry of the buffer.                                    *)
LEMMA PutLemma ==
  ASSUME NEW c \in Caches, NEW index \in 0 .. BufferSize - 1, NEW keys \in SUBSET Keys
  PROVE  /\ Put(c, index, keys) \in Caches
         /\ Put(c, index, keys).fixed = c.fixed
         /\ Put(c, index, keys).buffer[index] = keys
         /\ \A y \in 0 .. BufferSize - 1 : y # index =>
              Put(c, index, keys).buffer[y] = c.buffer[y]
<1>. DEFINE b == [c.buffer EXCEPT ![index] = keys]
<1>1. /\ b \in [0 .. BufferSize - 1 -> SUBSET Keys]
      /\ b[index] = keys
      /\ \A y \in 0 .. BufferSize - 1 : y # index => b[y] = c.buffer[y]
  BY CacheParts
<1>2. Put(c, index, keys) = [c EXCEPT !.buffer = b]
  BY DEF Put
<1>. HIDE DEF b
<1>3. /\ [c EXCEPT !.buffer = b] \in Caches
      /\ [c EXCEPT !.buffer = b].fixed = c.fixed
      /\ [c EXCEPT !.buffer = b].buffer = b
  BY <1>1 DEF Caches
<1>. QED
  BY <1>1, <1>2, <1>3

(* No jewel fits everywhere, so an answer is never empty.                  *)
LEMMA AllHasNone ==
  ASSUME JewelsOK, NEW s \in Rooms PROVE NoKey \in All(s)
<1>1. s = <<s[1], s[2], s[3]>> /\ s[1] \in Nat /\ s[2] \in Nat /\ s[3] \in Nat
  BY Strides DEF Rooms
<1>. DEFINE i == s[1]
            j == s[2]
            k == s[3]
<1>2. i \in Nat /\ j \in Nat /\ k \in Nat /\ s = <<i, j, k>>
  BY <1>1
<1>. HIDE DEF i, j, k
<1>3. <<0, 0, 0>> \in Fitting(<<i, j, k>>)
  <2>1. <<0, 0, 0>> \in Counts
    BY DEF Counts
  <2>. QED
    BY <1>2, <2>1, FittingFacts
<1>4. SumsCounted(<<0, 0, 0>>) = {NoKey}
  BY FewerSizes, SizeSums
<1>. QED
  BY <1>2, <1>3, <1>4, AllFacts

(* Keys for s, then those of t below it, make the answer for s.             *)
LEMMA FillLemma ==
  ASSUME NEW d \in Caches, NEW s \in Rooms, NEW t \in Rooms,
         NEW keys \in SUBSET Keys, NEW Below \in [Caches -> Caches]
  PROVE  Fill(d, At(s), keys, Below, At(t)) \in Caches
<1>. DEFINE d1 == Put(d, At(s), keys)
            e  == Below[d1]
<1>1. At(s) \in 0 .. BufferSize - 1 /\ At(t) \in 0 .. BufferSize - 1
  BY BufferHasRoom
<1>2. d1 \in Caches
  BY <1>1, PutLemma
<1>3. e \in Caches
  BY <1>2
<1>4. e.buffer[At(s)] \in SUBSET Keys /\ e.buffer[At(t)] \in SUBSET Keys
  BY <1>1, <1>3, CacheParts
<1>5. Fill(d, At(s), keys, Below, At(t))
        = Put(e, At(s), e.buffer[At(s)] \union e.buffer[At(t)])
  BY DEF Fill, Put
<1>. QED
  BY <1>1, <1>3, <1>4, <1>5, PutLemma

(* If d is ready, the keys and the answer for t make up the answer for s,  *)
(* and Below answers for t, then Fill answers for s.                       *)
LEMMA FillAnswers ==
  ASSUME JewelsOK, NEW c \in Caches, NEW d \in Caches,
         NEW s \in Rooms, NEW t \in Rooms, At(t) < At(s),
         Ready(d, At(s)),
         \A y \in 0 .. BufferSize - 1 : y > At(s) => d.buffer[y] = c.buffer[y],
         Keeps(c, d),
         NEW keys \in SUBSET Keys, All(s) = keys \union All(t),
         NEW Below \in [Caches -> Caches],
         \A x \in Caches : Ready(x, At(t)) => Answers(x, Below[x], t)
  PROVE  Answers(c, Fill(d, At(s), keys, Below, At(t)), s)
<1>. DEFINE d1 == Put(d, At(s), keys)
            e  == Below[d1]
            r  == Put(e, At(s), e.buffer[At(s)] \union e.buffer[At(t)])
<1>1. At(s) \in 0 .. BufferSize - 1 /\ At(t) \in 0 .. BufferSize - 1
  BY BufferHasRoom
<1>2. /\ d1 \in Caches
      /\ d1.fixed = d.fixed
      /\ d1.buffer[At(s)] = keys
      /\ \A y \in 0 .. BufferSize - 1 : y # At(s) => d1.buffer[y] = d.buffer[y]
  BY <1>1, PutLemma
<1>3. Ready(d1, At(t))
  <2>1. FixedRight(d1)
    BY <1>2 DEF Ready, FixedRight
  <2>2. d1.buffer[0] = {NoKey}
    <3>1. 0 # At(s) /\ 0 \in 0 .. BufferSize - 1
      BY <1>1, BufferHasRoom
    <3>. QED
      BY <1>2, <3>1 DEF Ready, RightUpTo
  <2>3. ASSUME NEW u \in Rooms, At(u) <= At(t)
        PROVE  At(u) <= At(s) /\ d1.buffer[At(u)] = d.buffer[At(u)]
    <3>1. At(u) \in 0 .. BufferSize - 1
      BY BufferHasRoom
    <3>2. At(u) # At(s) /\ At(u) <= At(s)
      BY <1>1, <2>3, <3>1
    <3>. QED
      BY <1>2, <3>1, <3>2
  <2>. QED
    BY <1>2, <2>1, <2>2, <2>3 DEF Ready, RightUpTo
<1>4. e \in Caches /\ Answers(d1, e, t) /\ Keeps(d1, e)
  BY <1>2, <1>3 DEF Answers
<1>5. /\ FixedRight(e) /\ RightUpTo(e, At(t)) /\ e.buffer[At(t)] = All(t)
      /\ \A y \in 0 .. BufferSize - 1 : y > At(t) => e.buffer[y] = d1.buffer[y]
  BY <1>4 DEF Answers, Ready
<1>6. e.buffer[At(s)] = keys
  BY <1>1, <1>2, <1>5
<1>7. e.buffer[At(s)] \union e.buffer[At(t)] = All(s) /\ All(s) \in SUBSET Keys
  <2>1. e.buffer[At(t)] \in SUBSET Keys
    BY <1>1, <1>4, CacheParts
  <2>. QED
    BY <1>5, <1>6, <2>1
<1>8. Fill(d, At(s), keys, Below, At(t)) = r
  BY DEF Fill, Put
<1>9. /\ r \in Caches
      /\ r.fixed = e.fixed
      /\ r.buffer[At(s)] = All(s)
      /\ \A y \in 0 .. BufferSize - 1 : y # At(s) => r.buffer[y] = e.buffer[y]
  BY <1>1, <1>4, <1>7, PutLemma
<1>. HIDE DEF d1, e, r
<1>10. FixedRight(r)
  BY <1>5, <1>9 DEF FixedRight
<1>11. RightUpTo(r, At(s))
  <2>1. r.buffer[0] = {NoKey}
    <3>1. 0 # At(s) /\ 0 \in 0 .. BufferSize - 1
      BY <1>1, BufferHasRoom
    <3>. QED
      BY <1>5, <1>9, <3>1 DEF RightUpTo
  <2>2. ASSUME NEW u \in Rooms, At(u) <= At(s), r.buffer[At(u)] # {}
        PROVE  r.buffer[At(u)] = All(u)
    <3>1. At(u) \in 0 .. BufferSize - 1
      BY BufferHasRoom
    <3>2. CASE At(u) = At(s)
      BY <1>9, <3>2, IndexOrder
    <3>3. CASE At(u) # At(s) /\ At(u) <= At(t)
      <4>1. r.buffer[At(u)] = e.buffer[At(u)]
        BY <1>9, <3>1, <3>3
      <4>. QED
        BY <1>5, <2>2, <3>3, <4>1 DEF RightUpTo
    <3>4. CASE At(u) # At(s) /\ ~ (At(u) <= At(t))
      <4>1. r.buffer[At(u)] = e.buffer[At(u)]
        BY <1>9, <3>1, <3>4
      <4>2. e.buffer[At(u)] = d1.buffer[At(u)]
        BY <1>1, <1>5, <3>1, <3>4
      <4>3. d1.buffer[At(u)] = d.buffer[At(u)]
        BY <1>2, <3>1, <3>4
      <4>. QED
        BY <2>2, <4>1, <4>2, <4>3 DEF Ready, RightUpTo
    <3>. QED
      BY <3>2, <3>3, <3>4
  <2>. QED
    BY <2>1, <2>2 DEF RightUpTo
<1>12. ASSUME NEW y \in 0 .. BufferSize - 1, y > At(s) PROVE r.buffer[y] = c.buffer[y]
  <2>1. y # At(s) /\ y > At(t)
    BY <1>1, <1>12
  <2>. QED
    BY <1>2, <1>5, <1>9, <1>12, <2>1
<1>13. Keeps(c, r)
  <2>1. r.buffer[At(s)] # {}
    BY <1>9, AllHasNone
  <2>2. ASSUME NEW y \in 0 .. BufferSize - 1, y # At(s), c.buffer[y] # {}
        PROVE  r.buffer[y] # {}
    <3>1. r.buffer[y] = e.buffer[y] /\ d1.buffer[y] = d.buffer[y]
      BY <1>2, <1>9, <2>2
    <3>. QED
      BY <1>4, <2>2, <3>1 DEF Keeps
  <2>. QED
    BY <2>1, <2>2 DEF Keeps
<1>. QED
  BY <1>8, <1>9, <1>10, <1>11, <1>12, <1>13 DEF Answers, Ready

-----------------------------------------------------------------------------
PutFixed(d, size, n, keys) == [d EXCEPT !.fixed[size][n] = keys]

(* PutFixed changes one entry of the sums of a fixed number of jewels.     *)
LEMMA PutFixedLemma ==
  ASSUME NEW d \in Caches, NEW size \in 1..3, NEW n \in 0..HolesLimit,
         NEW keys \in SUBSET Keys
  PROVE  /\ PutFixed(d, size, n, keys) \in Caches
         /\ PutFixed(d, size, n, keys).buffer = d.buffer
         /\ PutFixed(d, size, n, keys).fixed[size][n] = keys
         /\ \A z \in 1..3, m \in 0..HolesLimit : z # size \/ m # n =>
              PutFixed(d, size, n, keys).fixed[z][m] = d.fixed[z][m]
<1>. DEFINE f == [d.fixed EXCEPT ![size][n] = keys]
<1>1. d.fixed \in [1..3 -> [0..HolesLimit -> SUBSET Keys]]
  BY CacheParts
<1>2. /\ f \in [1..3 -> [0..HolesLimit -> SUBSET Keys]]
      /\ f[size][n] = keys
      /\ \A z \in 1..3, m \in 0..HolesLimit : z # size \/ m # n => f[z][m] = d.fixed[z][m]
  BY <1>1
<1>3. PutFixed(d, size, n, keys) = [d EXCEPT !.fixed = f]
  BY DEF PutFixed
<1>. HIDE DEF f
<1>4. /\ [d EXCEPT !.fixed = f] \in Caches
      /\ [d EXCEPT !.fixed = f].buffer = d.buffer
      /\ [d EXCEPT !.fixed = f].fixed = f
  BY <1>2 DEF Caches
<1>. QED
  BY <1>2, <1>3, <1>4

(* The caches that CalculateFixed may make of c.                           *)
WithFixed(c, size, n) ==
  { d \in Caches :
      /\ d.buffer = c.buffer
      /\ FixedRight(c) => FixedRight(d) /\ d.fixed[size][n] = SumsOfSize(size, n) }

(* One step of the loop: one more jewel of the size.                       *)
LEMMA FixedStep ==
  ASSUME JewelsOK, NEW c \in Caches, NEW size \in 1..3, NEW n \in 1..HolesLimit,
         NEW d \in WithFixed(c, size, n - 1)
  PROVE  PutFixed(d, size, n, SetProduct(d.fixed[size][n - 1], jewel_keys[size]))
           \in WithFixed(c, size, n)
<1>. DEFINE keys == SetProduct(d.fixed[size][n - 1], jewel_keys[size])
            r == PutFixed(d, size, n, keys)
<1>1. /\ d \in Caches /\ d.buffer = c.buffer
      /\ FixedRight(c) => FixedRight(d) /\ d.fixed[size][n - 1] = SumsOfSize(size, n - 1)
  BY DEF WithFixed
<1>2. n \in 0..HolesLimit /\ n - 1 \in 0..HolesLimit /\ n - 1 \in Nat /\ (n - 1) + 1 = n
      /\ n # 0 /\ 0 \in 0..HolesLimit
  BY Strides
<1>3. keys \in SUBSET Keys
  <2>1. d.fixed[size][n - 1] \in SUBSET Keys
    <3>1. d.fixed \in [1..3 -> [0..HolesLimit -> SUBSET Keys]]
      BY <1>1, CacheParts
    <3>2. d.fixed[size] \in [0..HolesLimit -> SUBSET Keys]
      BY <3>1
    <3>. QED
      BY <1>2, <3>2
  <2>2. jewel_keys[size] \in SUBSET Keys
    BY DEF JewelsOK
  <2>. QED
    BY <2>1, <2>2, ProductIsKeys
<1>4. FixedRight(c) => keys = SumsOfSize(size, n)
  <2>1. SumsOfSize(size, (n - 1) + 1) = SetProduct(SumsOfSize(size, n - 1), jewel_keys[size])
    BY <1>2, SizeSums
  <2>. QED
    BY <1>1, <1>2, <2>1
<1>. HIDE DEF keys
<1>5. /\ r \in Caches /\ r.buffer = d.buffer /\ r.fixed[size][n] = keys
      /\ \A z \in 1..3, m \in 0..HolesLimit : z # size \/ m # n => r.fixed[z][m] = d.fixed[z][m]
  BY <1>1, <1>2, <1>3, PutFixedLemma
<1>. HIDE DEF r
<1>6. ASSUME FixedRight(c) PROVE FixedRight(r)
  <2>1. ASSUME NEW z \in 1..3 PROVE r.fixed[z][0] = {NoKey}
    BY <1>1, <1>2, <1>5, <1>6 DEF FixedRight
  <2>2. ASSUME NEW z \in 1..3, NEW m \in 0..HolesLimit, r.fixed[z][m] # {}
        PROVE  r.fixed[z][m] = SumsOfSize(z, m)
    <3>1. CASE z = size /\ m = n
      BY <1>4, <1>5, <1>6, <3>1
    <3>2. CASE z # size \/ m # n
      BY <1>1, <1>5, <1>6, <2>2, <3>2 DEF FixedRight
    <3>. QED
      BY <3>1, <3>2
  <2>. QED
    BY <2>1, <2>2 DEF FixedRight
<1>. QED
  BY <1>1, <1>4, <1>5, <1>6 DEF WithFixed, r, keys

(* The recursive definition in CalculateFixed.                             *)
FixedAfter(f, c, size, i) ==
  f = [n \in 0..i |->
         IF n = 0 \/ c.fixed[size][n] # {} THEN c
         ELSE PutFixed(f[n - 1], size, n,
                       SetProduct(f[n - 1].fixed[size][n - 1], jewel_keys[size]))]

(* CalculateFixed computes the sums of exactly i jewels of a size.         *)
LEMMA FixedLemma ==
  ASSUME JewelsOK, NEW c \in Caches, NEW size \in 1..3, NEW i \in 0..HolesLimit
  PROVE  CalculateFixed(c, size, i) \in WithFixed(c, size, i)
<1>. DEFINE S == [n \in 0..i |-> WithFixed(c, size, n)]
            step == [nd \in (1..i) \X Caches |->
                       IF c.fixed[size][nd[1]] # {} THEN c
                       ELSE PutFixed(nd[2], size, nd[1],
                              SetProduct(nd[2].fixed[size][nd[1] - 1], jewel_keys[size]))]
            g == CHOOSE f : FixedAfter(f, c, size, i)
<1>1. /\ i \in Nat /\ 0 \in 0..i /\ i \in 0..i
      /\ \A n \in 1..i : n \in 0..i /\ n # 0 /\ n - 1 \in 0..i /\ n \in 1..HolesLimit
  BY Strides
<1>2. \A n \in 0..i : S[n] = WithFixed(c, size, n) /\ S[n] \subseteq Caches
  BY DEF WithFixed
<1>3. \A n \in 1..i : \A d \in Caches :
        step[<<n, d>>] = IF c.fixed[size][n] # {} THEN c
                         ELSE PutFixed(d, size, n,
                                SetProduct(d.fixed[size][n - 1], jewel_keys[size]))
  OBVIOUS
<1>. HIDE DEF S, step
<1>4. c \in S[0]
  <2>1. SumsOfSize(size, 0) = {NoKey}
    BY SizeSums
  <2>2. FixedRight(c) => c.fixed[size][0] = {NoKey}
    BY DEF FixedRight
  <2>3. c \in WithFixed(c, size, 0)
    BY <2>1, <2>2 DEF WithFixed
  <2>. QED
    BY <1>1, <1>2, <2>3
<1>5. ASSUME NEW n \in 1..i, NEW d \in S[n - 1] PROVE step[<<n, d>>] \in S[n]
  <2>1. d \in Caches /\ d \in WithFixed(c, size, n - 1)
    BY <1>1, <1>2
  <2>2. CASE c.fixed[size][n] # {}
    <3>1. FixedRight(c) => c.fixed[size][n] = SumsOfSize(size, n)
      BY <1>1, <2>2 DEF FixedRight
    <3>2. c \in WithFixed(c, size, n)
      BY <3>1 DEF WithFixed
    <3>3. step[<<n, d>>] = c
      BY <1>3, <2>1, <2>2
    <3>. QED
      BY <1>1, <1>2, <3>2, <3>3
  <2>3. CASE c.fixed[size][n] = {}
    <3>1. step[<<n, d>>] = PutFixed(d, size, n,
                                SetProduct(d.fixed[size][n - 1], jewel_keys[size]))
      BY <1>3, <2>1, <2>3
    <3>2. step[<<n, d>>] \in WithFixed(c, size, n)
      BY <1>1, <2>1, <3>1, FixedStep
    <3>. QED
      BY <1>1, <1>2, <3>2
  <2>. QED
    BY <2>2, <2>3
<1>6. PICK f : FunctionUpTo(f, i) /\ Steps(f, i, c, step) /\ Within(f, i, S)
  BY <1>1, <1>4, <1>5, RecursionExists
<1>7. /\ f[0] = c
      /\ \A n \in 1..i : f[n] = step[<<n, f[n - 1]>>]
      /\ \A n \in 0..i : f[n] \in S[n]
  BY <1>6, Zenon DEF Steps, Within
<1>8. FixedAfter(f, c, size, i)
  <2>1. ASSUME NEW n \in 0..i
        PROVE  f[n] = IF n = 0 \/ c.fixed[size][n] # {} THEN c
                      ELSE PutFixed(f[n - 1], size, n,
                             SetProduct(f[n - 1].fixed[size][n - 1], jewel_keys[size]))
    <3>1. n = 0 \/ n \in 1..i
      OBVIOUS
    <3>2. CASE n \in 1..i
      <4>1. f[n - 1] \in Caches
        BY <1>1, <1>2, <1>7, <3>2
      <4>2. f[n] = step[<<n, f[n - 1]>>]
        BY <1>7, <3>2
      <4>3. step[<<n, f[n - 1]>>]
              = IF c.fixed[size][n] # {} THEN c
                ELSE PutFixed(f[n - 1], size, n,
                       SetProduct(f[n - 1].fixed[size][n - 1], jewel_keys[size]))
        BY <1>3, <3>2, <4>1, Zenon
      <4>4. n # 0
        BY <3>2
      <4>. QED
        BY <4>2, <4>3, <4>4, Zenon
    <3>. QED
      BY <1>7, <3>1, <3>2
  <2>. QED
    BY <1>6, <2>1, Zenon DEF FixedAfter, FunctionUpTo
<1>9. FixedAfter(g, c, size, i)
  BY <1>8, Zenon
<1>10. CalculateFixed(c, size, i) = g[i]
  BY Zenon DEF CalculateFixed, FixedAfter, PutFixed
<1>. HIDE DEF g
<1>11. ASSUME NEW n \in 1..i, g[n - 1] \in S[n - 1] PROVE g[n] = step[<<n, g[n - 1]>>]
  <2>1. g[n] = IF n = 0 \/ c.fixed[size][n] # {} THEN c
               ELSE PutFixed(g[n - 1], size, n,
                      SetProduct(g[n - 1].fixed[size][n - 1], jewel_keys[size]))
    <3>1. n \in 0..i
      BY <1>1
    <3>. QED
      BY <1>9, <3>1, Zenon DEF FixedAfter
  <2>2. g[n - 1] \in Caches
    BY <1>1, <1>2, <1>11
  <2>. QED
    BY <1>1, <1>3, <2>1, <2>2, Zenon
<1>12. g[0] \in S[0]
  <2>1. g[0] = c
    BY <1>1, <1>9, Zenon DEF FixedAfter
  <2>. QED
    BY <1>4, <2>1
<1>13. \A n \in 0..i : g[n] \in S[n]
  BY <1>1, <1>5, <1>11, <1>12, RecursionWithin
<1>. QED
  BY <1>1, <1>2, <1>10, <1>13

-----------------------------------------------------------------------------
(* e is what a call for s may make of c.                                   *)
Serves(c, e, s) == e \in Caches /\ (Ready(c, At(s)) => Answers(c, e, s))

(* The functions that serve s, whatever the caches hold.                   *)
Servers(s) == { g \in [Caches -> Caches] : \A c \in Caches : Serves(c, g[c], s) }

(* An entry that is not empty needs no call.                               *)
LEMMA AlreadyThere ==
  ASSUME NEW s \in Rooms, NEW c \in Caches, c.buffer[At(s)] # {}
  PROVE  Serves(c, c, s)
<1>1. At(s) <= At(s)
  BY IndexOrder
<1>. QED
  BY <1>1 DEF Serves, Ready, RightUpTo, Answers, Keeps

(* After a call for a smaller u the buffers are still ready for s.         *)
LEMMA NextIsReady ==
  ASSUME NEW s \in Rooms, NEW u \in Rooms, At(u) <= At(s),
         NEW c \in Caches, NEW e \in Caches, Ready(c, At(s)), Serves(c, e, u)
  PROVE  /\ Ready(e, At(s))
         /\ e.buffer[At(u)] = All(u)
         /\ Keeps(c, e)
         /\ \A y \in 0 .. BufferSize - 1 : y > At(s) => e.buffer[y] = c.buffer[y]
<1>0. At(s) \in 0 .. BufferSize - 1 /\ At(u) \in 0 .. BufferSize - 1
  BY BufferHasRoom
<1>1. Ready(c, At(u))
  <2>1. \A v \in Rooms : At(v) <= At(u) => At(v) <= At(s)
    <3>1. \A v \in Rooms : At(v) \in Int
      BY BufferHasRoom
    <3>. QED
      BY <1>0, <3>1
  <2>. QED
    BY <2>1 DEF Ready, RightUpTo
<1>2. /\ FixedRight(e) /\ RightUpTo(e, At(u)) /\ e.buffer[At(u)] = All(u)
      /\ Keeps(c, e)
      /\ \A y \in 0 .. BufferSize - 1 : y > At(u) => e.buffer[y] = c.buffer[y]
  BY <1>1 DEF Serves, Answers, Ready
<1>3. ASSUME NEW v \in Rooms, At(v) <= At(s), e.buffer[At(v)] # {}
      PROVE  e.buffer[At(v)] = All(v)
  <2>1. At(v) \in 0 .. BufferSize - 1
    BY BufferHasRoom
  <2>2. CASE At(v) <= At(u)
    BY <1>2, <1>3, <2>2 DEF RightUpTo
  <2>3. CASE At(v) > At(u)
    BY <1>2, <1>3, <2>1, <2>3 DEF Ready, RightUpTo
  <2>. QED
    BY <1>0, <2>1, <2>2, <2>3
<1>4. RightUpTo(e, At(s))
  BY <1>2, <1>3 DEF RightUpTo
<1>5. \A y \in 0 .. BufferSize - 1 : y > At(s) => e.buffer[y] = c.buffer[y]
  <2>1. \A y \in 0 .. BufferSize - 1 : y > At(s) => y > At(u)
    BY <1>0
  <2>. QED
    BY <1>2, <2>1
<1>. QED
  BY <1>2, <1>4, <1>5 DEF Ready

(* CalculateFixed leaves the buffers ready.                                *)
LEMMA FixedIsReady ==
  ASSUME NEW s \in Rooms, NEW e \in Caches, NEW size \in 1..3, NEW n \in 0..HolesLimit,
         NEW d \in WithFixed(e, size, n), Ready(e, At(s))
  PROVE  Ready(d, At(s)) /\ d.buffer = e.buffer /\ d.fixed[size][n] = SumsOfSize(size, n)
BY DEF WithFixed, Ready, RightUpTo

(* The entries of a cache are sets of signatures.                          *)
LEMMA CacheEntries ==
  ASSUME NEW d \in Caches
  PROVE  /\ \A size \in 1..3, n \in 0..HolesLimit : d.fixed[size][n] \in SUBSET Keys
         /\ \A s \in Rooms : d.buffer[At(s)] \in SUBSET Keys
<1>1. /\ d.fixed \in [1..3 -> [0..HolesLimit -> SUBSET Keys]]
      /\ d.buffer \in [0 .. BufferSize - 1 -> SUBSET Keys]
  BY CacheParts
<1>2. ASSUME NEW size \in 1..3, NEW n \in 0..HolesLimit
      PROVE  d.fixed[size][n] \in SUBSET Keys
  <2>1. d.fixed[size] \in [0..HolesLimit -> SUBSET Keys]
    BY <1>1
  <2>. QED
    BY <2>1
<1>. QED
  BY <1>1, <1>2, BufferHasRoom

(* A level of the recursion: the sums for u, each with n jewels of a size, *)
(* and those for t, are the answer for s.                                  *)
LEMMA Level ==
  ASSUME JewelsOK, NEW s \in Rooms, NEW u \in Rooms, NEW t \in Rooms,
         At(u) < At(s), At(t) < At(s),
         NEW size \in 1..3, NEW n \in 0..HolesLimit,
         All(s) = SetProduct(All(u), SumsOfSize(size, n)) \union All(t),
         NEW Below \in Servers(t), NEW c \in Caches, NEW e \in Caches, Serves(c, e, u),
         NEW d, d = CalculateFixed(e, size, n)
  PROVE  Serves(c, Fill(d, At(s), SetProduct(d.buffer[At(u)], d.fixed[size][n]),
                        Below, At(t)), s)
<1>. DEFINE keys == SetProduct(d.buffer[At(u)], d.fixed[size][n])
<1>1. d \in WithFixed(e, size, n) /\ d \in Caches
  BY FixedLemma DEF WithFixed
<1>2. keys \in SUBSET Keys
  BY <1>1, CacheEntries, ProductIsKeys
<1>3. Below \in [Caches -> Caches]
  BY DEF Servers
<1>4. ASSUME NEW x \in Caches, Ready(x, At(t)) PROVE Answers(x, Below[x], t)
  BY <1>4 DEF Servers, Serves
<1>5. ASSUME Ready(c, At(s))
      PROVE  /\ Ready(d, At(s))
             /\ \A y \in 0 .. BufferSize - 1 : y > At(s) => d.buffer[y] = c.buffer[y]
             /\ Keeps(c, d)
             /\ keys = SetProduct(All(u), SumsOfSize(size, n))
  <2>1. At(u) <= At(s)
    BY BufferHasRoom
  <2>2. /\ Ready(e, At(s))
        /\ e.buffer[At(u)] = All(u)
        /\ Keeps(c, e)
        /\ \A y \in 0 .. BufferSize - 1 : y > At(s) => e.buffer[y] = c.buffer[y]
    BY <1>5, <2>1, NextIsReady
  <2>3. /\ Ready(d, At(s)) /\ d.buffer = e.buffer
        /\ d.fixed[size][n] = SumsOfSize(size, n)
    BY <1>1, <2>2, FixedIsReady
  <2>. QED
    BY <2>2, <2>3 DEF Keeps
<1>. HIDE DEF keys
<1>6. Fill(d, At(s), keys, Below, At(t)) \in Caches
  BY <1>1, <1>2, <1>3, FillLemma
<1>7. ASSUME Ready(c, At(s)) PROVE Answers(c, Fill(d, At(s), keys, Below, At(t)), s)
  <2>1. All(s) = keys \union All(t)
    BY <1>5, <1>7
  <2>. QED
    BY <1>1, <1>2, <1>3, <1>4, <1>5, <1>7, <2>1, FillAnswers
<1>8. Serves(c, Fill(d, At(s), keys, Below, At(t)), s)
  BY <1>6, <1>7 DEF Serves
<1>. QED
  BY <1>8 DEF keys

-----------------------------------------------------------------------------
(* The body of FillOnes.                                                   *)
OnesFrom(i, below) ==
  [c \in Caches |->
     IF i = 0 \/ c.buffer[i] # {} THEN c
     ELSE LET d == CalculateFixed(c, 1, i)
          IN  Fill(d, i, d.fixed[1][i], below, i - 1)]

OnesDefined(f) == f = [i \in 0..HolesLimit |-> OnesFrom(i, f[i - 1])]

(* i 1-slots are an alignment; its entry is the i-th.                      *)
LEMMA OnesRooms ==
  ASSUME NEW i \in 0..HolesLimit
  PROVE  <<i, 0, 0>> \in Rooms /\ At(<<i, 0, 0>>) = i
<1>1. MAX_TWOS \in Nat /\ MAX_ONES \in Nat /\ HolesLimit \in Nat /\ SlotsLimit \in Nat
  BY Strides
<1>2. 0 * MAX_TWOS + 0 = 0 /\ 0 * MAX_ONES + i = i
  BY <1>1
<1>. QED
  BY <1>1, <1>2 DEF Rooms, Holes, At, Index

(* No slots: entry 0 is never empty.                                       *)
LEMMA OnesStart ==
  ASSUME JewelsOK
  PROVE  [c \in Caches |-> c] \in Servers(<<0, 0, 0>>)
<1>1. <<0, 0, 0>> \in Rooms /\ At(<<0, 0, 0>>) = 0
  BY Strides, OnesRooms
<1>2. ASSUME NEW c \in Caches PROVE Serves(c, c, <<0, 0, 0>>)
  <2>1. CASE c.buffer[0] # {}
    BY <1>1, <2>1, AlreadyThere
  <2>2. CASE c.buffer[0] = {}
    BY <1>1, <2>2 DEF Serves, Ready, RightUpTo
  <2>. QED
    BY <2>1, <2>2
<1>. QED
  BY <1>2 DEF Servers

(* i 1-slots, when the calls for i - 1 are served.                         *)
LEMMA OnesStep ==
  ASSUME JewelsOK, NEW i \in 1..HolesLimit, NEW below \in Servers(<<i - 1, 0, 0>>)
  PROVE  OnesFrom(i, below) \in Servers(<<i, 0, 0>>)
<1>. DEFINE s == <<i, 0, 0>>
            t == <<i - 1, 0, 0>>
<1>0. i \in Nat /\ i \in 0..HolesLimit /\ i - 1 \in 0..HolesLimit /\ i > 0 /\ i - 1 < i
  BY Strides
<1>1. s \in Rooms /\ At(s) = i /\ t \in Rooms /\ At(t) = i - 1
  BY <1>0, OnesRooms
<1>2. All(s) = SumsOfSize(1, i) \union All(t)
  BY <1>0, AllOnes
<1>. HIDE DEF s, t
<1>3. below \in [Caches -> Caches]
  BY DEF Servers, t
<1>4. ASSUME NEW x \in Caches, Ready(x, At(t)) PROVE Answers(x, below[x], t)
  BY <1>4 DEF Servers, Serves, t
<1>5. ASSUME NEW c \in Caches PROVE Serves(c, OnesFrom(i, below)[c], s)
  <2>1. CASE c.buffer[i] # {}
    <3>1. OnesFrom(i, below)[c] = c
      BY <2>1 DEF OnesFrom
    <3>. QED
      BY <1>1, <2>1, <3>1, AlreadyThere
  <2>2. CASE c.buffer[i] = {}
    <3>. DEFINE d == CalculateFixed(c, 1, i)
                keys == d.fixed[1][i]
                r == Fill(d, i, keys, below, i - 1)
    <3>1. OnesFrom(i, below)[c] = r
      BY <1>0, <2>2 DEF OnesFrom
    <3>2. d \in WithFixed(c, 1, i) /\ d \in Caches
      BY <1>0, FixedLemma DEF WithFixed
    <3>3. keys \in SUBSET Keys
      BY <1>0, <3>2, CacheEntries
    <3>4. ASSUME Ready(c, At(s))
          PROVE  /\ Ready(d, At(s)) /\ d.buffer = c.buffer
                 /\ keys = SumsOfSize(1, i)
      BY <1>0, <1>1, <3>2, <3>4, FixedIsReady
    <3>5. r = Fill(d, At(s), keys, below, At(t)) /\ At(t) < At(s)
      BY <1>0, <1>1
    <3>. HIDE DEF d, keys, r
    <3>6. r \in Caches
      BY <1>1, <1>3, <3>2, <3>3, <3>5, FillLemma
    <3>7. ASSUME Ready(c, At(s)) PROVE Answers(c, r, s)
      <4>1. All(s) = keys \union All(t)
        BY <1>2, <3>4, <3>7
      <4>2. /\ Ready(d, At(s)) /\ Keeps(c, d)
            /\ \A y \in 0 .. BufferSize - 1 : y > At(s) => d.buffer[y] = c.buffer[y]
        BY <3>4, <3>7 DEF Keeps
      <4>. QED
        BY <1>1, <1>3, <1>4, <3>2, <3>3, <3>5, <4>1, <4>2, FillAnswers
    <3>. QED
      BY <3>1, <3>6, <3>7 DEF Serves
  <2>. QED
    BY <2>1, <2>2
<1>6. OnesFrom(i, below) \in [Caches -> Caches]
  <2>1. OnesFrom(i, below) = [c \in Caches |-> OnesFrom(i, below)[c]]
    BY DEF OnesFrom
  <2>2. \A c \in Caches : OnesFrom(i, below)[c] \in Caches
    BY <1>5 DEF Serves
  <2>. QED
    BY <2>1, <2>2
<1>. QED
  BY <1>5, <1>6 DEF Servers, s

(* Calculate(i) with the buffers it has serves i 1-slots.                  *)
LEMMA OnesServe ==
  ASSUME JewelsOK
  PROVE  \A i \in 0..HolesLimit : FillOnes[i] \in Servers(<<i, 0, 0>>)
<1>. DEFINE S == [i \in 0..HolesLimit |-> Servers(<<i, 0, 0>>)]
            base == [c \in Caches |-> c]
            step == [ig \in (1..HolesLimit) \X [Caches -> Caches] |-> OnesFrom(ig[1], ig[2])]
<1>1. /\ HolesLimit \in Nat /\ 0 \in 0..HolesLimit
      /\ \A i \in 1..HolesLimit : i \in 0..HolesLimit /\ i # 0 /\ i - 1 \in 0..HolesLimit
  BY Strides
<1>2. \A i \in 0..HolesLimit : S[i] = Servers(<<i, 0, 0>>) /\ S[i] \subseteq [Caches -> Caches]
  BY DEF Servers
<1>3. \A i \in 1..HolesLimit : \A g \in [Caches -> Caches] : step[<<i, g>>] = OnesFrom(i, g)
  OBVIOUS
<1>4. base \in S[0]
  BY <1>1, OnesStart
<1>5. \A x : OnesFrom(0, x) = base
  BY DEF OnesFrom
<1>. HIDE DEF S, step, base
<1>6. ASSUME NEW i \in 1..HolesLimit, NEW g \in S[i - 1] PROVE step[<<i, g>>] \in S[i]
  <2>1. g \in Servers(<<i - 1, 0, 0>>) /\ g \in [Caches -> Caches]
    BY <1>1, <1>2
  <2>2. OnesFrom(i, g) \in Servers(<<i, 0, 0>>)
    BY <2>1, OnesStep
  <2>. QED
    BY <1>1, <1>2, <1>3, <2>1, <2>2
<1>7. PICK f : FunctionUpTo(f, HolesLimit) /\ Steps(f, HolesLimit, base, step)
               /\ Within(f, HolesLimit, S)
  BY <1>1, <1>4, <1>6, RecursionExists
<1>8. /\ f[0] = base
      /\ \A i \in 1..HolesLimit : f[i] = step[<<i, f[i - 1]>>]
      /\ \A i \in 0..HolesLimit : f[i] \in S[i]
  BY <1>7, Zenon DEF Steps, Within
<1>9. OnesDefined(f)
  <2>1. ASSUME NEW i \in 0..HolesLimit PROVE f[i] = OnesFrom(i, f[i - 1])
    <3>1. i = 0 \/ i \in 1..HolesLimit
      OBVIOUS
    <3>2. CASE i \in 1..HolesLimit
      <4>1. f[i - 1] \in [Caches -> Caches]
        BY <1>1, <1>2, <1>8, <3>2
      <4>. QED
        BY <1>3, <1>8, <3>2, <4>1, Zenon
    <3>. QED
      BY <1>5, <1>8, <3>1, <3>2, Zenon
  <2>. QED
    BY <1>7, <2>1, Zenon DEF OnesDefined, FunctionUpTo
<1>10. OnesDefined(FillOnes)
  BY <1>9, Zenon DEF FillOnes, OnesDefined, OnesFrom
<1>11. \A i \in 0..HolesLimit : FillOnes[i] = OnesFrom(i, FillOnes[i - 1])
  BY <1>10, Zenon DEF OnesDefined
<1>12. FillOnes[0] \in S[0]
  BY <1>1, <1>4, <1>5, <1>11, Zenon
<1>13. ASSUME NEW i \in 1..HolesLimit, FillOnes[i - 1] \in S[i - 1]
       PROVE  FillOnes[i] = step[<<i, FillOnes[i - 1]>>]
  <2>1. FillOnes[i - 1] \in [Caches -> Caches] /\ i \in 0..HolesLimit
    BY <1>1, <1>2, <1>13
  <2>. QED
    BY <1>3, <1>11, <2>1, Zenon
<1>14. \A i \in 0..HolesLimit : FillOnes[i] \in S[i]
  <2>. DEFINE h == FillOnes
  <2>1. /\ h[0] \in S[0]
        /\ \A i \in 1..HolesLimit : h[i - 1] \in S[i - 1] => h[i] = step[<<i, h[i - 1]>>]
    BY <1>12, <1>13
  <2>. HIDE DEF h
  <2>2. \A i \in 0..HolesLimit : h[i] \in S[i]
    BY <1>1, <1>6, <2>1, RecursionWithin
  <2>. QED
    BY <2>2 DEF h
<1>. QED
  BY <1>2, <1>14

-----------------------------------------------------------------------------
(* The alignments that FillThrees is defined for.                          *)
LEMMA RoomsLemma ==
  /\ \A i, j, k : At(<<i, j, k>>) = Index(i, j, k)
  /\ \A k \in 0..SlotsLimit : \A j \in 0 .. SlotsLimit - k :
     \A i \in 0 .. HolesLimit - 2 * j - 3 * k : <<i, j, k>> \in Rooms
<1>1. \A i, j, k : At(<<i, j, k>>) = Index(i, j, k)
  BY DEF At
<1>2. ASSUME NEW k \in 0..SlotsLimit, NEW j \in 0 .. SlotsLimit - k,
             NEW i \in 0 .. HolesLimit - 2 * j - 3 * k
      PROVE  <<i, j, k>> \in Rooms
  <2>1. HolesLimit \in Nat /\ SlotsLimit \in Nat
    BY Strides
  <2>2. i \in 0..HolesLimit /\ j \in 0..SlotsLimit /\ i + 2 * j + 3 * k <= HolesLimit
        /\ j + k <= SlotsLimit
    BY <2>1
  <2>. QED
    BY <2>2 DEF Rooms, Holes
<1>. QED
  BY <1>1, <1>2

(* The body of FillTwos, and its row for j 2-slots.                        *)
TwosFrom(j, i, below) ==
  [c \in Caches |->
     IF c.buffer[Index(i, j, 0)] # {} THEN c
     ELSE IF j = 0 THEN CalculateOnes(c, i)
     ELSE LET d == CalculateFixed(CalculateOnes(c, i), 2, j)
          IN  Fill(d, Index(i, j, 0), SetProduct(d.buffer[i], d.fixed[2][j]),
                   below, Index(i + 2, j - 1, 0))]

TwosRow(j, row) == [i \in 0 .. HolesLimit - 2 * j |-> TwosFrom(j, i, row[i + 2])]

TwosDefined(f) == f = [j \in 0..SlotsLimit |-> TwosRow(j, f[j - 1])]

TwosServers(j) ==
  { row \in [0 .. HolesLimit - 2 * j -> [Caches -> Caches]] :
      \A i \in 0 .. HolesLimit - 2 * j : row[i] \in Servers(<<i, j, 0>>) }

(* No 2-slots: the calls for 1-slots are served.                           *)
LEMMA TwosStart ==
  ASSUME JewelsOK, NEW row
  PROVE  TwosRow(0, row) = TwosRow(0, <<>>) /\ TwosRow(0, row) \in TwosServers(0)
<1>0. 2 * 0 = 0 /\ HolesLimit - 2 * 0 = HolesLimit /\ 3 * 0 = 0 /\ SlotsLimit - 0 = SlotsLimit
      /\ 0 \in 0..SlotsLimit
  BY Strides
<1>1. ASSUME NEW i \in 0..HolesLimit, NEW below PROVE TwosFrom(0, i, below) \in Servers(<<i, 0, 0>>)
  <2>1. <<i, 0, 0>> \in Rooms /\ At(<<i, 0, 0>>) = Index(i, 0, 0)
    BY OnesRooms, RoomsLemma
  <2>2. ASSUME NEW c \in Caches PROVE Serves(c, TwosFrom(0, i, below)[c], <<i, 0, 0>>)
    <3>1. CASE c.buffer[Index(i, 0, 0)] # {}
      <4>1. TwosFrom(0, i, below)[c] = c
        BY <3>1 DEF TwosFrom
      <4>. QED
        BY <2>1, <3>1, <4>1, AlreadyThere
    <3>2. CASE c.buffer[Index(i, 0, 0)] = {}
      <4>1. TwosFrom(0, i, below)[c] = FillOnes[i][c]
        BY <3>2 DEF TwosFrom, CalculateOnes
      <4>2. FillOnes[i] \in Servers(<<i, 0, 0>>)
        BY OnesServe
      <4>. QED
        BY <4>1, <4>2 DEF Servers
    <3>. QED
      BY <3>1, <3>2
  <2>3. TwosFrom(0, i, below) \in [Caches -> Caches]
    <3>1. TwosFrom(0, i, below) = [c \in Caches |-> TwosFrom(0, i, below)[c]]
      BY DEF TwosFrom
    <3>2. \A c \in Caches : TwosFrom(0, i, below)[c] \in Caches
      BY <2>2 DEF Serves
    <3>. QED
      BY <3>1, <3>2
  <2>. QED
    BY <2>2, <2>3 DEF Servers
<1>2. ASSUME NEW i, NEW a, NEW b PROVE TwosFrom(0, i, a) = TwosFrom(0, i, b)
  BY DEF TwosFrom
<1>3. TwosRow(0, row) = TwosRow(0, <<>>)
  BY <1>2, Zenon DEF TwosRow
<1>4. TwosRow(0, row) = [i \in 0..HolesLimit |-> TwosFrom(0, i, row[i + 2])]
  BY <1>0 DEF TwosRow
<1>5. \A i \in 0..HolesLimit : TwosFrom(0, i, row[i + 2]) \in [Caches -> Caches]
  BY <1>1 DEF Servers
<1>6. TwosRow(0, row) \in { r \in [0..HolesLimit -> [Caches -> Caches]] :
                            \A i \in 0..HolesLimit : r[i] \in Servers(<<i, 0, 0>>) }
  BY <1>1, <1>4, <1>5
<1>7. TwosRow(0, row) \in TwosServers(0)
  BY <1>0, <1>6, Zenon DEF TwosServers
<1>. QED
  BY <1>3, <1>7

(* j 2-slots, when the calls for j - 1 are served.                         *)
LEMMA TwosStep ==
  ASSUME JewelsOK, NEW j \in 1..SlotsLimit, NEW row \in TwosServers(j - 1)
  PROVE  TwosRow(j, row) \in TwosServers(j)
<1>1. ASSUME NEW i \in 0 .. HolesLimit - 2 * j
      PROVE  TwosFrom(j, i, row[i + 2]) \in Servers(<<i, j, 0>>)
  <2>. DEFINE s == <<i, j, 0>>
              u == <<i, 0, 0>>
              t == <<i + 2, j - 1, 0>>
              below == row[i + 2]
  <2>0. /\ HolesLimit \in Nat /\ SlotsLimit \in Nat
        /\ i \in 0..HolesLimit /\ i \in Nat /\ j \in Nat \ {0} /\ j # 0
        /\ j \in 0..HolesLimit /\ i + 2 \in 0 .. HolesLimit - 2 * (j - 1)
    BY Strides
  <2>1. /\ s \in Rooms /\ At(s) = Index(i, j, 0)
        /\ u \in Rooms /\ At(u) = i
        /\ t \in Rooms /\ At(t) = Index(i + 2, j - 1, 0)
    <3>1. /\ 0 \in 0..SlotsLimit /\ j \in 0 .. SlotsLimit - 0 /\ j - 1 \in 0 .. SlotsLimit - 0
          /\ i \in 0 .. HolesLimit - 2 * j - 3 * 0
          /\ i + 2 \in 0 .. HolesLimit - 2 * (j - 1) - 3 * 0
      BY <2>0
    <3>. QED
      BY <2>0, <3>1, RoomsLemma, OnesRooms
  <2>2. At(u) < At(s) /\ At(t) < At(s)
    <3>1. /\ u[3] = s[3] /\ u[2] < s[2] /\ t[3] = s[3] /\ t[2] < s[2]
      BY <2>0
    <3>. QED
      BY <2>1, <3>1, IndexOrder
  <2>3. All(s) = SetProduct(All(u), SumsOfSize(2, j)) \union All(t)
    BY <2>0, AllTwos
  <2>4. below \in Servers(t)
    BY <2>0 DEF TwosServers
  <2>5. FillOnes[i] \in Servers(u)
    BY <2>0, OnesServe
  <2>. HIDE DEF s, u, t, below
  <2>6. ASSUME NEW c \in Caches PROVE Serves(c, TwosFrom(j, i, below)[c], s)
    <3>1. CASE c.buffer[Index(i, j, 0)] # {}
      <4>1. TwosFrom(j, i, below)[c] = c
        BY <3>1 DEF TwosFrom
      <4>. QED
        BY <2>1, <3>1, <4>1, AlreadyThere
    <3>2. CASE c.buffer[Index(i, j, 0)] = {}
      <4>. DEFINE e == FillOnes[i][c]
                  d == CalculateFixed(e, 2, j)
      <4>1. e \in Caches /\ Serves(c, e, u)
        BY <2>5 DEF Servers, Serves
      <4>2. TwosFrom(j, i, below)[c]
              = Fill(d, Index(i, j, 0), SetProduct(d.buffer[i], d.fixed[2][j]),
                     below, Index(i + 2, j - 1, 0))
        BY <2>0, <3>2 DEF TwosFrom, CalculateOnes
      <4>3. d = CalculateFixed(e, 2, j)
        OBVIOUS
      <4>. HIDE DEF e, d
      <4>4. Serves(c, Fill(d, At(s), SetProduct(d.buffer[At(u)], d.fixed[2][j]),
                           below, At(t)), s)
        BY <2>0, <2>1, <2>2, <2>3, <2>4, <4>1, <4>3, Level
      <4>. QED
        BY <2>1, <4>2, <4>4
    <3>. QED
      BY <3>1, <3>2
  <2>7. TwosFrom(j, i, below) \in [Caches -> Caches]
    <3>1. TwosFrom(j, i, below) = [c \in Caches |-> TwosFrom(j, i, below)[c]]
      BY DEF TwosFrom
    <3>2. \A c \in Caches : TwosFrom(j, i, below)[c] \in Caches
      BY <2>6 DEF Serves
    <3>. QED
      BY <3>1, <3>2
  <2>8. TwosFrom(j, i, below) \in Servers(s)
    BY <2>6, <2>7 DEF Servers
  <2>. QED
    BY <2>8 DEF s, below
<1>2. \A i \in 0 .. HolesLimit - 2 * j : TwosFrom(j, i, row[i + 2]) \in [Caches -> Caches]
  BY <1>1 DEF Servers
<1>. QED
  BY <1>1, <1>2 DEF TwosServers, TwosRow

(* Calculate(i, j) serves i 1-slots and j 2-slots.                         *)
LEMMA TwosServe ==
  ASSUME JewelsOK
  PROVE  \A j \in 0..SlotsLimit : FillTwos[j] \in TwosServers(j)
<1>. DEFINE Rows == UNION { TwosServers(j) : j \in 0..SlotsLimit }
            S == [j \in 0..SlotsLimit |-> TwosServers(j)]
            base == TwosRow(0, <<>>)
            step == [jr \in (1..SlotsLimit) \X Rows |-> TwosRow(jr[1], jr[2])]
<1>1. /\ SlotsLimit \in Nat /\ 0 \in 0..SlotsLimit
      /\ \A j \in 1..SlotsLimit : j \in 0..SlotsLimit /\ j # 0 /\ j - 1 \in 0..SlotsLimit
  BY Strides
<1>2. \A j \in 0..SlotsLimit : S[j] = TwosServers(j) /\ S[j] \subseteq Rows
  OBVIOUS
<1>. HIDE DEF Rows
<1>3. \A j \in 1..SlotsLimit : \A r \in Rows : step[<<j, r>>] = TwosRow(j, r)
  OBVIOUS
<1>4. base \in S[0]
  BY <1>1, <1>2, TwosStart
<1>5. \A x : TwosRow(0, x) = base
  BY TwosStart
<1>. HIDE DEF S, step, base
<1>6. ASSUME NEW j \in 1..SlotsLimit, NEW r \in S[j - 1] PROVE step[<<j, r>>] \in S[j]
  <2>1. r \in TwosServers(j - 1) /\ r \in Rows
    BY <1>1, <1>2
  <2>2. TwosRow(j, r) \in TwosServers(j)
    BY <2>1, TwosStep
  <2>. QED
    BY <1>1, <1>2, <1>3, <2>1, <2>2
<1>7. PICK f : FunctionUpTo(f, SlotsLimit) /\ Steps(f, SlotsLimit, base, step)
               /\ Within(f, SlotsLimit, S)
  BY <1>1, <1>4, <1>6, RecursionExists
<1>8. /\ f[0] = base
      /\ \A j \in 1..SlotsLimit : f[j] = step[<<j, f[j - 1]>>]
      /\ \A j \in 0..SlotsLimit : f[j] \in S[j]
  BY <1>7, Zenon DEF Steps, Within
<1>9. TwosDefined(f)
  <2>1. ASSUME NEW j \in 0..SlotsLimit PROVE f[j] = TwosRow(j, f[j - 1])
    <3>1. j = 0 \/ j \in 1..SlotsLimit
      OBVIOUS
    <3>2. CASE j \in 1..SlotsLimit
      <4>1. f[j - 1] \in Rows
        BY <1>1, <1>2, <1>8, <3>2
      <4>. QED
        BY <1>3, <1>8, <3>2, <4>1, Zenon
    <3>. QED
      BY <1>5, <1>8, <3>1, <3>2, Zenon
  <2>. QED
    BY <1>7, <2>1, Zenon DEF TwosDefined, FunctionUpTo
<1>10. TwosDefined(FillTwos)
  BY <1>9, Zenon DEF FillTwos, TwosDefined, TwosRow, TwosFrom
<1>11. \A j \in 0..SlotsLimit : FillTwos[j] = TwosRow(j, FillTwos[j - 1])
  BY <1>10, Zenon DEF TwosDefined
<1>12. FillTwos[0] \in S[0]
  BY <1>1, <1>4, <1>5, <1>11, Zenon
<1>13. ASSUME NEW j \in 1..SlotsLimit, FillTwos[j - 1] \in S[j - 1]
       PROVE  FillTwos[j] = step[<<j, FillTwos[j - 1]>>]
  <2>1. FillTwos[j - 1] \in Rows /\ j \in 0..SlotsLimit
    BY <1>1, <1>2, <1>13
  <2>. QED
    BY <1>3, <1>11, <2>1, Zenon
<1>14. \A j \in 0..SlotsLimit : FillTwos[j] \in S[j]
  <2>. DEFINE h == FillTwos
  <2>1. /\ h[0] \in S[0]
        /\ \A j \in 1..SlotsLimit : h[j - 1] \in S[j - 1] => h[j] = step[<<j, h[j - 1]>>]
    BY <1>12, <1>13
  <2>. HIDE DEF h
  <2>2. \A j \in 0..SlotsLimit : h[j] \in S[j]
    BY <1>1, <1>6, <2>1, RecursionWithin
  <2>. QED
    BY <2>2 DEF h
<1>. QED
  BY <1>2, <1>14

-----------------------------------------------------------------------------
(* The body of FillThrees, and its rows for k 3-slots.                     *)
ThreesFrom(k, j, i, below) ==
  [c \in Caches |->
     IF c.buffer[Index(i, j, k)] # {} THEN c
     ELSE IF k = 0 THEN CalculateTwos(c, i, j)
     ELSE LET d == CalculateFixed(CalculateTwos(c, i, j), 3, k)
          IN  Fill(d, Index(i, j, k),
                   SetProduct(d.buffer[Index(i, j, 0)], d.fixed[3][k]),
                   below, Index(i + 1, j + 1, k - 1))]

ThreesRow(k, j, rows) ==
  [i \in 0 .. HolesLimit - 2 * j - 3 * k |-> ThreesFrom(k, j, i, rows[j + 1][i + 1])]

ThreesRows(k, rows) == [j \in 0 .. SlotsLimit - k |-> ThreesRow(k, j, rows)]

ThreesDefined(f) == f = [k \in 0..SlotsLimit |-> ThreesRows(k, f[k - 1])]

ThreesRowServers(k, j) ==
  { row \in [0 .. HolesLimit - 2 * j - 3 * k -> [Caches -> Caches]] :
      \A i \in 0 .. HolesLimit - 2 * j - 3 * k : row[i] \in Servers(<<i, j, k>>) }

ThreesServers(k) ==
  { rows \in [0 .. SlotsLimit - k ->
                UNION { ThreesRowServers(k, j) : j \in 0 .. SlotsLimit - k }] :
      \A j \in 0 .. SlotsLimit - k : rows[j] \in ThreesRowServers(k, j) }

(* What serves s for every cache is a server.                              *)
LEMMA FromServers ==
  ASSUME NEW s, NEW g, g = [c \in Caches |-> g[c]],
         \A c \in Caches : Serves(c, g[c], s)
  PROVE  g \in Servers(s)
<1>1. \A c \in Caches : g[c] \in Caches
  BY DEF Serves
<1>. QED
  BY <1>1 DEF Servers

(* Rows of servers for every j make rows of rows.                          *)
LEMMA FromRows ==
  ASSUME NEW k \in 0..SlotsLimit, NEW rows,
         \A j \in 0 .. SlotsLimit - k : \A i \in 0 .. HolesLimit - 2 * j - 3 * k :
           ThreesFrom(k, j, i, rows[j + 1][i + 1]) \in Servers(<<i, j, k>>)
  PROVE  ThreesRows(k, rows) \in ThreesServers(k)
<1>1. ASSUME NEW j \in 0 .. SlotsLimit - k
      PROVE  ThreesRow(k, j, rows) \in ThreesRowServers(k, j)
  <2>. DEFINE D == 0 .. HolesLimit - 2 * j - 3 * k
              g == [i \in D |-> ThreesFrom(k, j, i, rows[j + 1][i + 1])]
  <2>1. \A i \in D : ThreesFrom(k, j, i, rows[j + 1][i + 1]) \in Servers(<<i, j, k>>)
    OBVIOUS
  <2>2. ThreesRow(k, j, rows) = g
    BY DEF ThreesRow
  <2>3. ThreesRowServers(k, j)
          = { row \in [D -> [Caches -> Caches]] : \A i \in D : row[i] \in Servers(<<i, j, k>>) }
    BY DEF ThreesRowServers
  <2>. HIDE DEF D
  <2>4. \A i \in D : ThreesFrom(k, j, i, rows[j + 1][i + 1]) \in [Caches -> Caches]
    BY <2>1 DEF Servers
  <2>. QED
    BY <2>1, <2>2, <2>3, <2>4
<1>. DEFINE J == 0 .. SlotsLimit - k
<1>2. ThreesServers(k) = { r \in [J -> UNION { ThreesRowServers(k, j) : j \in J }] :
                             \A j \in J : r[j] \in ThreesRowServers(k, j) }
  BY DEF ThreesServers
<1>3. ThreesRows(k, rows) = [j \in J |-> ThreesRow(k, j, rows)]
  BY DEF ThreesRows
<1>4. \A j \in J : ThreesRow(k, j, rows) \in ThreesRowServers(k, j)
  BY <1>1
<1>. HIDE DEF J
<1>. QED
  BY <1>2, <1>3, <1>4

(* No 3-slots: the calls for 1-slots and 2-slots are served.               *)
LEMMA ThreesStart ==
  ASSUME JewelsOK, NEW rows
  PROVE  ThreesRows(0, rows) = ThreesRows(0, <<>>) /\ ThreesRows(0, rows) \in ThreesServers(0)
<1>0. /\ SlotsLimit \in Nat /\ HolesLimit \in Nat /\ 0 \in 0..SlotsLimit
      /\ \A j \in 0 .. SlotsLimit - 0 : j \in 0..SlotsLimit
      /\ \A j \in 0..SlotsLimit : HolesLimit - 2 * j - 3 * 0 = HolesLimit - 2 * j
  BY Strides
<1>1. ASSUME NEW j \in 0 .. SlotsLimit - 0, NEW i \in 0 .. HolesLimit - 2 * j - 3 * 0, NEW below
      PROVE  ThreesFrom(0, j, i, below) \in Servers(<<i, j, 0>>)
  <2>1. <<i, j, 0>> \in Rooms /\ At(<<i, j, 0>>) = Index(i, j, 0)
    BY <1>0, RoomsLemma
  <2>2. FillTwos[j][i] \in Servers(<<i, j, 0>>)
    <3>1. j \in 0..SlotsLimit /\ i \in 0 .. HolesLimit - 2 * j
      BY <1>0
    <3>. QED
      BY <3>1, TwosServe DEF TwosServers
  <2>3. ASSUME NEW c \in Caches PROVE Serves(c, ThreesFrom(0, j, i, below)[c], <<i, j, 0>>)
    <3>1. CASE c.buffer[Index(i, j, 0)] # {}
      <4>1. ThreesFrom(0, j, i, below)[c] = c
        BY <3>1 DEF ThreesFrom
      <4>. QED
        BY <2>1, <3>1, <4>1, AlreadyThere
    <3>2. CASE c.buffer[Index(i, j, 0)] = {}
      <4>1. ThreesFrom(0, j, i, below)[c] = FillTwos[j][i][c]
        BY <3>2 DEF ThreesFrom, CalculateTwos
      <4>. QED
        BY <2>2, <4>1 DEF Servers
    <3>. QED
      BY <3>1, <3>2
  <2>4. ThreesFrom(0, j, i, below) = [c \in Caches |-> ThreesFrom(0, j, i, below)[c]]
    BY DEF ThreesFrom
  <2>. QED
    BY <2>3, <2>4, FromServers
<1>2. ASSUME NEW m, NEW n, NEW a, NEW b PROVE ThreesFrom(0, m, n, a) = ThreesFrom(0, m, n, b)
  BY DEF ThreesFrom
<1>3. ThreesRows(0, rows) = ThreesRows(0, <<>>)
  BY <1>2, Zenon DEF ThreesRows, ThreesRow
<1>4. ThreesRows(0, rows) \in ThreesServers(0)
  BY <1>0, <1>1, FromRows
<1>. QED
  BY <1>3, <1>4

(* k 3-slots, when the calls for k - 1 are served.                         *)
LEMMA ThreesStep ==
  ASSUME JewelsOK, NEW k \in 1..SlotsLimit, NEW rows \in ThreesServers(k - 1)
  PROVE  ThreesRows(k, rows) \in ThreesServers(k)
<1>1. ASSUME NEW j \in 0 .. SlotsLimit - k, NEW i \in 0 .. HolesLimit - 2 * j - 3 * k
      PROVE  ThreesFrom(k, j, i, rows[j + 1][i + 1]) \in Servers(<<i, j, k>>)
  <2>. DEFINE s == <<i, j, k>>
              u == <<i, j, 0>>
              t == <<i + 1, j + 1, k - 1>>
              below == rows[j + 1][i + 1]
  <2>0. /\ HolesLimit \in Nat /\ SlotsLimit \in Nat
        /\ i \in Nat /\ j \in Nat /\ k \in Nat \ {0} /\ k # 0
        /\ j \in 0..SlotsLimit /\ k \in 0..SlotsLimit /\ 0 \in 0..SlotsLimit
        /\ k \in 0..HolesLimit
        /\ j \in 0 .. SlotsLimit - 0 /\ i \in 0 .. HolesLimit - 2 * j - 3 * 0
        /\ i \in 0 .. HolesLimit - 2 * j
        /\ k - 1 \in 0..SlotsLimit /\ j + 1 \in 0 .. SlotsLimit - (k - 1)
        /\ i + 1 \in 0 .. HolesLimit - 2 * (j + 1) - 3 * (k - 1)
    BY Strides
  <2>1. /\ s \in Rooms /\ At(s) = Index(i, j, k)
        /\ u \in Rooms /\ At(u) = Index(i, j, 0)
        /\ t \in Rooms /\ At(t) = Index(i + 1, j + 1, k - 1)
    BY <2>0, RoomsLemma
  <2>2. At(u) < At(s) /\ At(t) < At(s)
    <3>1. u[3] < s[3] /\ t[3] < s[3]
      BY <2>0
    <3>. QED
      BY <2>1, <3>1, IndexOrder
  <2>3. All(s) = SetProduct(All(u), SumsOfSize(3, k)) \union All(t)
    BY <2>0, AllThrees
  <2>4. below \in Servers(t)
    <3>1. rows[j + 1] \in ThreesRowServers(k - 1, j + 1)
      BY <2>0 DEF ThreesServers
    <3>. QED
      BY <2>0, <3>1 DEF ThreesRowServers
  <2>5. FillTwos[j][i] \in Servers(u)
    BY <2>0, TwosServe DEF TwosServers
  <2>. HIDE DEF s, u, t, below
  <2>6. ASSUME NEW c \in Caches PROVE Serves(c, ThreesFrom(k, j, i, below)[c], s)
    <3>1. CASE c.buffer[Index(i, j, k)] # {}
      <4>1. ThreesFrom(k, j, i, below)[c] = c
        BY <3>1 DEF ThreesFrom
      <4>. QED
        BY <2>1, <3>1, <4>1, AlreadyThere
    <3>2. CASE c.buffer[Index(i, j, k)] = {}
      <4>. DEFINE e == FillTwos[j][i][c]
                  d == CalculateFixed(e, 3, k)
      <4>1. e \in Caches /\ Serves(c, e, u)
        BY <2>5 DEF Servers, Serves
      <4>2. ThreesFrom(k, j, i, below)[c]
              = Fill(d, Index(i, j, k), SetProduct(d.buffer[Index(i, j, 0)], d.fixed[3][k]),
                     below, Index(i + 1, j + 1, k - 1))
        BY <2>0, <3>2 DEF ThreesFrom, CalculateTwos
      <4>3. d = CalculateFixed(e, 3, k)
        OBVIOUS
      <4>. HIDE DEF e, d
      <4>4. Serves(c, Fill(d, At(s), SetProduct(d.buffer[At(u)], d.fixed[3][k]),
                           below, At(t)), s)
        BY <2>0, <2>1, <2>2, <2>3, <2>4, <4>1, <4>3, Level
      <4>. QED
        BY <2>1, <4>2, <4>4
    <3>. QED
      BY <3>1, <3>2
  <2>7. ThreesFrom(k, j, i, below) = [c \in Caches |-> ThreesFrom(k, j, i, below)[c]]
    BY DEF ThreesFrom
  <2>8. ThreesFrom(k, j, i, below) \in Servers(s)
    BY <2>6, <2>7, FromServers
  <2>. QED
    BY <2>8 DEF s, below
<1>2. k \in 0..SlotsLimit
  BY Strides
<1>. QED
  BY <1>1, <1>2, FromRows

(* Calculate(i, j, k) serves i 1-slots, j 2-slots and k 3-slots.           *)
LEMMA ThreesServe ==
  ASSUME JewelsOK
  PROVE  \A k \in 0..SlotsLimit : FillThrees[k] \in ThreesServers(k)
<1>. DEFINE Tables == UNION { ThreesServers(k) : k \in 0..SlotsLimit }
            S == [k \in 0..SlotsLimit |-> ThreesServers(k)]
            base == ThreesRows(0, <<>>)
            step == [kr \in (1..SlotsLimit) \X Tables |-> ThreesRows(kr[1], kr[2])]
<1>1. /\ SlotsLimit \in Nat /\ 0 \in 0..SlotsLimit
      /\ \A k \in 1..SlotsLimit : k \in 0..SlotsLimit /\ k # 0 /\ k - 1 \in 0..SlotsLimit
  BY Strides
<1>2. \A k \in 0..SlotsLimit : S[k] = ThreesServers(k) /\ S[k] \subseteq Tables
  OBVIOUS
<1>. HIDE DEF Tables
<1>3. \A k \in 1..SlotsLimit : \A r \in Tables : step[<<k, r>>] = ThreesRows(k, r)
  OBVIOUS
<1>4. base \in S[0]
  BY <1>1, <1>2, ThreesStart
<1>5. \A x : ThreesRows(0, x) = base
  BY ThreesStart
<1>. HIDE DEF S, step, base
<1>6. ASSUME NEW k \in 1..SlotsLimit, NEW r \in S[k - 1] PROVE step[<<k, r>>] \in S[k]
  <2>1. r \in ThreesServers(k - 1) /\ r \in Tables
    BY <1>1, <1>2
  <2>2. ThreesRows(k, r) \in ThreesServers(k)
    BY <2>1, ThreesStep
  <2>. QED
    BY <1>1, <1>2, <1>3, <2>1, <2>2
<1>7. PICK f : FunctionUpTo(f, SlotsLimit) /\ Steps(f, SlotsLimit, base, step)
               /\ Within(f, SlotsLimit, S)
  BY <1>1, <1>4, <1>6, RecursionExists
<1>8. /\ f[0] = base
      /\ \A k \in 1..SlotsLimit : f[k] = step[<<k, f[k - 1]>>]
      /\ \A k \in 0..SlotsLimit : f[k] \in S[k]
  BY <1>7, Zenon DEF Steps, Within
<1>9. ThreesDefined(f)
  <2>1. ASSUME NEW k \in 0..SlotsLimit PROVE f[k] = ThreesRows(k, f[k - 1])
    <3>1. k = 0 \/ k \in 1..SlotsLimit
      OBVIOUS
    <3>2. CASE k \in 1..SlotsLimit
      <4>1. f[k - 1] \in Tables
        BY <1>1, <1>2, <1>8, <3>2
      <4>. QED
        BY <1>3, <1>8, <3>2, <4>1, Zenon
    <3>. QED
      BY <1>5, <1>8, <3>1, <3>2, Zenon
  <2>. QED
    BY <1>7, <2>1, Zenon DEF ThreesDefined, FunctionUpTo
<1>10. ThreesDefined(FillThrees)
  BY <1>9, Zenon DEF FillThrees, ThreesDefined, ThreesRows, ThreesRow, ThreesFrom
<1>11. \A k \in 0..SlotsLimit : FillThrees[k] = ThreesRows(k, FillThrees[k - 1])
  BY <1>10, Zenon DEF ThreesDefined
<1>12. FillThrees[0] \in S[0]
  BY <1>1, <1>4, <1>5, <1>11, Zenon
<1>13. ASSUME NEW k \in 1..SlotsLimit, FillThrees[k - 1] \in S[k - 1]
       PROVE  FillThrees[k] = step[<<k, FillThrees[k - 1]>>]
  <2>1. FillThrees[k - 1] \in Tables /\ k \in 0..SlotsLimit
    BY <1>1, <1>2, <1>13
  <2>. QED
    BY <1>3, <1>11, <2>1, Zenon
<1>14. \A k \in 0..SlotsLimit : FillThrees[k] \in S[k]
  <2>. DEFINE h == FillThrees
  <2>1. /\ h[0] \in S[0]
        /\ \A k \in 1..SlotsLimit : h[k - 1] \in S[k - 1] => h[k] = step[<<k, h[k - 1]>>]
    BY <1>12, <1>13
  <2>. HIDE DEF h
  <2>2. \A k \in 0..SlotsLimit : h[k] \in S[k]
    BY <1>1, <1>6, <2>1, RecursionWithin
  <2>. QED
    BY <2>2 DEF h
<1>. QED
  BY <1>2, <1>14

(* The three overloads of Calculate serve every alignment.                 *)
LEMMA CalculateServes ==
  ASSUME JewelsOK, NEW i \in Nat, NEW j \in Nat, NEW k \in Nat, <<i, j, k>> \in Rooms,
         NEW c \in Caches
  PROVE  Serves(c, CalculateThrees(c, i, j, k), <<i, j, k>>)
<1>1. HolesLimit \in Nat /\ SlotsLimit \in Nat
  BY Strides
<1>2. i + 2 * j + 3 * k <= HolesLimit /\ j + k <= SlotsLimit
  BY DEF Rooms, Holes
<1>3. k \in 0..SlotsLimit /\ j \in 0 .. SlotsLimit - k /\ i \in 0 .. HolesLimit - 2 * j - 3 * k
  BY <1>1, <1>2
<1>4. FillThrees[k] \in ThreesServers(k)
  BY <1>3, ThreesServe
<1>5. FillThrees[k][j] \in ThreesRowServers(k, j)
  BY <1>3, <1>4 DEF ThreesServers
<1>6. FillThrees[k][j][i] \in Servers(<<i, j, k>>)
  BY <1>3, <1>5 DEF ThreesRowServers
<1>. QED
  BY <1>6 DEF Servers, CalculateThrees

-----------------------------------------------------------------------------
RoomOf(q) == <<q[1], q[2], q[3]>>
Bodies == { q \in Calls : q[4] > 0 }
BodyAt(q) == BodyIndex(q[1], q[2], q[3], q[4], q[5])

(* The parts of a call: its alignment and its body.                        *)
LEMMA CallsLemma ==
  ASSUME NEW q \in Calls
  PROVE  /\ q = <<q[1], q[2], q[3], q[4], q[5]>>
         /\ q[1] \in Nat /\ q[2] \in Nat /\ q[3] \in Nat
         /\ q[4] \in 0..3 /\ q[5] \in 1..MultLimit
         /\ RoomOf(q) \in Rooms
         /\ q[4] > 0 => /\ q[5] >= 2
                        /\ OneSlot(q[4]) \in Rooms
                        /\ OneSlot(q[4])[1] \in Nat /\ OneSlot(q[4])[2] \in Nat
                        /\ OneSlot(q[4])[3] \in Nat
                        /\ OneSlot(q[4]) = <<OneSlot(q[4])[1], OneSlot(q[4])[2], OneSlot(q[4])[3]>>
<1>1. /\ q \in (0..HolesLimit) \X (0..SlotsLimit) \X (0..SlotsLimit) \X (0..3) \X (1..MultLimit)
      /\ Holes(<<q[1], q[2], q[3]>>) + q[4] <= HolesLimit
      /\ q[2] + q[3] + (IF q[4] > 0 THEN 1 ELSE 0) <= SlotsLimit
      /\ q[5] = 1 => q[4] = 0
  BY DEF Calls
<1>2. MultLimit \in Nat /\ HolesLimit \in Nat /\ SlotsLimit \in Nat
  BY Strides
<1>3. /\ q = <<q[1], q[2], q[3], q[4], q[5]>>
      /\ q[1] \in 0..HolesLimit /\ q[2] \in 0..SlotsLimit /\ q[3] \in 0..SlotsLimit
      /\ q[4] \in 0..3 /\ q[5] \in 1..MultLimit
  BY <1>1
<1>4. q[1] + 2 * q[2] + 3 * q[3] + q[4] <= HolesLimit
  BY <1>1 DEF Holes
<1>5. RoomOf(q) \in Rooms
  BY <1>1, <1>2, <1>3, <1>4 DEF RoomOf, Rooms, Holes
<1>6. ASSUME q[4] > 0 PROVE q[5] >= 2 /\ OneSlot(q[4]) \in Rooms
  <2>1. q[5] # 1 /\ q[5] \in Nat
    BY <1>1, <1>2, <1>3, <1>6
  <2>2. q[4] <= HolesLimit /\ 1 <= SlotsLimit /\ q[4] \in {1, 2, 3}
    BY <1>1, <1>2, <1>3, <1>4, <1>6
  <2>3. OneSlot(q[4]) \in Rooms
    <3>1. CASE q[4] = 1
      BY <1>2, <2>2, <3>1 DEF OneSlot, Rooms, Holes
    <3>2. CASE q[4] = 2
      BY <1>2, <2>2, <3>2 DEF OneSlot, Rooms, Holes
    <3>3. CASE q[4] = 3
      BY <1>2, <2>2, <3>3 DEF OneSlot, Rooms, Holes
    <3>. QED
      BY <2>2, <3>1, <3>2, <3>3
  <2>. QED
    BY <1>3, <2>1, <2>3
<1>7. /\ OneSlot(q[4])[1] \in Nat /\ OneSlot(q[4])[2] \in Nat /\ OneSlot(q[4])[3] \in Nat
      /\ OneSlot(q[4]) = <<OneSlot(q[4])[1], OneSlot(q[4])[2], OneSlot(q[4])[3]>>
  BY DEF OneSlot
<1>8. q[1] \in Nat /\ q[2] \in Nat /\ q[3] \in Nat
  BY <1>2, <1>3
<1>. QED
  BY <1>3, <1>5, <1>6, <1>7, <1>8

(* No body shares an entry with another call.                              *)
LEMMA BodyOrder ==
  ASSUME NEW q \in Bodies
  PROVE  /\ BodyAt(q) \in 0 .. BufferSize - 1
         /\ \A s \in Rooms : At(s) < BodyAt(q)
         /\ \A r \in Bodies : BodyAt(q) = BodyAt(r) => q = r
<1>. DEFINE Block(r) == (r[5] - 1) * 3 + (r[4] - 1)
<1>1. MultLimit \in Nat /\ Layer \in Nat /\ BufferSize \in Nat /\ 3 * MultLimit \in Nat
      /\ BufferSize = (3 * MultLimit) * Layer
      /\ MAX_ONES \in Nat /\ MAX_TWOS \in Nat /\ MAX_THREES \in Nat
  BY Strides, BufferHasRoom
<1>2. ASSUME NEW r \in Bodies
      PROVE  /\ Block(r) \in Nat /\ 0 < Block(r) /\ Block(r) < 3 * MultLimit
             /\ At(RoomOf(r)) \in 0 .. Layer - 1
             /\ BodyAt(r) = Block(r) * Layer + At(RoomOf(r))
             /\ r = <<r[1], r[2], r[3], r[4], r[5]>>
             /\ r[4] \in 1..3 /\ r[5] \in Nat
             /\ RoomOf(r) \in Rooms
  <2>1. /\ r[4] \in 1..3 /\ r[5] \in 2..MultLimit
        /\ RoomOf(r) \in Rooms
        /\ r = <<r[1], r[2], r[3], r[4], r[5]>>
    BY <1>1, CallsLemma DEF Bodies
  <2>2. Block(r) \in Nat /\ 0 < Block(r) /\ Block(r) < 3 * MultLimit
    BY <1>1, <2>1
  <2>3. At(RoomOf(r)) \in 0 .. Layer - 1
    BY <2>1, IndexOrder
  <2>4. BodyAt(r) = Block(r) * MAX_THREES * MAX_TWOS * MAX_ONES + At(RoomOf(r))
    BY DEF BodyAt, BodyIndex, At, RoomOf
  <2>. DEFINE b == Block(r)
  <2>5. b * MAX_THREES * MAX_TWOS * MAX_ONES = b * Layer
    <3>1. b \in Nat
      BY <2>2
    <3>. HIDE DEF b
    <3>. QED
      BY <1>1, <3>1 DEF Layer
  <2>. QED
    BY <1>1, <2>1, <2>2, <2>3, <2>4, <2>5
<1>. DEFINE b == Block(q)
            a == At(RoomOf(q))
<1>3. /\ b \in Nat /\ 0 < b /\ b < 3 * MultLimit /\ a \in 0 .. Layer - 1
      /\ BodyAt(q) = b * Layer + a
  BY <1>2
<1>4. BodyAt(q) \in 0 .. BufferSize - 1
  <2>. HIDE DEF b, a
  <2>1. b * Layer + Layer <= (3 * MultLimit) * Layer
    BY <1>1, <1>3, Blocks
  <2>2. b * Layer \in Nat
    BY <1>1, <1>3
  <2>3. b * Layer + a < BufferSize /\ 0 <= b * Layer + a /\ b * Layer + a \in Nat
    BY <1>1, <1>3, <2>1, <2>2
  <2>. QED
    BY <1>1, <1>3, <2>3
<1>5. ASSUME NEW s \in Rooms PROVE At(s) < BodyAt(q)
  <2>. HIDE DEF b, a
  <2>1. At(s) \in 0 .. Layer - 1
    BY IndexOrder
  <2>2. 0 * Layer + At(s) < b * Layer + a
    BY <1>1, <1>3, <2>1, Digits
  <2>3. 0 * Layer + At(s) = At(s)
    BY <1>1, <2>1
  <2>. QED
    BY <1>3, <2>2, <2>3
<1>6. ASSUME NEW r \in Bodies, BodyAt(q) = BodyAt(r) PROVE q = r
  <2>. DEFINE d == Block(r)
              x == At(RoomOf(r))
  <2>1. d \in Nat /\ x \in 0 .. Layer - 1 /\ BodyAt(r) = d * Layer + x
    BY <1>2
  <2>2. b = d /\ a = x
    <3>1. /\ b \in Nat /\ a \in 0 .. Layer - 1 /\ d \in Nat /\ x \in 0 .. Layer - 1
          /\ b * Layer + a = d * Layer + x /\ Layer \in Nat
      BY <1>1, <1>3, <1>6, <2>1
    <3>. HIDE DEF a, b, d, x
    <3>. QED
      BY <3>1, Digits
  <2>3. RoomOf(q) = RoomOf(r)
    BY <1>2, <2>2, IndexOrder
  <2>4. q[5] = r[5] /\ q[4] = r[4]
    <3>1. (q[5] - 1) * 3 + (q[4] - 1) = (r[5] - 1) * 3 + (r[4] - 1)
      BY <2>2
    <3>2. q[4] \in 1..3 /\ q[5] \in Nat /\ r[4] \in 1..3 /\ r[5] \in Nat
      BY <1>2
    <3>. HIDE DEF Block, b, a, d, x
    <3>. QED
      BY <3>1, <3>2
  <2>5. q[1] = r[1] /\ q[2] = r[2] /\ q[3] = r[3]
    BY <2>3 DEF RoomOf
  <2>. QED
    BY <1>2, <2>4, <2>5
<1>. QED
  BY <1>4, <1>5, <1>6

-----------------------------------------------------------------------------
(* Everything the buffers hold is complete.                                *)
BodiesRight(c) ==
  \A q \in Bodies : c.buffer[BodyAt(q)] # {} => c.buffer[BodyAt(q)] = EveryStuffing(q)

RoomsRight(c) ==
  /\ c.buffer[0] = {NoKey}
  /\ \A s \in Rooms : c.buffer[At(s)] # {} => c.buffer[At(s)] = All(s)

Complete(c) == c \in Caches /\ FixedRight(c) /\ RoomsRight(c) /\ BodiesRight(c)

(* What is left of a call of Calculate(i, j, k) with complete buffers.     *)
LEMMA ServesComplete ==
  ASSUME JewelsOK, NEW s \in Rooms, NEW c, Complete(c), NEW e, Serves(c, e, s)
  PROVE  Complete(e) /\ e.buffer[At(s)] = All(s) /\ Keeps(c, e)
<1>1. Ready(c, At(s)) /\ c \in Caches
  BY DEF Complete, RoomsRight, Ready, RightUpTo
<1>2. /\ e \in Caches /\ FixedRight(e) /\ RightUpTo(e, At(s)) /\ Keeps(c, e)
      /\ e.buffer[At(s)] = All(s)
      /\ \A y \in 0 .. BufferSize - 1 : y > At(s) => e.buffer[y] = c.buffer[y]
  BY <1>1 DEF Serves, Answers, Ready
<1>3. At(s) \in 0 .. BufferSize - 1
  BY BufferHasRoom
<1>4. ASSUME NEW v \in Rooms, e.buffer[At(v)] # {} PROVE e.buffer[At(v)] = All(v)
  <2>1. At(v) \in 0 .. BufferSize - 1
    BY BufferHasRoom
  <2>2. CASE At(v) <= At(s)
    BY <1>2, <1>4, <2>2 DEF RightUpTo
  <2>3. CASE At(v) > At(s)
    BY <1>2, <1>4, <2>1, <2>3 DEF Complete, RoomsRight
  <2>. QED
    BY <1>3, <2>1, <2>2, <2>3
<1>5. ASSUME NEW q \in Bodies, e.buffer[BodyAt(q)] # {}
      PROVE  e.buffer[BodyAt(q)] = EveryStuffing(q)
  <2>1. BodyAt(q) \in 0 .. BufferSize - 1 /\ BodyAt(q) > At(s)
    BY <1>3, BodyOrder
  <2>. QED
    BY <1>2, <1>5, <2>1 DEF Complete, BodiesRight
<1>. QED
  BY <1>2, <1>4, <1>5 DEF Complete, RoomsRight, BodiesRight, RightUpTo

AnswerAt(q) == AnswerIndex(q[1], q[2], q[3], q[4], q[5])
BodyCall(c, q) == CalculateBody(c, q[1], q[2], q[3], q[4], q[5])

(* Where the answer of a call is, and what it should be.                   *)
LEMMA AnswerFacts ==
  ASSUME NEW q \in Calls
  PROVE  /\ q[4] = 0 => AnswerAt(q) = At(RoomOf(q)) /\ EveryStuffing(q) = All(RoomOf(q))
         /\ q[4] > 0 => /\ q \in Bodies /\ AnswerAt(q) = BodyAt(q)
                        /\ EveryStuffing(q)
                             = SetProduct(All(RoomOf(q)),
                                 { BodyRefactor(y, q[5]) : y \in All(OneSlot(q[4])) })
<1>1. q[4] = 0 => AnswerAt(q) = At(RoomOf(q)) /\ EveryStuffing(q) = All(RoomOf(q))
  BY DEF AnswerAt, AnswerIndex, At, RoomOf, EveryStuffing, BodyStuffed, All
<1>2. ASSUME q[4] > 0
      PROVE  /\ q \in Bodies /\ AnswerAt(q) = BodyAt(q)
             /\ EveryStuffing(q)
                  = SetProduct(All(RoomOf(q)),
                      { BodyRefactor(y, q[5]) : y \in All(OneSlot(q[4])) })
  <2>1. ~ (q[5] < 2) /\ q[4] # 0
    BY <1>2, CallsLemma
  <2>2. q \in Bodies
    BY <1>2 DEF Bodies
  <2>3. AnswerAt(q) = BodyAt(q)
    BY <2>1, Zenon DEF AnswerAt, AnswerIndex, BodyAt
  <2>4. EveryStuffing(q) = { x ++ BodyRefactor(y, q[5]) :
                                x \in All(RoomOf(q)), y \in All(OneSlot(q[4])) }
    <3>1. EveryStuffing(q) = BodyStuffed(NoKey, jewel_keys, RoomOf(q), q[4], q[5])
      BY DEF EveryStuffing, RoomOf
    <3>2. BodyStuffed(NoKey, jewel_keys, RoomOf(q), q[4], q[5])
            = { x ++ BodyRefactor(y, q[5]) :
                  x \in Stuffed(NoKey, jewel_keys, RoomOf(q)),
                  y \in Stuffed(NoKey, jewel_keys, OneSlot(q[4])) }
      BY <2>1 DEF BodyStuffed
    <3>. QED
      BY <3>1, <3>2 DEF All
  <2>5. { x ++ BodyRefactor(y, q[5]) : x \in All(RoomOf(q)), y \in All(OneSlot(q[4])) }
          = SetProduct(All(RoomOf(q)),
              { BodyRefactor(y, q[5]) : y \in All(OneSlot(q[4])) })
    BY DEF SetProduct
  <2>. QED
    BY <2>2, <2>3, <2>4, <2>5
<1>. QED
  BY <1>1, <1>2

(* A call leaves complete buffers, keeps their entries and answers.        *)
LEMMA QueryComplete ==
  ASSUME JewelsOK, NEW q \in Calls, NEW c, Complete(c)
  PROVE  /\ Complete(BodyCall(c, q))
         /\ BodyCall(c, q).buffer[AnswerAt(q)] = EveryStuffing(q)
         /\ Keeps(c, BodyCall(c, q))
<1>. DEFINE s     == RoomOf(q)
            t     == OneSlot(q[4])
            base  == CalculateThrees(c, q[1], q[2], q[3])
            d     == CalculateThrees(base, t[1], t[2], t[3])
            index == BodyAt(q)
            keys  == SetProduct(d.buffer[At(s)],
                       { BodyRefactor(key, q[5]) : key \in d.buffer[At(t)] })
<1>1. /\ s \in Rooms /\ s = <<q[1], q[2], q[3]>>
      /\ q[1] \in Nat /\ q[2] \in Nat /\ q[3] \in Nat /\ q[4] \in 0..3 /\ q[5] \in Nat
  BY Strides, CallsLemma DEF RoomOf
<1>2. c \in Caches
  BY DEF Complete
<1>3. Serves(c, base, s)
  BY <1>1, <1>2, CalculateServes
<1>4. Complete(base) /\ base.buffer[At(s)] = All(s) /\ Keeps(c, base)
  BY <1>1, <1>3, ServesComplete
<1>5. BodyCall(c, q) = IF q[5] < 2 \/ q[4] = 0 \/ base.buffer[index] # {} THEN base
                       ELSE Put(d, index, keys)
  <2>1. /\ BodyIndex(q[1], q[2], q[3], q[4], q[5]) = index
        /\ Index(q[1], q[2], q[3]) = At(s)
        /\ Index(t[1], t[2], t[3]) = At(t)
    BY DEF BodyAt, At, RoomOf
  <2>. QED
    BY <2>1, Zenon DEF BodyCall, CalculateBody, Put
<1>6. CASE q[4] = 0
  <2>1. BodyCall(c, q) = base
    BY <1>5, <1>6
  <2>. QED
    BY <1>4, <1>6, <2>1, AnswerFacts
<1>7. CASE q[4] > 0 /\ base.buffer[index] # {}
  <2>1. BodyCall(c, q) = base
    BY <1>5, <1>7
  <2>2. q \in Bodies /\ AnswerAt(q) = index
    BY <1>7, AnswerFacts
  <2>. QED
    BY <1>4, <1>7, <2>1, <2>2 DEF Complete, BodiesRight
<1>8. CASE q[4] > 0 /\ base.buffer[index] = {}
  <2>1. /\ q \in Bodies /\ AnswerAt(q) = index
        /\ EveryStuffing(q) = SetProduct(All(s), { BodyRefactor(y, q[5]) : y \in All(t) })
    BY <1>8, AnswerFacts
  <2>2. /\ t \in Rooms /\ t[1] \in Nat /\ t[2] \in Nat /\ t[3] \in Nat
        /\ t = <<t[1], t[2], t[3]>> /\ ~ (q[5] < 2)
    BY <1>8, CallsLemma
  <2>3. BodyCall(c, q) = Put(d, index, keys)
    BY <1>5, <1>8, <2>2
  <2>4. base \in Caches
    BY <1>4 DEF Complete
  <2>5. Serves(base, d, t)
    <3>. DEFINE x == t[1]
                y == t[2]
                z == t[3]
    <3>1. x \in Nat /\ y \in Nat /\ z \in Nat /\ t = <<x, y, z>> /\ t \in Rooms
      BY <2>2
    <3>2. d = CalculateThrees(base, x, y, z)
      OBVIOUS
    <3>. HIDE DEF x, y, z, t, base, d
    <3>. QED
      BY <2>4, <3>1, <3>2, CalculateServes
  <2>. HIDE DEF base, d, s, t, index
  <2>6. Complete(d) /\ d.buffer[At(t)] = All(t) /\ Keeps(base, d)
    BY <1>4, <2>2, <2>5, ServesComplete
  <2>7. d.buffer[At(s)] = All(s)
    <3>1. At(s) \in 0 .. BufferSize - 1
      BY <1>1, BufferHasRoom
    <3>2. base.buffer[At(s)] # {}
      BY <1>1, <1>4, AllHasNone
    <3>3. d.buffer[At(s)] # {}
      BY <2>6, <3>1, <3>2 DEF Keeps
    <3>. QED
      BY <1>1, <2>6, <3>3 DEF Complete, RoomsRight
  <2>8. keys = EveryStuffing(q)
    BY <2>1, <2>6, <2>7
  <2>9. keys \in SUBSET Keys
    <3>1. d.buffer[At(s)] \in SUBSET Keys /\ d.buffer[At(t)] \in SUBSET Keys
      BY <1>1, <2>2, <2>6, CacheEntries DEF Complete
    <3>. DEFINE b == { BodyRefactor(key, q[5]) : key \in d.buffer[At(t)] }
    <3>2. b \in SUBSET Keys
      BY <1>1, <3>1, BodyRefactorIsKey
    <3>. HIDE DEF b
    <3>3. SetProduct(d.buffer[At(s)], b) \in SUBSET Keys
      BY <3>1, <3>2, ProductIsKeys
    <3>. QED
      BY <3>3 DEF b
  <2>. DEFINE r == Put(d, index, keys)
  <2>. HIDE DEF keys
  <2>10. index \in 0 .. BufferSize - 1 /\ \A v \in Rooms : At(v) < index
    BY <2>1, BodyOrder DEF index
  <2>11. d \in Caches
    BY <2>6 DEF Complete
  <2>12. /\ r \in Caches /\ r.fixed = d.fixed /\ r.buffer[index] = keys
         /\ \A y \in 0 .. BufferSize - 1 : y # index => r.buffer[y] = d.buffer[y]
    BY <2>9, <2>10, <2>11, PutLemma
  <2>. HIDE DEF r
  <2>13. FixedRight(r)
    BY <2>6, <2>12 DEF Complete, FixedRight
  <2>14. RoomsRight(r)
    <3>1. ASSUME NEW v \in Rooms PROVE r.buffer[At(v)] = d.buffer[At(v)]
      <4>1. At(v) \in 0 .. BufferSize - 1 /\ At(v) < index
        BY <2>10, BufferHasRoom
      <4>2. At(v) # index
        BY <2>10, <4>1
      <4>. QED
        BY <2>12, <4>1, <4>2
    <3>2. r.buffer[0] = d.buffer[0]
      <4>1. 0 \in 0..HolesLimit
        BY Strides
      <4>2. <<0, 0, 0>> \in Rooms /\ At(<<0, 0, 0>>) = 0
        BY <4>1, OnesRooms
      <4>. QED
        BY <3>1, <4>2
    <3>. QED
      BY <2>6, <3>1, <3>2 DEF Complete, RoomsRight
  <2>15. BodiesRight(r)
    <3>1. ASSUME NEW p \in Bodies, r.buffer[BodyAt(p)] # {}
          PROVE  r.buffer[BodyAt(p)] = EveryStuffing(p)
      <4>1. CASE p = q
        BY <2>8, <2>12, <4>1 DEF index
      <4>2. CASE p # q
        <5>1. BodyAt(p) \in 0 .. BufferSize - 1 /\ BodyAt(p) # index
          BY <2>1, <4>2, BodyOrder DEF index
        <5>. QED
          BY <2>6, <2>12, <3>1, <5>1 DEF Complete, BodiesRight
      <4>. QED
        BY <4>1, <4>2
    <3>. QED
      BY <3>1 DEF BodiesRight
  <2>16. Keeps(c, r)
    <3>1. ASSUME NEW y \in 0 .. BufferSize - 1, c.buffer[y] # {} PROVE r.buffer[y] # {}
      <4>1. base.buffer[y] # {}
        BY <1>4, <3>1 DEF Keeps
      <4>2. y # index
        BY <1>8, <4>1 DEF base, index
      <4>3. d.buffer[y] # {}
        BY <2>6, <4>1 DEF Keeps
      <4>. QED
        BY <2>12, <4>2, <4>3
    <3>. QED
      BY <3>1 DEF Keeps
  <2>. QED
    BY <2>1, <2>3, <2>8, <2>12, <2>13, <2>14, <2>15, <2>16 DEF Complete, r
<1>. QED
  BY <1>1, <1>6, <1>7, <1>8

-----------------------------------------------------------------------------
Buffers == [fixed |-> fixed_buffer, buffer |-> buffer]

(* Every variable has its type, and the answer is inside the buffer.       *)
TypeOK ==
  /\ jewel_keys \in [1..3 -> SUBSET Keys]
  /\ fixed_buffer \in [1..3 -> [0..HolesLimit -> SUBSET Keys]]
  /\ buffer \in [0 .. BufferSize - 1 -> SUBSET Keys]
  /\ asked \in Calls
  /\ answer \in 0 .. BufferSize - 1

Inv ==
  /\ JewelsOK
  /\ Complete(Buffers)
  /\ asked \in Calls
  /\ answer = AnswerAt(asked)
  /\ buffer[answer] = EveryStuffing(asked)

(* The key of a jewel is a signature.                                      *)
LEMMA JewelKeyIsKey ==
  ASSUME NEW id \in DOMAIN JewelData PROVE JewelKey(JewelData[id], Effects) \in Keys
<1>. DEFINE jewel == JewelData[id]
            points(e) == EffectPoints(jewel.effects, Effects[e].id)
<1>1. \A e : points(e) \in Int
  BY DataAssumption DEF EffectPoints
<1>2. \A e : Char8(points(e)) \in Byte
  BY <1>1, Char8Lemma
<1>3. PtsOf(jewel, Effects, Len(Effects)) \in [1..Len(Effects) -> Byte]
  BY <1>2, Char8Lemma DEF PtsOf
<1>4. SlotBytes(jewel.slots).b0 \in Byte /\ SlotBytes(jewel.slots).b1 \in Byte /\ 0 \in Byte
  <2>1. 0 \in Byte /\ 1 \in Byte /\ 16 \in Byte
    BY DEF Byte
  <2>. QED
    BY <2>1 DEF SlotBytes
<1>. HIDE DEF jewel
<1>. QED
  BY <1>3, <1>4 DEF JewelKey, Keys, jewel

(* The constructor keeps signatures only.                                  *)
LEMMA InitJewels ==
  ASSUME Init PROVE JewelsOK
<1>1. PICK skills, blacklist :
        jewel_keys = ClientKeys(skills, [blacklist |-> blacklist], Effects)
  BY DEF Init
<1>2. ASSUME NEW slots \in 1..3
      PROVE  ValidKeys(skills, [blacklist |-> blacklist], Effects, slots) \in SUBSET Keys
  BY JewelKeyIsKey DEF ValidKeys
<1>. QED
  BY <1>1, <1>2 DEF ClientKeys, JewelsOK

(* The constructor leaves the invariant true.                              *)
LEMMA InitComplete ==
  ASSUME Init PROVE Inv
<1>1. JewelsOK /\ asked = <<0, 0, 0, 0, 1>> /\ answer = 0
      /\ fixed_buffer = EmptyFixed /\ buffer = EmptyBuffer
  BY InitJewels DEF Init
<1>2. asked \in Calls
  BY <1>1, Strides DEF Calls, Holes
<1>. DEFINE z == <<0, 0, 0>>
<1>3. z \in Rooms /\ At(z) = 0 /\ 0 \in 0 .. BufferSize - 1 /\ 0 \in 0..HolesLimit
  BY Strides, OnesRooms, BufferHasRoom
<1>4. All(z) = {NoKey} /\ \A size \in 1..3 : SumsOfSize(size, 0) = {NoKey}
  <2>1. All(z) = {NoKey}
    BY <1>1, AllOnes
  <2>. QED
    BY <1>1, <2>1, SizeSums
<1>5. /\ buffer \in [0 .. BufferSize - 1 -> SUBSET Keys]
      /\ buffer[0] = {NoKey}
      /\ \A y \in 0 .. BufferSize - 1 : y # 0 => buffer[y] = {}
  BY <1>1, <1>3, NoKeyIsKey DEF EmptyBuffer
<1>6. /\ fixed_buffer \in [1..3 -> [0..HolesLimit -> SUBSET Keys]]
      /\ \A size \in 1..3 : /\ fixed_buffer[size][0] = {NoKey}
                            /\ \A n \in 0..HolesLimit : n # 0 => fixed_buffer[size][n] = {}
  BY <1>1, <1>3, NoKeyIsKey DEF EmptyFixed
<1>7. Buffers \in Caches /\ Buffers.fixed = fixed_buffer /\ Buffers.buffer = buffer
  BY <1>5, <1>6 DEF Buffers, Caches
<1>. HIDE DEF z
<1>8. FixedRight(Buffers)
  BY <1>4, <1>6, <1>7 DEF FixedRight
<1>9. RoomsRight(Buffers)
  <2>1. ASSUME NEW s \in Rooms, buffer[At(s)] # {} PROVE buffer[At(s)] = All(s)
    <3>1. At(s) = 0
      BY <1>5, <2>1, BufferHasRoom
    <3>2. s = z
      BY <1>3, <3>1, IndexOrder
    <3>. QED
      BY <1>4, <1>5, <3>1, <3>2
  <2>. QED
    BY <1>5, <1>7, <2>1 DEF RoomsRight
<1>10. BodiesRight(Buffers)
  <2>1. ASSUME NEW q \in Bodies PROVE buffer[BodyAt(q)] = {}
    <3>1. BodyAt(q) \in 0 .. BufferSize - 1 /\ 0 < BodyAt(q)
      BY <1>3, BodyOrder
    <3>. QED
      BY <1>5, <3>1
  <2>. QED
    BY <1>7, <2>1 DEF BodiesRight
<1>11. AnswerAt(asked) = 0 /\ EveryStuffing(asked) = {NoKey}
  <2>1. asked[4] = 0 /\ RoomOf(asked) = z
    BY <1>1 DEF RoomOf, z
  <2>. QED
    BY <1>2, <1>3, <1>4, <2>1, AnswerFacts
<1>. QED
  BY <1>1, <1>2, <1>5, <1>7, <1>8, <1>9, <1>10, <1>11 DEF Inv, Complete

(* Query keeps the invariant and every entry.                              *)
LEMMA QueryStep ==
  ASSUME Inv, NEW q \in Calls, Query(q[1], q[2], q[3], q[4], q[5])
  PROVE  Inv' /\ Keeps(Buffers, Buffers')
<1>. DEFINE c == BodyCall(Buffers, q)
<1>1. /\ fixed_buffer' = c.fixed /\ buffer' = c.buffer
      /\ asked' = <<q[1], q[2], q[3], q[4], q[5]>>
      /\ answer' = AnswerAt(q)
      /\ jewel_keys' = jewel_keys
  BY DEF Query, BodyCall, Buffers, AnswerAt
<1>2. JewelsOK /\ Complete(Buffers)
  BY DEF Inv
<1>3. Complete(c) /\ c.buffer[AnswerAt(q)] = EveryStuffing(q) /\ Keeps(Buffers, c)
  BY <1>2, QueryComplete
<1>4. asked' = q
  BY <1>1, CallsLemma
<1>5. Buffers' = c
  <2>1. c \in Caches
    BY <1>3 DEF Complete
  <2>2. c = [fixed |-> c.fixed, buffer |-> c.buffer]
    <3>. HIDE DEF c
    <3>. QED
      BY <2>1 DEF Caches
  <2>. QED
    BY <1>1, <2>2 DEF Buffers
<1>. HIDE DEF c
<1>6. JewelsOK'
  BY <1>1, <1>2 DEF JewelsOK
<1>7. /\ \A size, n : SumsOfSize(size, n)' = SumsOfSize(size, n)
      /\ \A s : All(s)' = All(s)
      /\ \A p : EveryStuffing(p)' = EveryStuffing(p)
  BY <1>1 DEF SumsOfSize, All, EveryStuffing
<1>8. Complete(Buffers)'
  BY <1>3, <1>5, <1>7 DEF Complete, FixedRight, RoomsRight, BodiesRight
<1>9. buffer' = c.buffer /\ EveryStuffing(asked)' = EveryStuffing(q) /\ AnswerAt(asked)' = AnswerAt(q)
  BY <1>1, <1>4, <1>7 DEF EveryStuffing, AnswerAt
<1>10. Keeps(Buffers, Buffers')
  BY <1>3, <1>5
<1>. QED
  BY <1>1, <1>3, <1>4, <1>6, <1>8, <1>9, <1>10 DEF Inv

(* So does every step.                                                     *)
LEMMA NextStep ==
  ASSUME Inv, [Next]_vars
  PROVE  Inv' /\ Keeps(Buffers, Buffers') /\ jewel_keys' = jewel_keys
<1>1. CASE Next
  <2>1. PICK q \in Calls : Query(q[1], q[2], q[3], q[4], q[5])
    BY <1>1 DEF Next
  <2>2. jewel_keys' = jewel_keys
    BY <2>1 DEF Query
  <2>. QED
    BY <2>1, <2>2, QueryStep
<1>2. CASE UNCHANGED vars
  <2>1. /\ jewel_keys' = jewel_keys /\ buffer' = buffer /\ asked' = asked
        /\ answer' = answer /\ Buffers' = Buffers
    BY <1>2 DEF vars, Buffers
  <2>2. /\ \A size, n : SumsOfSize(size, n)' = SumsOfSize(size, n)
        /\ \A s : All(s)' = All(s)
        /\ \A p : EveryStuffing(p)' = EveryStuffing(p)
    BY <2>1 DEF SumsOfSize, All, EveryStuffing
  <2>3. Complete(Buffers)'
    BY <2>1, <2>2 DEF Inv, Complete, FixedRight, RoomsRight, BodiesRight
  <2>4. JewelsOK' /\ EveryStuffing(asked)' = EveryStuffing(asked)
        /\ AnswerAt(asked)' = AnswerAt(asked)
    BY <2>1 DEF Inv, JewelsOK, EveryStuffing, AnswerAt
  <2>5. Inv'
    BY <2>1, <2>3, <2>4 DEF Inv
  <2>6. Keeps(Buffers, Buffers')
    BY <2>1 DEF Keeps
  <2>. QED
    BY <2>1, <2>5, <2>6
<1>. QED
  BY <1>1, <1>2

(* The invariant holds.                                                    *)
LEMMA InvHolds == Spec => []Inv
<1>1. Init => Inv
  BY InitComplete
<1>2. Inv /\ [Next]_vars => Inv'
  BY NextStep
<1>. QED
  BY <1>1, <1>2, PTL DEF Spec

(* The record of the two buffers.                                          *)
LEMMA BuffersParts ==
  Buffers.fixed = fixed_buffer /\ Buffers.buffer = buffer
BY DEF Buffers

(* Every variable keeps its type: no call with a multiplier up to          *)
(* MultLimit, for which the buffer is made, leaves the flat buffer of the  *)
(* code, and the sums it stores are signatures.                            *)
THEOREM TypeCorrect == Spec => []TypeOK
<1>1. Inv => TypeOK
  <2>. SUFFICES ASSUME Inv PROVE TypeOK
    OBVIOUS
  <2>1. fixed_buffer \in [1..3 -> [0..HolesLimit -> SUBSET Keys]]
        /\ buffer \in [0 .. BufferSize - 1 -> SUBSET Keys]
    BY BuffersParts, CacheParts DEF Inv, Complete
  <2>2. answer \in 0 .. BufferSize - 1
    <3>1. AnswerAt(asked) \in 0 .. BufferSize - 1
      <4>1. asked \in Calls /\ RoomOf(asked) \in Rooms /\ asked[4] \in 0..3
        BY CallsLemma DEF Inv
      <4>2. asked[4] = 0 \/ asked[4] > 0
        BY <4>1
      <4>. QED
        BY <4>1, <4>2, AnswerFacts, BodyOrder, BufferHasRoom
    <3>. QED
      BY <3>1 DEF Inv
  <2>. QED
    BY <2>1, <2>2 DEF Inv, TypeOK, JewelsOK
<1>. QED
  BY <1>1, InvHolds, PTL

(* jewels_query.h:229: the entry of a multiplied body is in the buffer      *)
(* exactly if the buffer is made for its multiplier, whatever the          *)
(* alignment.  The code's is made for 5; that of a tree with four torso-up *)
(* parts and a torso-up amulet is 6, and its entry is behind the end.      *)
THEOREM MultiplierDecides ==
  ASSUME NEW s \in Rooms, NEW extra \in 1..3, NEW multiplier \in Nat \ {0}
  PROVE  BodyIndex(s[1], s[2], s[3], extra, multiplier) \in 0 .. BufferSize - 1
           <=> multiplier <= MultLimit
<1>. DEFINE b == (multiplier - 1) * 3 + (extra - 1)
            a == At(s)
            index == BodyIndex(s[1], s[2], s[3], extra, multiplier)
<1>1. /\ MultLimit \in Nat /\ Layer \in Nat /\ BufferSize = (3 * MultLimit) * Layer
      /\ BufferSize \in Nat /\ a \in 0 .. Layer - 1
      /\ MAX_ONES \in Nat /\ MAX_TWOS \in Nat /\ MAX_THREES \in Nat
  BY Strides, BufferHasRoom, IndexOrder
<1>2. /\ b \in Nat
      /\ multiplier <= MultLimit => b < 3 * MultLimit
      /\ multiplier > MultLimit => b >= 3 * MultLimit
  BY <1>1
<1>3. index = b * Layer + a
  <2>1. index = b * MAX_THREES * MAX_TWOS * MAX_ONES + a
    BY DEF BodyIndex, At
  <2>. HIDE DEF b, a, index
  <2>2. b * MAX_THREES * MAX_TWOS * MAX_ONES = b * Layer
    BY <1>1, <1>2 DEF Layer
  <2>. QED
    BY <2>1, <2>2
<1>. HIDE DEF a, index
<1>4. ASSUME multiplier <= MultLimit
      PROVE  index \in 0 .. BufferSize - 1
  <2>. DEFINE m == 3 * MultLimit
  <2>1. b \in Nat /\ m \in Nat /\ b < m
    BY <1>1, <1>2, <1>4
  <2>. HIDE DEF b, m
  <2>2. b * Layer + Layer <= m * Layer
    BY <1>1, <2>1, Blocks
  <2>3. b * Layer \in Nat
    BY <1>1, <2>1
  <2>4. BufferSize = m * Layer
    BY <1>1 DEF m
  <2>. QED
    BY <1>1, <1>3, <2>2, <2>3, <2>4
<1>5. ASSUME multiplier > MultLimit
      PROVE  index >= BufferSize /\ index \in Nat
  <2>. DEFINE m == 3 * MultLimit
  <2>1. b \in Nat /\ m \in Nat /\ b >= m
    BY <1>1, <1>2, <1>5
  <2>. HIDE DEF b, m
  <2>2. b * Layer >= m * Layer
    <3>1. b = m \/ m < b
      BY <2>1
    <3>2. m < b => m * Layer + Layer <= b * Layer
      BY <1>1, <2>1, Blocks
    <3>3. b * Layer \in Nat /\ m * Layer \in Nat
      BY <1>1, <2>1
    <3>. QED
      BY <1>1, <3>1, <3>2, <3>3
  <2>3. b * Layer \in Nat
    BY <1>1, <2>1
  <2>4. BufferSize = m * Layer
    BY <1>1 DEF m
  <2>. QED
    BY <1>1, <1>3, <2>2, <2>3, <2>4
<1>. QED
  BY <1>1, <1>4, <1>5 DEF index

(* Query answers with exactly the sums of the jewels that fit the slots it *)
(* is asked about, whatever was asked, and left in the buffers, before.    *)
THEOREM AnswersAreEveryStuffing == Spec => []AnswerIsEveryStuffing
<1>1. Inv => AnswerIsEveryStuffing
  BY DEF Inv, AnswerIsEveryStuffing
<1>. QED
  BY <1>1, InvHolds, PTL

(* Every entry that a nested call left behind is complete too: no entry is *)
(* shared by two alignments, and none is half computed.                    *)
THEOREM EntriesAreComplete == Spec => []EntriesComplete
<1>1. Inv => EntriesComplete
  <2>. SUFFICES ASSUME Inv, NEW q \in Calls, buffer[AnswerAt(q)] # {}
                PROVE  buffer[AnswerAt(q)] = EveryStuffing(q)
    BY DEF EntriesComplete, AnswerAt
  <2>1. RoomsRight(Buffers) /\ BodiesRight(Buffers) /\ RoomOf(q) \in Rooms /\ q[4] \in 0..3
    BY CallsLemma DEF Inv, Complete
  <2>2. q[4] = 0 \/ q[4] > 0
    BY <2>1
  <2>. QED
    BY <2>1, <2>2, AnswerFacts, BuffersParts DEF RoomsRight, BodiesRight
<1>. QED
  BY <1>1, InvHolds, PTL

(* Query returns a reference into the buffer.  A later call never changes  *)
(* what an earlier one answered with.                                      *)
AnswersStay ==
  [][\A q \in Calls : buffer[AnswerAt(q)] # {} =>
       buffer'[AnswerAt(q)] = buffer[AnswerAt(q)]]_vars

(* AnswersStay holds of every run of the client.                           *)
THEOREM AnswersDoStay == Spec => AnswersStay
<1>1. Inv /\ Inv' /\ [Next]_vars
        => [\A q \in Calls : buffer[AnswerAt(q)] # {} =>
              buffer'[AnswerAt(q)] = buffer[AnswerAt(q)]]_vars
  <2>. SUFFICES ASSUME Inv, Inv', [Next]_vars, NEW q \in Calls, buffer[AnswerAt(q)] # {}
                PROVE  buffer'[AnswerAt(q)] = buffer[AnswerAt(q)]
    BY Zenon
  <2>1. Keeps(Buffers, Buffers') /\ jewel_keys' = jewel_keys
    BY NextStep
  <2>2. /\ \A s : All(s)' = All(s)
        /\ \A p : EveryStuffing(p)' = EveryStuffing(p)
    BY <2>1 DEF All, EveryStuffing
  <2>3. /\ RoomsRight(Buffers) /\ BodiesRight(Buffers)
        /\ RoomsRight(Buffers)' /\ BodiesRight(Buffers)'
    BY DEF Inv, Complete
  <2>4. Buffers.buffer = buffer /\ Buffers'.buffer = buffer'
    BY DEF Buffers
  <2>5. CASE q[4] = 0
    <3>1. RoomOf(q) \in Rooms /\ AnswerAt(q) = At(RoomOf(q))
          /\ At(RoomOf(q)) \in 0 .. BufferSize - 1
      BY <2>5, CallsLemma, AnswerFacts, BufferHasRoom
    <3>2. buffer'[AnswerAt(q)] # {}
      BY <2>1, <2>4, <3>1 DEF Keeps
    <3>. QED
      BY <2>2, <2>3, <2>4, <3>1, <3>2 DEF RoomsRight
  <2>6. CASE q[4] > 0
    <3>1. q \in Bodies /\ AnswerAt(q) = BodyAt(q) /\ BodyAt(q) \in 0 .. BufferSize - 1
      BY <2>6, AnswerFacts, BodyOrder
    <3>2. buffer'[AnswerAt(q)] # {}
      BY <2>1, <2>4, <3>1 DEF Keeps
    <3>. QED
      BY <2>2, <2>3, <2>4, <3>1, <3>2 DEF BodiesRight
  <2>7. q[4] = 0 \/ q[4] > 0
    BY CallsLemma
  <2>. QED
    BY <2>5, <2>6, <2>7
<1>. QED
  BY <1>1, InvHolds, PTL DEF Spec, AnswersStay
=============================================================================
