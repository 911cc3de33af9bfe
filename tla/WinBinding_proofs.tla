------------------------- MODULE WinBinding_proofs -------------------------
(***************************************************************************)
(* Theorems of WinBinding: for any dataset whose ids are distinct, any     *)
(* queries and any sets that a search may find.                            *)
(***************************************************************************)
EXTENDS WinBinding, RecursionLemmas, SequenceTheorems

-----------------------------------------------------------------------------
(* The tables.                                                             *)

Ids(ids, n) == { ids[k] : k \in 1..n }

(* The row of an id among the first n.                                     *)
RowOf(ids, n, id) == CHOOSE k \in 1..n : ids[k] = id

(* What the first n of ids have made of a table.                           *)
Rows(ids, n) ==
  [size |-> n,
   map |-> [forward |-> [k \in 1..n |-> ids[k]],
            backward |-> [id \in Ids(ids, n) |-> RowOf(ids, n, id) - 1]]]

(* The row of an id is found again.                                        *)
LEMMA RowIsUnique ==
  ASSUME NEW ids, Distinct(ids), NEW n \in Nat, 1..n \subseteq DOMAIN ids, NEW k \in 1..n
  PROVE  /\ ids[k] \in Ids(ids, n)
         /\ RowOf(ids, n, ids[k]) = k
<1>1. \A j \in 1..n : ids[j] = ids[k] => j = k
  BY DEF Distinct
<1>2. PICK j \in 1..n : j = RowOf(ids, n, ids[k]) /\ ids[j] = ids[k]
  BY DEF RowOf
<1>. QED
  BY <1>1, <1>2 DEF Ids

LEMMA NoRows == ASSUME NEW ids PROVE Rows(ids, 0) = NewTable
<1>1. [k \in 1..0 |-> ids[k]] = << >>
  OBVIOUS
<1>2. Ids(ids, 0) = {}
  BY DEF Ids
<1>3. [id \in Ids(ids, 0) |-> RowOf(ids, 0, id) - 1] = << >>
  BY <1>2
<1>. QED
  BY <1>1, <1>3, Zenon DEF Rows, NewTable, NewMap

(* A row more: the id is new, so that what was there stays.                *)
LEMMA RowIsAdded ==
  ASSUME NEW ids, Distinct(ids), NEW n \in Nat, 1..(n + 1) \subseteq DOMAIN ids
  PROVE  Add(Rows(ids, n), ids[n + 1]) = Rows(ids, n + 1)
<1>. DEFINE forward(m) == [k \in 1..m |-> ids[k]]
            backward(m) == [id \in Ids(ids, m) |-> RowOf(ids, m, id) - 1]
<1>1. n + 1 \in Nat /\ n + 1 \in 1..(n + 1) /\ 1..n \subseteq DOMAIN ids /\ 1..n \subseteq 1..(n + 1)
  OBVIOUS
<1>2. UpdateForward(forward(n), ids[n + 1], n) = forward(n + 1)
  <2>1. Len(forward(n)) = n
    OBVIOUS
  <2>2. ~(n < n)
    OBVIOUS
  <2>3. UpdateForward(forward(n), ids[n + 1], n)
          = [i \in 1..(n + 1) |-> IF i <= n THEN forward(n)[i]
                                  ELSE IF i = n + 1 THEN ids[n + 1] ELSE -1]
    <3>. HIDE DEF forward
    <3>. QED
      BY <2>1, <2>2 DEF UpdateForward
  <2>4. ASSUME NEW i \in 1..(n + 1)
        PROVE  (IF i <= n THEN forward(n)[i] ELSE IF i = n + 1 THEN ids[n + 1] ELSE -1) = ids[i]
    OBVIOUS
  <2>. QED
    BY <2>3, <2>4, Zenon
<1>3. UpdateBackward(backward(n), ids[n + 1], n) = backward(n + 1)
  <2>1. Ids(ids, n) \union {ids[n + 1]} = Ids(ids, n + 1)
    BY <1>1 DEF Ids
  <2>2. UpdateBackward(backward(n), ids[n + 1], n)
          = [id \in Ids(ids, n + 1) |-> IF id = ids[n + 1] THEN n ELSE backward(n)[id]]
    BY <2>1, Zenon DEF UpdateBackward
  <2>3. ASSUME NEW id \in Ids(ids, n + 1)
        PROVE  (IF id = ids[n + 1] THEN n ELSE backward(n)[id])
                 = RowOf(ids, n + 1, id) - 1
    <3>1. PICK k \in 1..(n + 1) : ids[k] = id
      BY DEF Ids
    <3>2. RowOf(ids, n + 1, id) = k
      BY <1>1, <3>1, RowIsUnique
    <3>3. CASE k = n + 1
      <4>1. id = ids[n + 1] /\ k - 1 = n
        BY <3>1, <3>3
      <4>. HIDE DEF backward
      <4>. QED
        BY <3>2, <4>1
    <3>4. CASE k # n + 1
      <4>1. k \in 1..n
        BY <3>4
      <4>2. ids[k] # ids[n + 1]
        BY <1>1, <3>4 DEF Distinct
      <4>3. ids[k] \in Ids(ids, n) /\ RowOf(ids, n, ids[k]) = k
        BY <1>1, <4>1, RowIsUnique
      <4>4. backward(n)[ids[k]] = k - 1
        BY <4>3
      <4>. HIDE DEF backward
      <4>. QED
        BY <3>1, <3>2, <4>2, <4>4
    <3>. QED
      BY <3>3, <3>4
  <2>. DEFINE old == backward(n)
  <2>. HIDE DEF old
  <2>4. [id \in Ids(ids, n + 1) |-> IF id = ids[n + 1] THEN n ELSE old[id]]
          = [id \in Ids(ids, n + 1) |-> RowOf(ids, n + 1, id) - 1]
    BY <2>3 DEF old
  <2>. QED
    BY <2>2, <2>4, Zenon DEF old
<1>4. /\ Rows(ids, n).size = n
      /\ Rows(ids, n).map = [forward |-> forward(n), backward |-> backward(n)]
  BY DEF Rows
<1>5. Rows(ids, n + 1)
        = [size |-> n + 1, map |-> [forward |-> forward(n + 1), backward |-> backward(n + 1)]]
  BY Zenon DEF Rows
<1>6. /\ Rows(ids, n).map.forward = forward(n)
      /\ Rows(ids, n).map.backward = backward(n)
  BY DEF Rows
<1>. HIDE DEF forward, backward
<1>7. Update(Rows(ids, n).map, ids[n + 1], n)
        = [forward |-> forward(n + 1), backward |-> backward(n + 1)]
  BY <1>2, <1>3, <1>6, Zenon DEF Update
<1>. QED
  BY <1>4, <1>5, <1>7, Zenon DEF Add

(* f is table with one id of ids after the other.                          *)
Adds(f, table, ids) ==
  f = [k \in 0..Len(ids) |-> IF k = 0 THEN table ELSE Add(f[k - 1], ids[k])]

(* AddAll continues a table of the first n of ids with the others.         *)
LEMMA RowsAreAdded ==
  ASSUME NEW ids, Distinct(ids), NEW n \in Nat, NEW more \in Seq(Int),
         DOMAIN ids = 1..(n + Len(more)),
         \A k \in 1..Len(more) : more[k] = ids[n + k]
  PROVE  AddAll(Rows(ids, n), more) = Rows(ids, n + Len(more))
<1>. DEFINE N == Len(more)
            f == [k \in 0..N |-> Rows(ids, n + k)]
            g == CHOOSE h : Adds(h, Rows(ids, n), more)
<1>1. N \in Nat /\ 0 \in 0..N /\ N \in 0..N /\ n + 0 = n
  OBVIOUS
<1>2. ASSUME NEW k \in 1..N
      PROVE  /\ k \in 0..N /\ k # 0 /\ k - 1 \in 0..N
             /\ Add(Rows(ids, n + (k - 1)), more[k]) = Rows(ids, n + k)
  <2>1. n + (k - 1) \in Nat /\ (n + (k - 1)) + 1 = n + k
    OBVIOUS
  <2>2. 1..(n + k) \subseteq DOMAIN ids
    OBVIOUS
  <2>3. Add(Rows(ids, n + (k - 1)), ids[n + k]) = Rows(ids, n + k)
    BY <2>1, <2>2, RowIsAdded
  <2>. QED
    BY <2>3
<1>3. ASSUME NEW k \in 0..N
      PROVE  f[k] = IF k = 0 THEN Rows(ids, n) ELSE Add(f[k - 1], more[k])
  <2>1. CASE k = 0
    BY <1>1, <2>1
  <2>2. CASE k # 0
    <3>1. k \in 1..N
      BY <2>2
    <3>2. f[k] = Rows(ids, n + k) /\ f[k - 1] = Rows(ids, n + (k - 1))
      BY <1>2, <3>1
    <3>. QED
      BY <1>2, <2>2, <3>1, <3>2, Zenon
  <2>. QED
    BY <2>1, <2>2
<1>4. f = [k \in 0..N |-> f[k]]
  OBVIOUS
<1>. HIDE DEF f
<1>5. Adds(f, Rows(ids, n), more)
  BY <1>3, <1>4, Zenon DEF Adds
<1>6. Adds(g, Rows(ids, n), more)
  BY <1>5, Zenon
<1>7. AddAll(Rows(ids, n), more) = g[N]
  BY Zenon DEF AddAll, Adds
<1>. HIDE DEF g
<1>. DEFINE T == { k \in 0..N : g[k] = Rows(ids, n + k) }
<1>8. 0 \in T
  BY <1>1, <1>6, Zenon DEF Adds
<1>9. ASSUME NEW k \in 1..N, k - 1 \in T PROVE k \in T
  <2>1. g[k] = Add(g[k - 1], more[k])
    BY <1>2, <1>6, Zenon DEF Adds
  <2>2. g[k - 1] = Rows(ids, n + (k - 1))
    BY <1>9
  <2>. QED
    BY <1>2, <2>1, <2>2, Zenon
<1>10. \A k \in 0..N : k \in T
  <2>. HIDE DEF T
  <2>. QED
    BY <1>1, <1>8, <1>9, IntervalInduction
<1>. QED
  BY <1>1, <1>7, <1>10

(* The tables as LoadBinary leaves them.                                   *)
ArmorIds == Column(ArmorRows, "id") \o PredefinedIds

Loaded ==
  /\ skills = Rows(SkillRows, Len(SkillRows))
  /\ jewels = Rows(JewelRows, Len(JewelRows))
  /\ armors = Rows(ArmorIds, Len(ArmorIds))

LEMMA ArmorIdsAre ==
  /\ ArmorIds \in Seq(Int) /\ Len(ArmorIds) = Len(ArmorRows) + 5
  /\ Column(ArmorRows, "id") \in Seq(Int) /\ Len(Column(ArmorRows, "id")) = Len(ArmorRows)
  /\ Len(ArmorRows) \in Nat
  /\ \A k \in 1..Len(ArmorRows) : ArmorRows[k].id \in Int /\ ArmorIds[k] = ArmorRows[k].id
  /\ \A k \in 1..Len(ArmorRows) : ArmorIds[k] = Column(ArmorRows, "id")[k]
  /\ \A k \in 1..5 : ArmorIds[Len(ArmorRows) + k] = PredefinedIds[k]
<1>. DEFINE column == Column(ArmorRows, "id")
<1>0. ArmorRows \in Seq([id : Int, part : STRING])
  BY DataAssumption
<1>1. Len(ArmorRows) \in Nat /\ DOMAIN ArmorRows = 1..Len(ArmorRows)
  BY <1>0
<1>2. ASSUME NEW k \in 1..Len(ArmorRows) PROVE ArmorRows[k].id \in Int
  <2>1. ArmorRows[k] \in [id : Int, part : STRING]
    BY <1>0, ElementOfSeq
  <2>. QED
    BY <2>1
<1>3. column = [k \in 1..Len(ArmorRows) |-> ArmorRows[k].id]
  BY <1>1 DEF Column
<1>4. column \in Seq(Int) /\ Len(column) = Len(ArmorRows)
  BY <1>1, <1>2, <1>3
<1>5. PredefinedIds \in Seq(Int) /\ Len(PredefinedIds) = 5
  BY DEF PredefinedIds
<1>6. \A k \in 1..Len(ArmorRows) : column[k] = ArmorRows[k].id
  BY <1>3
<1>. HIDE DEF column
<1>7. ArmorIds = column \o PredefinedIds
  BY DEF ArmorIds, column
<1>. HIDE DEF PredefinedIds
<1>8. /\ ArmorIds \in Seq(Int) /\ Len(ArmorIds) = Len(ArmorRows) + 5
      /\ \A k \in 1..(Len(ArmorRows) + 5) :
           ArmorIds[k] = IF k <= Len(ArmorRows) THEN column[k] ELSE PredefinedIds[k - Len(ArmorRows)]
  <2>1. /\ column \o PredefinedIds \in Seq(Int)
        /\ Len(column \o PredefinedIds) = Len(column) + Len(PredefinedIds)
        /\ \A i \in 1 .. Len(column) + Len(PredefinedIds) :
             (column \o PredefinedIds)[i]
               = IF i <= Len(column) THEN column[i] ELSE PredefinedIds[i - Len(column)]
    <3>1. column \in Seq(Int) /\ PredefinedIds \in Seq(Int)
      BY <1>4, <1>5
    <3>. QED
      BY <3>1, ConcatProperties
  <2>. QED
    BY <1>4, <1>5, <1>7, <2>1
<1>9. ASSUME NEW k \in 1..5 PROVE ArmorIds[Len(ArmorRows) + k] = PredefinedIds[k]
  <2>1. /\ Len(ArmorRows) + k \in 1..(Len(ArmorRows) + 5)
        /\ ~(Len(ArmorRows) + k <= Len(ArmorRows)) /\ (Len(ArmorRows) + k) - Len(ArmorRows) = k
    BY <1>1
  <2>. QED
    BY <1>8, <2>1
<1>10. ASSUME NEW k \in 1..Len(ArmorRows) PROVE ArmorIds[k] = column[k]
  BY <1>1, <1>8
<1>. QED
  BY <1>1, <1>2, <1>4, <1>6, <1>8, <1>9, <1>10 DEF column

LEMMA LoadedAtOnce == Loaded' <=> LoadBinary
<1>1. /\ SkillRows \in Seq(Int) /\ JewelRows \in Seq(Int)
      /\ Distinct(SkillRows) /\ Distinct(JewelRows) /\ Distinct(ArmorIds)
  BY RowsAssumption, DataAssumption DEF ArmorIds
<1>2. ASSUME NEW ids \in Seq(Int), Distinct(ids)
      PROVE  AddAll(NewTable, ids) = Rows(ids, Len(ids))
  <2>1. /\ Len(ids) \in Nat /\ 0 \in Nat /\ 0 + Len(ids) = Len(ids)
        /\ DOMAIN ids = 1..(0 + Len(ids))
        /\ \A k \in 1..Len(ids) : ids[k] = ids[0 + k]
    OBVIOUS
  <2>2. AddAll(Rows(ids, 0), ids) = Rows(ids, 0 + Len(ids))
    BY <1>2, <2>1, RowsAreAdded
  <2>. QED
    BY <2>1, <2>2, NoRows
<1>3. AddAll(NewTable, Column(ArmorRows, "id")) = Rows(ArmorIds, Len(ArmorRows))
  <2>. DEFINE n == Len(ArmorRows)
              column == Column(ArmorRows, "id")
  <2>. HIDE DEF column
  <2>1. /\ DOMAIN column = 1..n /\ column \in Seq(Int) /\ Len(column) = n
        /\ \A k \in 1..n : ArmorIds[k] = column[k]
        /\ DOMAIN ArmorIds = 1..(n + 5) /\ n \in Nat
    BY ArmorIdsAre DEF column
  <2>2. Distinct(column)
    BY <1>1, <2>1 DEF Distinct
  <2>3. AddAll(NewTable, column) = Rows(column, n)
    BY <1>2, <2>1, <2>2
  <2>4. Rows(column, n) = Rows(ArmorIds, n)
    <3>1. [k \in 1..n |-> column[k]] = [k \in 1..n |-> ArmorIds[k]]
      BY <2>1
    <3>2. Ids(column, n) = Ids(ArmorIds, n)
      BY <2>1 DEF Ids
    <3>3. ASSUME NEW id
          PROVE  RowOf(column, n, id) = RowOf(ArmorIds, n, id)
      BY <2>1 DEF RowOf
    <3>4. [id \in Ids(column, n) |-> RowOf(column, n, id) - 1]
            = [id \in Ids(ArmorIds, n) |-> RowOf(ArmorIds, n, id) - 1]
      BY <3>2, <3>3
    <3>. HIDE DEF n
    <3>. QED
      BY <3>1, <3>4, Zenon DEF Rows
  <2>. QED
    BY <2>3, <2>4 DEF column
<1>4. AddAll(Rows(ArmorIds, Len(ArmorRows)), PredefinedIds) = Rows(ArmorIds, Len(ArmorIds))
  <2>1. /\ PredefinedIds \in Seq(Int) /\ Len(PredefinedIds) = 5
    BY DEF PredefinedIds
  <2>. HIDE DEF PredefinedIds
  <2>2. /\ Len(ArmorRows) \in Nat /\ Len(ArmorIds) = Len(ArmorRows) + Len(PredefinedIds)
        /\ DOMAIN ArmorIds = 1..(Len(ArmorRows) + Len(PredefinedIds))
        /\ \A k \in 1..Len(PredefinedIds) : PredefinedIds[k] = ArmorIds[Len(ArmorRows) + k]
    BY <2>1, ArmorIdsAre
  <2>. QED
    BY <1>1, <2>1, <2>2, RowsAreAdded
<1>. QED
  BY <1>1, <1>2, <1>3, <1>4, Zenon DEF Loaded, LoadBinary

(* Such a table leads from the ids to the rows and back.                   *)
LEMMA RowsLeadBack ==
  ASSUME NEW ids \in Seq(Int), Distinct(ids), NEW table, table = Rows(ids, Len(ids))
  PROVE  LeadBack(table, ids)
<1>. DEFINE n == Len(ids)
<1>1. n \in Nat /\ DOMAIN ids = 1..n
  OBVIOUS
<1>2. /\ table.size = n
      /\ table.map.forward = [k \in 1..n |-> ids[k]]
      /\ table.map.backward = [id \in Ids(ids, n) |-> RowOf(ids, n, id) - 1]
  BY DEF Rows
<1>3. ASSUME NEW k \in 1..n
      PROVE  /\ HasExternalId(table, ids[k]) /\ Internalize(table, ids[k]) = k - 1
             /\ Externalize(table, k - 1) = ids[k]
  <2>1. ids[k] \in Ids(ids, n) /\ RowOf(ids, n, ids[k]) = k
    BY <1>1, RowIsUnique
  <2>2. HasExternalId(table, ids[k]) /\ Internalize(table, ids[k]) = k - 1
    BY <1>2, <2>1 DEF HasExternalId, Internalize
  <2>3. (k - 1) + 1 = k
    OBVIOUS
  <2>4. Externalize(table, k - 1) = ids[k]
    BY <1>2, <2>3 DEF Externalize
  <2>. QED
    BY <2>2, <2>4
<1>. QED
  BY <1>1, <1>2, <1>3, Zenon DEF LeadBack

LEMMA LoadedMeansRows ==
  ASSUME Loaded
  PROVE  LeadBack(skills, SkillRows) /\ LeadBack(jewels, JewelRows) /\ LeadBack(armors, ArmorIds)
BY RowsAssumption, DataAssumption, ArmorIdsAre, RowsLeadBack DEF Loaded, ArmorIds
-----------------------------------------------------------------------------
(* The text: what stands in it, and what the caller reads there.           *)

Words == Pieces \union {"AMULET"}
Names == {"OPEN_PARENTHESIS", "CLOSE_PARENTHESIS", "NUMBER", "KEYWORD"}
Tokens == [name : Names, value : Int \union Words]

(* s stands in t from position p on.                                       *)
Occurs(s, t, p) ==
  /\ p \in Nat \ {0} /\ p + Len(s) <= Len(t) + 1
  /\ \A i \in 1..Len(s) : t[p + i - 1] = s[i]

LEMMA TokensAre ==
  /\ OPEN \in Tokens /\ OPEN.name = "OPEN_PARENTHESIS"
  /\ CLOSE \in Tokens /\ CLOSE.name = "CLOSE_PARENTHESIS"
  /\ \A n \in Int : Number(n) \in Tokens /\ Number(n).name = "NUMBER" /\ Number(n).value = n
  /\ \A w \in Words :
       Keyword(w) \in Tokens /\ Keyword(w).name = "KEYWORD" /\ Keyword(w).value = w
<1>0. /\ "OPEN_PARENTHESIS" \in Names /\ "CLOSE_PARENTHESIS" \in Names
      /\ "NUMBER" \in Names /\ "KEYWORD" \in Names
  BY DEF Names
<1>1. ASSUME NEW name \in Names, NEW value \in Int \union Words
      PROVE  /\ Token(name, value) \in Tokens
             /\ Token(name, value).name = name /\ Token(name, value).value = value
  BY DEF Token, Tokens
<1>2. ASSUME NEW n \in Int
      PROVE  Number(n) \in Tokens /\ Number(n).name = "NUMBER" /\ Number(n).value = n
  <2>1. n \in Int \union Words
    OBVIOUS
  <2>. QED
    BY <1>0, <1>1, <2>1, Zenon DEF Number
<1>3. ASSUME NEW w \in Words
      PROVE  Keyword(w) \in Tokens /\ Keyword(w).name = "KEYWORD" /\ Keyword(w).value = w
  <2>1. w \in Int \union Words
    BY Zenon
  <2>. QED
    BY <1>0, <1>1, <2>1, Zenon DEF Keyword
<1>4. 0 \in Int \union Words
  OBVIOUS
<1>. QED
  BY <1>0, <1>1, <1>2, <1>3, <1>4, Zenon DEF OPEN, CLOSE

(* Two texts one behind the other.                                         *)
LEMMA OccursSplit ==
  ASSUME NEW a \in Seq(Tokens), NEW b \in Seq(Tokens), NEW t \in Seq(Tokens), NEW p \in Nat,
         Occurs(a \o b, t, p)
  PROVE  Occurs(a, t, p) /\ Occurs(b, t, p + Len(a))
<1>1. /\ Len(a) \in Nat /\ Len(b) \in Nat /\ Len(t) \in Nat
      /\ Len(a \o b) = Len(a) + Len(b)
      /\ \A i \in 1..(Len(a) + Len(b)) :
           (a \o b)[i] = IF i <= Len(a) THEN a[i] ELSE b[i - Len(a)]
  BY ConcatProperties
<1>2. ASSUME NEW i \in 1..Len(a) PROVE t[p + i - 1] = a[i]
  BY <1>1 DEF Occurs
<1>3. ASSUME NEW i \in 1..Len(b) PROVE t[(p + Len(a)) + i - 1] = b[i]
  <2>1. /\ Len(a) + i \in 1..(Len(a) + Len(b)) /\ ~(Len(a) + i <= Len(a))
        /\ (Len(a) + i) - Len(a) = i /\ (p + Len(a)) + i - 1 = p + (Len(a) + i) - 1
    BY <1>1
  <2>2. t[p + (Len(a) + i) - 1] = (a \o b)[Len(a) + i]
    BY <1>1, <2>1 DEF Occurs
  <2>. QED
    BY <1>1, <2>1, <2>2
<1>. QED
  BY <1>1, <1>2, <1>3 DEF Occurs

(* More text behind it does not matter.                                    *)
LEMMA OccursBefore ==
  ASSUME NEW a \in Seq(Tokens), NEW t \in Seq(Tokens), NEW u \in Seq(Tokens), NEW p \in Nat,
         Occurs(a, t, p)
  PROVE  Occurs(a, t \o u, p)
<1>1. /\ Len(a) \in Nat /\ Len(u) \in Nat /\ Len(t) \in Nat
      /\ Len(t \o u) = Len(t) + Len(u)
      /\ \A i \in 1..Len(t) : (t \o u)[i] = t[i]
  BY ConcatProperties
<1>. QED
  BY <1>1 DEF Occurs

LEMMA OccursBehind ==
  ASSUME NEW t \in Seq(Tokens), NEW u \in Seq(Tokens)
  PROVE  Occurs(u, t \o u, Len(t) + 1)
<1>1. /\ Len(u) \in Nat /\ Len(t) \in Nat
      /\ Len(t \o u) = Len(t) + Len(u)
      /\ \A i \in 1..(Len(t) + Len(u)) : (t \o u)[i] = IF i <= Len(t) THEN t[i] ELSE u[i - Len(t)]
  BY ConcatProperties
<1>2. ASSUME NEW i \in 1..Len(u) PROVE (t \o u)[(Len(t) + 1) + i - 1] = u[i]
  <2>1. /\ Len(t) + i \in 1..(Len(t) + Len(u)) /\ ~(Len(t) + i <= Len(t))
        /\ (Len(t) + 1) + i - 1 = Len(t) + i /\ (Len(t) + i) - Len(t) = i
    BY <1>1
  <2>. QED
    BY <1>1, <2>1
<1>. QED
  BY <1>1, <1>2 DEF Occurs

(* One token.                                                              *)
LEMMA TokenOccurs ==
  ASSUME NEW x \in Tokens, NEW t \in Seq(Tokens), NEW p, Occurs(<<x>>, t, p)
  PROVE  p \in DOMAIN t /\ t[p] = x
<1>1. Len(<<x>>) = 1 /\ <<x>>[1] = x /\ Len(t) \in Nat /\ DOMAIN t = 1..Len(t)
  OBVIOUS
<1>2. p \in Nat \ {0} /\ p + 1 <= Len(t) + 1 /\ t[p + 1 - 1] = x
  BY <1>1 DEF Occurs
<1>. QED
  BY <1>1, <1>2

(* A list in parentheses is read as it was written, and no further.        *)
LEMMA VectorIsText ==
  ASSUME NEW list \in Seq(Int)
  PROVE  /\ Numbers(list) \in Seq(Tokens) /\ Len(Numbers(list)) = Len(list)
         /\ \A k \in 1..Len(list) : Numbers(list)[k] = Number(list[k])
         /\ WriteVector(list) \in Seq(Tokens) /\ Len(WriteVector(list)) = Len(list) + 2
<1>1. /\ DOMAIN list = 1..Len(list) /\ Len(list) \in Nat
      /\ \A k \in 1..Len(list) : list[k] \in Int
  OBVIOUS
<1>2. \A k \in 1..Len(list) : Number(list[k]) \in Tokens
  BY <1>1, TokensAre
<1>3. Numbers(list) = [k \in 1..Len(list) |-> Number(list[k])]
  BY <1>1 DEF Numbers
<1>4. Numbers(list) \in Seq(Tokens) /\ Len(Numbers(list)) = Len(list)
  BY <1>1, <1>2, <1>3
<1>5. <<OPEN>> \in Seq(Tokens) /\ <<CLOSE>> \in Seq(Tokens) /\ Len(<<OPEN>>) = 1 /\ Len(<<CLOSE>>) = 1
  BY TokensAre
<1>6. <<OPEN>> \o Numbers(list) \in Seq(Tokens) /\ Len(<<OPEN>> \o Numbers(list)) = 1 + Len(list)
  BY <1>4, <1>5, ConcatProperties
<1>7. WriteVector(list) \in Seq(Tokens) /\ Len(WriteVector(list)) = (1 + Len(list)) + 1
  <2>. DEFINE a == <<OPEN>> \o Numbers(list)
  <2>. HIDE DEF a
  <2>1. a \o <<CLOSE>> \in Seq(Tokens) /\ Len(a \o <<CLOSE>>) = (1 + Len(list)) + 1
    BY <1>5, <1>6, ConcatProperties DEF a
  <2>. QED
    BY <2>1 DEF WriteVector, a
<1>. QED
  BY <1>1, <1>3, <1>4, <1>7

LEMMA ListIsRead ==
  ASSUME NEW list \in Seq(Int), NEW t \in Seq(Tokens), NEW p \in Nat,
         Occurs(WriteVector(list), t, p)
  PROVE  /\ ExpectIntegerList(t, p).ok
         /\ ExpectIntegerList(t, p).next = p + Len(WriteVector(list))
         /\ ExpectIntegerList(t, p).list = list
<1>. DEFINE n == Len(list)
            end == p + n + 1
<1>1. n \in Nat /\ Len(t) \in Nat /\ DOMAIN t = 1..Len(t) /\ DOMAIN list = 1..n
  OBVIOUS
<1>2. /\ Occurs(<<OPEN>> \o Numbers(list), t, p)
      /\ Occurs(<<CLOSE>>, t, p + Len(<<OPEN>> \o Numbers(list)))
  <2>1. <<OPEN>> \in Seq(Tokens) /\ <<CLOSE>> \in Seq(Tokens)
    BY TokensAre
  <2>2. <<OPEN>> \o Numbers(list) \in Seq(Tokens)
    BY <2>1, VectorIsText, ConcatProperties
  <2>. DEFINE a == <<OPEN>> \o Numbers(list)
  <2>3. Occurs(a \o <<CLOSE>>, t, p)
    BY DEF WriteVector
  <2>. HIDE DEF a
  <2>4. Occurs(a, t, p) /\ Occurs(<<CLOSE>>, t, p + Len(a))
    BY <2>1, <2>2, <2>3, OccursSplit DEF a
  <2>. QED
    BY <2>4 DEF a
<1>3. Len(<<OPEN>> \o Numbers(list)) = 1 + n
  BY TokensAre, VectorIsText, ConcatProperties
<1>4. Occurs(Numbers(list), t, p + 1)
  <2>1. <<OPEN>> \in Seq(Tokens) /\ Len(<<OPEN>>) = 1
    BY TokensAre
  <2>. QED
    BY <1>2, <2>1, VectorIsText, OccursSplit
<1>5. TokenAt(t, end, "CLOSE_PARENTHESIS") /\ ~TokenAt(t, end, "NUMBER") /\ end <= Len(t)
  <2>1. Occurs(<<CLOSE>>, t, end)
    <3>1. p + (1 + n) = end
      BY <1>1
    <3>. QED
      BY <1>2, <1>3, <3>1
  <2>2. end \in DOMAIN t /\ t[end] = CLOSE
    BY <2>1, TokensAre, TokenOccurs
  <2>. QED
    BY <1>1, <2>2, TokensAre DEF TokenAt
<1>6. ASSUME NEW k \in 1..n
      PROVE  TokenAt(t, p + k, "NUMBER") /\ t[p + k].value = list[k]
  <2>1. (p + 1) + k - 1 = p + k /\ p + k \in 1..Len(t)
    BY <1>1, <1>5
  <2>2. t[p + k] = Number(list[k])
    BY <1>4, <2>1, VectorIsText DEF Occurs
  <2>3. list[k] \in Int
    BY <1>1
  <2>. QED
    BY <1>1, <2>1, <2>2, <2>3, TokensAre DEF TokenAt
<1>7. ListEnd(t, p) = end
  <2>. DEFINE Ends(q) == /\ ~TokenAt(t, q, "NUMBER")
                         /\ \A r \in (p + 1)..(q - 1) : TokenAt(t, r, "NUMBER")
  <2>1. end \in (p + 1)..(Len(t) + 1)
    BY <1>1, <1>5
  <2>2. ASSUME NEW r \in (p + 1)..(end - 1) PROVE TokenAt(t, r, "NUMBER")
    <3>1. r - p \in 1..n /\ p + (r - p) = r
      BY <1>1
    <3>2. TokenAt(t, p + (r - p), "NUMBER")
      BY <1>6, <3>1
    <3>. QED
      BY <3>1, <3>2
  <2>3. Ends(end)
    BY <1>5, <2>2
  <2>4. ASSUME NEW q \in (p + 1)..(Len(t) + 1), Ends(q) PROVE q = end
    <3>1. CASE q < end
      BY <1>1, <2>2, <2>4, <3>1
    <3>2. CASE end < q
      <4>1. end \in (p + 1)..(q - 1)
        BY <1>1, <2>1, <3>2
      <4>. QED
        BY <1>5, <2>4, <4>1
    <3>. QED
      BY <1>1, <3>1, <3>2
  <2>5. ListEnd(t, p) = CHOOSE q \in (p + 1)..(Len(t) + 1) : Ends(q)
    BY DEF ListEnd
  <2>. HIDE DEF Ends
  <2>. QED
    BY <2>1, <2>3, <2>4, <2>5
<1>. HIDE DEF end
<1>8. /\ ExpectIntegerList(t, p).ok <=> TokenAt(t, end, "CLOSE_PARENTHESIS")
      /\ ExpectIntegerList(t, p).next = end + 1
      /\ ExpectIntegerList(t, p).list = [k \in 1..(end - p - 1) |-> t[p + k].value]
  BY <1>7 DEF ExpectIntegerList
<1>. USE DEF end
<1>9. end - p - 1 = n /\ end + 1 = p + (n + 2)
  BY <1>1
<1>10. [k \in 1..n |-> t[p + k].value] = list
  <2>1. list = [k \in 1..n |-> list[k]]
    BY <1>1
  <2>. QED
    BY <1>6, <2>1
<1>. QED
  BY <1>5, <1>8, <1>9, <1>10, VectorIsText

(* Where s stands in t at p there is a keyword, and read, what is parsed   *)
(* behind it, is piece and ends where s ends.                              *)
Yields(s, t, p, word, read, piece) ==
  /\ s \in Seq(Tokens)
  /\ Occurs(s, t, p) =>
       /\ TokenAt(t, p, "KEYWORD") /\ t[p].value = word
       /\ read.ok /\ read.next = p + Len(s) /\ read.piece = piece

(* A weapon or an armor piece is read as it was written.                   *)
LEMMA PieceIsRead ==
  ASSUME NEW w \in Words, NEW id \in Int, NEW list \in Seq(Int),
         NEW t \in Seq(Tokens), NEW p \in Nat
  PROVE  Yields(WritePiece(w, id, list), t, p, w, ParsePiece(t, p + 1),
                [id |-> id, jewels |-> list])
<1>. DEFINE head == <<Keyword(w), OPEN, Number(id)>>
            vector == WriteVector(list)
            s == WritePiece(w, id, list)
            read == ParsePiece(t, p + 1)
            jewel == ExpectIntegerList(t, p + 3)
<1>1. head \in Seq(Tokens) /\ Len(head) = 3
  BY TokensAre
<1>2. head[1] = Keyword(w) /\ head[3] = Number(id)
  OBVIOUS
<1>3. <<CLOSE>> \in Seq(Tokens) /\ Len(<<CLOSE>>) = 1 /\ <<CLOSE>>[1] = CLOSE
  BY TokensAre
<1>4. vector \in Seq(Tokens) /\ Len(vector) \in Nat
  BY VectorIsText
<1>5. s = (head \o vector) \o <<CLOSE>>
  BY DEF WritePiece
<1>. HIDE DEF head, vector, s
<1>6. head \o vector \in Seq(Tokens) /\ Len(head \o vector) = 3 + Len(vector)
  <2>1. head \o vector \in Seq(Tokens) /\ Len(head \o vector) = Len(head) + Len(vector)
    BY <1>1, <1>4, ConcatProperties
  <2>. QED
    BY <1>1, <2>1
<1>7. s \in Seq(Tokens) /\ Len(s) = 3 + Len(vector) + 1
  BY <1>3, <1>4, <1>5, <1>6, ConcatProperties
<1>8. ASSUME Occurs(s, t, p)
      PROVE  /\ TokenAt(t, p, "KEYWORD") /\ t[p].value = w
             /\ read.ok /\ read.next = p + Len(s)
             /\ read.piece = [id |-> id, jewels |-> list]
  <2>1. Occurs(head \o vector, t, p) /\ Occurs(<<CLOSE>>, t, p + Len(head \o vector))
    BY <1>3, <1>5, <1>6, <1>8, OccursSplit
  <2>2. Occurs(head, t, p) /\ Occurs(vector, t, p + 3)
    BY <1>1, <1>4, <2>1, OccursSplit
  <2>3. /\ p \in DOMAIN t /\ t[p] = Keyword(w)
        /\ p + 2 \in DOMAIN t /\ t[p + 2] = Number(id)
    <3>1. p \in Nat \ {0} /\ p + 3 <= Len(t) + 1 /\ t[p + 1 - 1] = head[1] /\ t[p + 3 - 1] = head[3]
      BY <1>1, <2>2 DEF Occurs
    <3>2. DOMAIN t = 1..Len(t) /\ p + 1 - 1 = p /\ p + 3 - 1 = p + 2 /\ Len(t) \in Nat
      OBVIOUS
    <3>3. p \in 1..Len(t) /\ p + 2 \in 1..Len(t)
      BY <3>1, <3>2
    <3>. QED
      BY <1>2, <3>1, <3>2, <3>3
  <2>4. jewel.ok /\ jewel.next = (p + 3) + Len(vector) /\ jewel.list = list
    <3>1. p + 3 \in Nat
      OBVIOUS
    <3>. QED
      BY <2>2, <3>1, ListIsRead DEF vector
  <2>5. TokenAt(t, jewel.next, "CLOSE_PARENTHESIS")
    <3>1. Occurs(<<CLOSE>>, t, jewel.next)
      <4>1. p + Len(head \o vector) = jewel.next
        BY <1>4, <1>6, <2>4
      <4>. QED
        BY <2>1, <4>1
    <3>2. jewel.next \in DOMAIN t /\ t[jewel.next] = CLOSE
      BY <3>1, TokensAre, TokenOccurs
    <3>. QED
      BY <3>2, TokensAre DEF TokenAt
  <2>. HIDE DEF jewel
  <2>6. (p + 1) + 1 = p + 2 /\ (p + 1) + 2 = p + 3
    OBVIOUS
  <2>7. /\ read.ok <=> /\ TokenAt(t, p + 2, "NUMBER") /\ jewel.ok
                       /\ TokenAt(t, jewel.next, "CLOSE_PARENTHESIS")
        /\ read.next = jewel.next + 1
        /\ read.piece = [id |-> t[p + 2].value, jewels |-> jewel.list]
    BY <2>6 DEF ParsePiece, jewel
  <2>8. TokenAt(t, p + 2, "NUMBER") /\ t[p + 2].value = id
    BY <2>3, TokensAre DEF TokenAt
  <2>9. TokenAt(t, p, "KEYWORD") /\ t[p].value = w
    BY <2>3, TokensAre DEF TokenAt
  <2>10. read.next = p + Len(s)
    BY <1>4, <1>7, <2>4, <2>7
  <2>. HIDE DEF read
  <2>. QED
    BY <2>4, <2>5, <2>7, <2>8, <2>9, <2>10
<1>. QED
  BY <1>7, <1>8, Zenon DEF Yields, s

(* So is an amulet, of which the first two effects are kept.               *)
LEMMA AmuletIsRead ==
  ASSUME NEW effects \in Seq(Int), NEW list \in Seq(Int),
         NEW t \in Seq(Tokens), NEW p \in Nat
  PROVE  Yields(WriteAmulet(effects, list), t, p, "AMULET", ParseAmulet(t, p + 1),
                [effects |-> EffectPairs(effects), jewels |-> list])
<1>. DEFINE head == <<Keyword("AMULET"), OPEN>>
            effect == WriteVector(effects)
            vector == WriteVector(list)
            s == WriteAmulet(effects, list)
            read == ParseAmulet(t, p + 1)
            first == ExpectIntegerList(t, p + 2)
            second == ExpectIntegerList(t, p + 2 + Len(effect))
<1>0. "AMULET" \in Words
  BY DEF Words
<1>1. head \in Seq(Tokens) /\ Len(head) = 2
  BY <1>0, TokensAre
<1>2. head[1] = Keyword("AMULET")
  OBVIOUS
<1>3. <<CLOSE>> \in Seq(Tokens) /\ Len(<<CLOSE>>) = 1 /\ <<CLOSE>>[1] = CLOSE
  BY TokensAre
<1>4. /\ effect \in Seq(Tokens) /\ Len(effect) \in Nat
      /\ vector \in Seq(Tokens) /\ Len(vector) \in Nat
  BY VectorIsText
<1>5. s = ((head \o effect) \o vector) \o <<CLOSE>>
  BY DEF WriteAmulet
<1>. HIDE DEF head, effect, vector, s
<1>6. head \o effect \in Seq(Tokens) /\ Len(head \o effect) = 2 + Len(effect)
  <2>1. head \o effect \in Seq(Tokens) /\ Len(head \o effect) = Len(head) + Len(effect)
    BY <1>1, <1>4, ConcatProperties
  <2>. QED
    BY <1>1, <2>1
<1>. DEFINE front == (head \o effect) \o vector
<1>7. front \in Seq(Tokens) /\ Len(front) = 2 + Len(effect) + Len(vector)
  <2>1. front \in Seq(Tokens) /\ Len(front) = Len(head \o effect) + Len(vector)
    BY <1>4, <1>6, ConcatProperties
  <2>. QED
    BY <1>6, <2>1
<1>8. s \in Seq(Tokens) /\ Len(s) = 2 + Len(effect) + Len(vector) + 1
  <2>. HIDE DEF front
  <2>1. front \o <<CLOSE>> \in Seq(Tokens)
        /\ Len(front \o <<CLOSE>>) = Len(front) + Len(<<CLOSE>>)
    BY <1>3, <1>7, ConcatProperties
  <2>. QED
    BY <1>3, <1>5, <1>7, <2>1 DEF front
<1>9. ASSUME Occurs(s, t, p)
      PROVE  /\ TokenAt(t, p, "KEYWORD") /\ t[p].value = "AMULET"
             /\ read.ok /\ read.next = p + Len(s)
             /\ read.piece = [effects |-> EffectPairs(effects), jewels |-> list]
  <2>1. Occurs(front, t, p) /\ Occurs(<<CLOSE>>, t, p + Len(front))
    <3>1. s = front \o <<CLOSE>>
      BY <1>5
    <3>. HIDE DEF front
    <3>. QED
      BY <1>3, <1>7, <1>9, <3>1, OccursSplit
  <2>2. Occurs(head \o effect, t, p) /\ Occurs(vector, t, p + 2 + Len(effect))
    <3>1. p + Len(head \o effect) = p + 2 + Len(effect)
      BY <1>4, <1>6
    <3>2. Occurs(head \o effect, t, p) /\ Occurs(vector, t, p + Len(head \o effect))
      BY <1>4, <1>6, <2>1, OccursSplit
    <3>. QED
      BY <3>1, <3>2
  <2>3. Occurs(head, t, p) /\ Occurs(effect, t, p + 2)
    BY <1>1, <1>4, <2>2, OccursSplit
  <2>4. p \in DOMAIN t /\ t[p] = Keyword("AMULET")
    <3>1. p \in Nat \ {0} /\ p + 2 <= Len(t) + 1 /\ t[p + 1 - 1] = head[1]
      BY <1>1, <2>3 DEF Occurs
    <3>2. DOMAIN t = 1..Len(t) /\ p + 1 - 1 = p /\ Len(t) \in Nat
      OBVIOUS
    <3>3. p \in 1..Len(t)
      BY <3>1, <3>2
    <3>. QED
      BY <1>2, <3>1, <3>2, <3>3
  <2>5. first.ok /\ first.next = p + 2 + Len(effect) /\ first.list = effects
    <3>1. p + 2 \in Nat
      OBVIOUS
    <3>. QED
      BY <2>3, <3>1, ListIsRead DEF effect
  <2>6. second.ok /\ second.next = p + 2 + Len(effect) + Len(vector) /\ second.list = list
    <3>1. p + 2 + Len(effect) \in Nat
      BY <1>4
    <3>. HIDE DEF effect
    <3>. QED
      BY <2>2, <3>1, ListIsRead DEF vector
  <2>7. TokenAt(t, second.next, "CLOSE_PARENTHESIS")
    <3>1. p + Len(front) = second.next
      BY <1>4, <1>7, <2>6
    <3>. HIDE DEF front, second
    <3>2. Occurs(<<CLOSE>>, t, second.next)
      BY <2>1, <3>1
    <3>3. second.next \in DOMAIN t /\ t[second.next] = CLOSE
      BY <3>2, TokensAre, TokenOccurs
    <3>. QED
      BY <3>3, TokensAre DEF TokenAt
  <2>8. /\ read.ok <=> first.ok /\ second.ok /\ TokenAt(t, second.next, "CLOSE_PARENTHESIS")
        /\ read.next = second.next + 1
        /\ read.piece = [effects |-> EffectPairs(first.list), jewels |-> second.list]
    <3>1. (p + 1) + 1 = p + 2
      OBVIOUS
    <3>2. second = ExpectIntegerList(t, first.next)
      BY <2>5
    <3>. HIDE DEF second
    <3>. QED
      BY <3>1, <3>2 DEF ParseAmulet
  <2>9. TokenAt(t, p, "KEYWORD") /\ t[p].value = "AMULET"
    BY <1>0, <2>4, TokensAre DEF TokenAt
  <2>. HIDE DEF first, second, read
  <2>10. read.next = p + Len(s)
    BY <1>4, <1>8, <2>6, <2>8
  <2>. QED
    BY <2>5, <2>6, <2>7, <2>8, <2>9, <2>10
<1>. QED
  BY <1>8, <1>9, Zenon DEF Yields, s
-----------------------------------------------------------------------------
(* What is written of a set, and what the caller is to see of it, from the *)
(* query and the rows of the dataset alone.                                *)

Readable == { q \in Queries : q.readable }

(* The sets a search for q may find.                                       *)
Findable(q) ==
  { set \in [ids : [Words -> Int], jewels : [Words -> Seq(0..(Len(JewelRows) - 1))]] :
      /\ set.ids["GEAR"] = WeaponId(q.slots)
      /\ \/ set.ids["AMULET"] = EmptyAmulet
         \/ \E k \in DOMAIN q.amulets : set.ids["AMULET"] = EmptyAmulet + k
      /\ \A part \in Words \ {"GEAR", "AMULET"} : set.ids[part] \in 0..(Len(ArmorRows) - 1) }

AmuletOf(q, id) ==
  IF id = EmptyAmulet THEN << >> ELSE q.amulets[id - Len(ArmorRows) - 4]

(* The effects that are whole: an odd number at the end is not read.       *)
Whole(list) == [k \in 1..(2 * (Len(list) \div 2)) |-> list[k]]

JewelsOf(set, part) ==
  [k \in DOMAIN set.jewels[part] |-> JewelRows[set.jewels[part][k] + 1]]

Spelled(q, set, part) ==
  IF part = "GEAR" THEN WritePiece(part, q.slots, JewelsOf(set, part))
  ELSE IF part = "AMULET"
       THEN WriteAmulet(Whole(AmuletOf(q, set.ids[part])), JewelsOf(set, part))
       ELSE WritePiece(part, ArmorRows[set.ids[part] + 1].id, JewelsOf(set, part))

Seen(q, set) ==
  [part \in Words |->
     IF part = "AMULET"
     THEN [effects |-> Pairs(AmuletOf(q, set.ids[part])), jewels |-> JewelsOf(set, part)]
     ELSE IF part = "GEAR"
          THEN [id |-> q.slots, jewels |-> JewelsOf(set, part)]
          ELSE [id |-> ArmorRows[set.ids[part] + 1].id, jewels |-> JewelsOf(set, part)]]

LEMMA ReadableIs ==
  ASSUME NEW q \in Readable
  PROVE  /\ q.slots \in 0..3 /\ q.amulets \in Seq(Seq(Int))
         /\ \A a \in DOMAIN q.amulets :
              /\ q.amulets[a] \in Seq(Int)
              /\ \A k \in 1..(2 * (Len(q.amulets[a]) \div 2)) :
                   k % 2 = 1 => \E i \in DOMAIN SkillRows : SkillRows[i] = q.amulets[a][k]
<1>1. q \in Queries /\ q.readable
  BY DEF Readable
<1>2. /\ q.slots \in 0..3 /\ q.amulets \in Seq(Seq(Int))
      /\ \A a \in DOMAIN q.amulets : \A k \in 1..(2 * (Len(q.amulets[a]) \div 2)) :
           k % 2 = 1 => \E i \in DOMAIN SkillRows : SkillRows[i] = q.amulets[a][k]
  BY <1>1, DataAssumption, Zenon
<1>3. ASSUME NEW a \in DOMAIN q.amulets PROVE q.amulets[a] \in Seq(Int)
  <2>1. a \in 1..Len(q.amulets)
    BY <1>2
  <2>. QED
    BY <1>2, <2>1, ElementOfSeq
<1>. QED
  BY <1>2, <1>3, Zenon

LEMMA FindableIs ==
  ASSUME NEW q \in Readable, NEW set \in Findable(q)
  PROVE  /\ \A part \in Words : /\ set.ids[part] \in Int
                                /\ set.jewels[part] \in Seq(0..(Len(JewelRows) - 1))
                                /\ JewelsOf(set, part) \in Seq(Int)
         /\ AmuletOf(q, set.ids["AMULET"]) \in Seq(Int)
         /\ Whole(AmuletOf(q, set.ids["AMULET"])) \in Seq(Int)
         /\ \A part \in Words \ {"GEAR", "AMULET"} :
              /\ set.ids[part] + 1 \in 1..Len(ArmorRows)
              /\ ArmorRows[set.ids[part] + 1].id \in Int
<1>1. \A part \in Words : /\ set.ids[part] \in Int
                          /\ set.jewels[part] \in Seq(0..(Len(JewelRows) - 1))
  <2>1. set.ids \in [Words -> Int] /\ set.jewels \in [Words -> Seq(0..(Len(JewelRows) - 1))]
    BY DEF Findable
  <2>. QED
    BY <2>1
<1>2. ASSUME NEW part \in Words PROVE JewelsOf(set, part) \in Seq(Int)
  <2>. DEFINE list == set.jewels[part]
  <2>1. list \in Seq(0..(Len(JewelRows) - 1)) /\ JewelRows \in Seq(Int)
    BY <1>1, DataAssumption
  <2>. HIDE DEF list
  <2>2. /\ DOMAIN list = 1..Len(list) /\ Len(list) \in Nat
        /\ \A k \in 1..Len(list) : list[k] \in 0..(Len(JewelRows) - 1)
        /\ Len(JewelRows) \in Nat /\ \A k \in 1..Len(JewelRows) : JewelRows[k] \in Int
    BY <2>1
  <2>3. \A k \in 1..Len(list) : JewelRows[list[k] + 1] \in Int
    BY <2>2
  <2>. QED
    BY <2>2, <2>3 DEF JewelsOf, list
<1>3. AmuletOf(q, set.ids["AMULET"]) \in Seq(Int)
  <2>1. CASE set.ids["AMULET"] = EmptyAmulet
    BY <2>1 DEF AmuletOf
  <2>2. CASE set.ids["AMULET"] # EmptyAmulet
    <3>1. PICK k \in DOMAIN q.amulets : set.ids["AMULET"] = EmptyAmulet + k
      BY <2>2 DEF Findable
    <3>2. Len(ArmorRows) \in Nat
      BY ArmorIdsAre
    <3>4. q.amulets \in Seq(Seq(Int)) /\ q.amulets[k] \in Seq(Int)
      BY ReadableIs
    <3>5. k \in Nat
      BY <3>4
    <3>3. set.ids["AMULET"] - Len(ArmorRows) - 4 = k
      BY <3>1, <3>2, <3>5 DEF EmptyAmulet
    <3>. QED
      BY <2>2, <3>3, <3>4 DEF AmuletOf
  <2>. QED
    BY <2>1, <2>2
<1>4. Whole(AmuletOf(q, set.ids["AMULET"])) \in Seq(Int)
  <2>. DEFINE list == AmuletOf(q, set.ids["AMULET"])
  <2>. HIDE DEF list
  <2>1. list \in Seq(Int)
    BY <1>3 DEF list
  <2>2. 2 * (Len(list) \div 2) \in Nat /\ 2 * (Len(list) \div 2) <= Len(list)
    BY <2>1
  <2>. QED
    BY <2>1, <2>2 DEF Whole, list
<1>5. ASSUME NEW part \in Words \ {"GEAR", "AMULET"}
      PROVE  set.ids[part] + 1 \in 1..Len(ArmorRows) /\ ArmorRows[set.ids[part] + 1].id \in Int
  <2>1. set.ids[part] \in 0..(Len(ArmorRows) - 1)
    BY DEF Findable
  <2>2. Len(ArmorRows) \in Nat /\ \A k \in 1..Len(ArmorRows) : ArmorRows[k].id \in Int
    BY ArmorIdsAre
  <2>3. set.ids[part] + 1 \in 1..Len(ArmorRows)
    BY <2>1, <2>2
  <2>. QED
    BY <2>2, <2>3
<1>. QED
  BY <1>1, <1>2, <1>3, <1>4, <1>5

(* What a search can find is of this shape.                                *)
LEMMA CandidatesAreFindable ==
  ASSUME Loaded, NEW q \in Readable
  PROVE  Candidates(q.slots, InitializeArsenal(q.amulets)) \subseteq Findable(q)
<1>1. armors.size = Len(ArmorRows) + 5 /\ Len(ArmorRows) \in Nat /\ q.slots \in 0..3
      /\ DOMAIN InitializeArsenal(q.amulets) = DOMAIN q.amulets
  BY ArmorIdsAre, ReadableIs DEF Loaded, Rows, InitializeArsenal
<1>2. DOMAIN q.amulets \subseteq Nat
  <2>1. q.amulets \in Seq(Seq(Int))
    BY ReadableIs
  <2>. QED
    BY <2>1
<1>3. ASSUME NEW part PROVE ArmorsOf(part) \subseteq 0..(Len(ArmorRows) - 1)
  <2>1. DOMAIN ArmorRows = 1..Len(ArmorRows)
    BY DataAssumption
  <2>. QED
    BY <1>1, <2>1 DEF ArmorsOf
<1>4. ASSUME NEW set \in Candidates(q.slots, InitializeArsenal(q.amulets))
      PROVE  set \in Findable(q)
  <2>. DEFINE amulets == InitializeArsenal(q.amulets)
  <2>1. PICK amulet \in {EmptyAmulet} \union {armors.size + k - 1 : k \in DOMAIN amulets} :
          \E worn \in Outfits : \E where \in {"BODY", "AMULET"} : \E list \in Jewelry :
            set = [ids |-> IdsOf(q.slots, amulet, worn), jewels |-> JewelsIn(where, list)]
    BY DEF Candidates
  <2>2. PICK worn \in Outfits, where \in {"BODY", "AMULET"}, list \in Jewelry :
          set = [ids |-> IdsOf(q.slots, amulet, worn), jewels |-> JewelsIn(where, list)]
    BY <2>1
  <2>. DEFINE ids == IdsOf(q.slots, amulet, worn)
              jewelry == JewelsIn(where, list)
  <2>3. amulet = EmptyAmulet \/ \E k \in DOMAIN q.amulets : amulet = EmptyAmulet + k
    <3>1. CASE amulet \in {armors.size + k - 1 : k \in DOMAIN amulets}
      <4>1. PICK k \in DOMAIN q.amulets : amulet = armors.size + k - 1
        BY <1>1, <3>1
      <4>2. (Len(ArmorRows) + 5) + k - 1 = (Len(ArmorRows) + 4) + k
        BY <1>1, <1>2
      <4>. QED
        BY <1>1, <4>1, <4>2 DEF EmptyAmulet
    <3>. QED
      BY <3>1
  <2>4. amulet \in Int
    BY <1>1, <1>2, <2>3 DEF EmptyAmulet
  <2>5. \A part \in Pieces \ {"GEAR"} : worn[part] \in 0..(Len(ArmorRows) - 1)
    <3>1. /\ worn["HEAD"] \in ArmorsOf("HEAD") /\ worn["ARMS"] \in ArmorsOf("ARMS")
          /\ worn["WAIST"] \in ArmorsOf("WAIST") /\ worn["LEGS"] \in ArmorsOf("LEGS")
          /\ worn["BODY"] \in ArmorsOf("BODY")
      BY DEF Outfits
    <3>. QED
      BY <1>3, <3>1 DEF Pieces
  <2>6. ids["AMULET"] = amulet /\ ids["GEAR"] = WeaponId(q.slots)
    BY DEF IdsOf, Pieces
  <2>7. ASSUME NEW part \in Words \ {"GEAR", "AMULET"}
        PROVE  ids[part] \in 0..(Len(ArmorRows) - 1)
    <3>1. part \in Pieces \ {"GEAR"}
      BY DEF Words
    <3>2. ids[part] = worn[part]
      BY <3>1 DEF IdsOf, Pieces
    <3>. QED
      BY <2>5, <3>1, <3>2
  <2>8. ids = [part \in Words |-> ids[part]]
    BY DEF IdsOf, Words
  <2>9. jewelry = [part \in Words |-> IF part = where THEN list ELSE << >>]
    BY DEF JewelsIn, Words
  <2>10. list \in Seq(0..(Len(JewelRows) - 1))
    BY DataAssumption
  <2>11. jewelry \in [Words -> Seq(0..(Len(JewelRows) - 1))]
    <3>1. << >> \in Seq(0..(Len(JewelRows) - 1))
      OBVIOUS
    <3>2. \A part \in Words : (IF part = where THEN list ELSE << >>) \in Seq(0..(Len(JewelRows) - 1))
      BY <2>10, <3>1, Zenon
    <3>. HIDE DEF jewelry
    <3>. QED
      BY <2>9, <3>2
  <2>12. WeaponId(q.slots) \in Int
    BY <1>1 DEF WeaponId
  <2>. HIDE DEF ids, jewelry
  <2>13. ids \in [Words -> Int]
    <3>1. \A part \in Words : ids[part] \in Int
      BY <1>1, <2>4, <2>6, <2>7, <2>12
    <3>. QED
      BY <2>8, <3>1
  <2>14. set = [ids |-> ids, jewels |-> jewelry]
    BY <2>2 DEF ids, jewelry
  <2>. QED
    BY <2>3, <2>6, <2>7, <2>11, <2>13, <2>14 DEF Findable
<1>. QED
  BY <1>4

(* A list whose every other number is the id of a skill leads back to      *)
(* itself through the table.                                               *)
LEMMA EffectsLeadBack ==
  ASSUME Loaded, NEW list \in Seq(Int),
         \A k \in 1..(2 * (Len(list) \div 2)) :
           k % 2 = 1 => \E i \in DOMAIN SkillRows : SkillRows[i] = list[k]
  PROVE  ExternalEffects(InternalEffects(list)) = Whole(list)
<1>. DEFINE n == 2 * (Len(list) \div 2)
            inner == InternalEffects(list)
<1>1. DOMAIN inner = 1..n
  BY DEF InternalEffects
<1>2. ASSUME NEW k \in 1..n
      PROVE  (IF k % 2 = 1 THEN Externalize(skills, inner[k]) ELSE inner[k]) = list[k]
  <2>1. inner[k] = IF k % 2 = 1 THEN Internalize(skills, list[k]) ELSE list[k]
    BY DEF InternalEffects
  <2>2. CASE k % 2 = 1
    <3>1. PICK i \in DOMAIN SkillRows : SkillRows[i] = list[k]
      BY <2>2
    <3>2. Internalize(skills, SkillRows[i]) = i - 1 /\ Externalize(skills, i - 1) = SkillRows[i]
      BY LoadedMeansRows DEF LeadBack
    <3>. HIDE DEF inner
    <3>. QED
      BY <2>1, <2>2, <3>1, <3>2
  <2>. HIDE DEF inner
  <2>. QED
    BY <2>1, <2>2
<1>. HIDE DEF inner
<1>. QED
  BY <1>1, <1>2 DEF ExternalEffects, Whole, inner

(* The formatter writes what the dataset and the query say, not the ids of *)
(* the tables.                                                             *)
LEMMA SpelledIsWritten ==
  ASSUME Loaded, NEW q \in Readable, NEW set \in Findable(q), NEW part \in Words
  PROVE  WriteArmor(InitializeArsenal(q.amulets), set, part) = Spelled(q, set, part)
<1>. DEFINE amulets == InitializeArsenal(q.amulets)
            id == set.ids[part]
<1>1. ExternalJewels(set.jewels[part]) = JewelsOf(set, part)
  <2>. DEFINE list == set.jewels[part]
  <2>1. list \in Seq(0..(Len(JewelRows) - 1))
    BY FindableIs
  <2>2. JewelRows \in Seq(Int)
    BY DataAssumption
  <2>. HIDE DEF list
  <2>3. ASSUME NEW k \in DOMAIN list PROVE Externalize(jewels, list[k]) = JewelRows[list[k] + 1]
    <3>1. list[k] \in 0..(Len(JewelRows) - 1) /\ Len(JewelRows) \in Nat
          /\ DOMAIN JewelRows = 1..Len(JewelRows)
      BY <2>1, <2>2
    <3>2. list[k] + 1 \in DOMAIN JewelRows /\ (list[k] + 1) - 1 = list[k]
      BY <3>1
    <3>3. Externalize(jewels, (list[k] + 1) - 1) = JewelRows[list[k] + 1]
      BY <3>2, LoadedMeansRows DEF LeadBack
    <3>. QED
      BY <3>2, <3>3
  <2>. QED
    BY <2>3 DEF ExternalJewels, JewelsOf, list
<1>2. CASE part = "GEAR"
  <2>1. id - Len(ArmorRows) = q.slots
    <3>1. Len(ArmorRows) \in Nat /\ q.slots \in 0..3
      BY ArmorIdsAre, ReadableIs
    <3>2. id = Len(ArmorRows) + q.slots
      BY <1>2 DEF Findable, WeaponId
    <3>. QED
      BY <3>1, <3>2
  <2>2. WriteArmor(amulets, set, part)
          = WritePiece(part, id - Len(ArmorRows), ExternalJewels(set.jewels[part]))
    BY <1>2 DEF WriteArmor
  <2>. QED
    BY <1>1, <1>2, <2>1, <2>2 DEF Spelled
<1>3. CASE part = "AMULET"
  <2>1. ExternalEffects(AmuletEffects(amulets, id)) = Whole(AmuletOf(q, id))
    <3>0. Len(ArmorRows) \in Nat /\ armors.size = Len(ArmorRows) + 5
      BY ArmorIdsAre DEF Loaded, Rows
    <3>1. CASE id = EmptyAmulet
      <4>1. AmuletEffects(amulets, id) = << >> /\ AmuletOf(q, id) = << >>
        BY <3>1 DEF AmuletEffects, AmuletOf
      <4>2. ExternalEffects(<< >>) = << >> /\ Whole(<< >>) = << >>
        BY DEF ExternalEffects, Whole
      <4>. QED
        BY <4>1, <4>2
    <3>2. CASE id # EmptyAmulet
      <4>1. PICK k \in DOMAIN q.amulets : id = EmptyAmulet + k
        BY <1>3, <3>2 DEF Findable
      <4>2. q.amulets \in Seq(Seq(Int))
        BY ReadableIs
      <4>3. k \in Nat
        BY <4>2
      <4>4. id - armors.size + 1 = k /\ id - Len(ArmorRows) - 4 = k
        BY <3>0, <4>1, <4>3 DEF EmptyAmulet
      <4>5. amulets[k] = InternalEffects(q.amulets[k])
        BY DEF InitializeArsenal
      <4>6. AmuletEffects(amulets, id) = InternalEffects(q.amulets[k])
        BY <3>2, <4>4, <4>5, Zenon DEF AmuletEffects
      <4>7. AmuletOf(q, id) = q.amulets[k]
        BY <3>2, <4>4, Zenon DEF AmuletOf
      <4>8. /\ q.amulets[k] \in Seq(Int)
            /\ \A j \in 1..(2 * (Len(q.amulets[k]) \div 2)) :
                 j % 2 = 1 => \E i \in DOMAIN SkillRows : SkillRows[i] = q.amulets[k][j]
        BY ReadableIs, Zenon
      <4>9. ExternalEffects(InternalEffects(q.amulets[k])) = Whole(q.amulets[k])
        BY <4>8, EffectsLeadBack
      <4>. QED
        BY <4>6, <4>7, <4>9, Zenon
    <3>. QED
      BY <3>1, <3>2
  <2>2. WriteArmor(amulets, set, part)
          = WriteAmulet(ExternalEffects(AmuletEffects(amulets, id)), ExternalJewels(set.jewels[part]))
    BY <1>3 DEF WriteArmor
  <2>. QED
    BY <1>1, <1>3, <2>1, <2>2, Zenon DEF Spelled
<1>4. CASE part # "GEAR" /\ part # "AMULET"
  <2>1. Externalize(armors, id) = ArmorRows[id + 1].id
    <3>1. /\ ArmorIds \in Seq(Int) /\ Len(ArmorIds) = Len(ArmorRows) + 5
          /\ Len(ArmorRows) \in Nat /\ id + 1 \in 1..Len(ArmorRows) /\ id \in Int
      BY <1>4, ArmorIdsAre, FindableIs
    <3>2. id + 1 \in DOMAIN ArmorIds /\ (id + 1) - 1 = id
      BY <3>1
    <3>3. Externalize(armors, (id + 1) - 1) = ArmorIds[id + 1]
      BY <3>2, LoadedMeansRows DEF LeadBack
    <3>4. ArmorIds[id + 1] = ArmorRows[id + 1].id
      BY <3>1, ArmorIdsAre
    <3>. QED
      BY <3>2, <3>3, <3>4
  <2>2. WriteArmor(amulets, set, part)
          = WritePiece(part, Externalize(armors, id), ExternalJewels(set.jewels[part]))
    BY <1>4 DEF WriteArmor
  <2>. QED
    BY <1>1, <1>4, <2>1, <2>2, Zenon DEF Spelled
<1>. QED
  BY <1>2, <1>3, <1>4

(* Of a list and of its whole effects the same are kept.                   *)
LEMMA PairsAreKept ==
  ASSUME NEW list \in Seq(Int)
  PROVE  EffectPairs(Whole(list)) = Pairs(list)
<1>. DEFINE n == 2 * (Len(list) \div 2)
            m == IF Len(list) \div 2 < 2 THEN Len(list) \div 2 ELSE 2
<1>1. /\ Len(list) \in Nat /\ n \in Nat /\ n <= Len(list) /\ Len(list) < n + 2
      /\ m \in 0..2 /\ 2 * m <= n
  OBVIOUS
<1>2. Len(Whole(list)) = n
  BY <1>1 DEF Whole
<1>3. m = IF n >= 4 THEN 2 ELSE IF n >= 2 THEN 1 ELSE 0
  BY <1>1
<1>4. ASSUME NEW k \in 1..m
      PROVE  <<Whole(list)[2 * k - 1], Whole(list)[2 * k]>> = <<list[2 * k - 1], list[2 * k]>>
  <2>1. 2 * k - 1 \in 1..n /\ 2 * k \in 1..n
    BY <1>1
  <2>. QED
    BY <2>1 DEF Whole
<1>. DEFINE whole == Whole(list)
<1>. HIDE DEF whole, n
<1>5. EffectPairs(whole) = [k \in 1..m |-> <<whole[2 * k - 1], whole[2 * k]>>]
  BY <1>2, <1>3, Zenon DEF EffectPairs, whole
<1>6. Pairs(list) = [k \in 1..m |-> <<list[2 * k - 1], list[2 * k]>>]
  BY DEF Pairs
<1>. HIDE DEF m
<1>. QED
  BY <1>4, <1>5, <1>6 DEF whole

(* What is written of a part is read as what the caller is to see of it.   *)
LEMMA SpelledIsRead ==
  ASSUME NEW q \in Readable, NEW set \in Findable(q), NEW part \in Words,
         NEW t \in Seq(Tokens), NEW p \in Nat
  PROVE  Yields(Spelled(q, set, part), t, p, part,
                IF part = "AMULET" THEN ParseAmulet(t, p + 1) ELSE ParsePiece(t, p + 1),
                Seen(q, set)[part])
<1>1. JewelsOf(set, part) \in Seq(Int)
  BY FindableIs
<1>2. CASE part = "GEAR"
  <2>1. q.slots \in Int
    <3>1. q.slots \in 0..3
      BY ReadableIs
    <3>. QED
      BY <3>1
  <2>2. Spelled(q, set, part) = WritePiece(part, q.slots, JewelsOf(set, part))
    BY <1>2 DEF Spelled
  <2>3. Seen(q, set)[part] = [id |-> q.slots, jewels |-> JewelsOf(set, part)]
    BY <1>2 DEF Seen
  <2>4. part # "AMULET"
    BY <1>2
  <2>. QED
    <3>1. Yields(WritePiece(part, q.slots, JewelsOf(set, part)), t, p, part,
                 ParsePiece(t, p + 1), [id |-> q.slots, jewels |-> JewelsOf(set, part)])
      BY <1>1, <2>1, PieceIsRead
    <3>. QED
      BY <2>2, <2>3, <2>4, <3>1, Zenon
<1>3. CASE part = "AMULET"
  <2>1. /\ AmuletOf(q, set.ids[part]) \in Seq(Int)
        /\ Whole(AmuletOf(q, set.ids[part])) \in Seq(Int)
    BY <1>3, FindableIs
  <2>2. Spelled(q, set, part)
          = WriteAmulet(Whole(AmuletOf(q, set.ids[part])), JewelsOf(set, part))
    BY <1>3 DEF Spelled
  <2>3. Seen(q, set)[part]
          = [effects |-> EffectPairs(Whole(AmuletOf(q, set.ids[part]))), jewels |-> JewelsOf(set, part)]
    BY <1>3, <2>1, PairsAreKept DEF Seen
  <2>. QED
    <3>1. Yields(WriteAmulet(Whole(AmuletOf(q, set.ids[part])), JewelsOf(set, part)), t, p,
                 "AMULET", ParseAmulet(t, p + 1),
                 [effects |-> EffectPairs(Whole(AmuletOf(q, set.ids[part]))),
                  jewels |-> JewelsOf(set, part)])
      BY <1>1, <2>1, AmuletIsRead
    <3>. QED
      BY <1>3, <2>2, <2>3, <3>1, Zenon
<1>4. CASE part # "GEAR" /\ part # "AMULET"
  <2>1. ArmorRows[set.ids[part] + 1].id \in Int
    BY <1>4, FindableIs
  <2>2. Spelled(q, set, part) = WritePiece(part, ArmorRows[set.ids[part] + 1].id, JewelsOf(set, part))
    BY <1>4 DEF Spelled
  <2>3. Seen(q, set)[part] = [id |-> ArmorRows[set.ids[part] + 1].id, jewels |-> JewelsOf(set, part)]
    BY <1>4 DEF Seen
  <2>. QED
    <3>1. Yields(WritePiece(part, ArmorRows[set.ids[part] + 1].id, JewelsOf(set, part)), t, p,
                 part, ParsePiece(t, p + 1),
                 [id |-> ArmorRows[set.ids[part] + 1].id, jewels |-> JewelsOf(set, part)])
      BY <1>1, <2>1, PieceIsRead
    <3>. QED
      BY <1>4, <2>2, <2>3, <3>1, Zenon
<1>. QED
  BY <1>2, <1>3, <1>4
-----------------------------------------------------------------------------
(* The text of a set and of a list of sets.                                *)

SpelledSet(q, set) ==
  <<OPEN>>
  \o Spelled(q, set, Parts[1]) \o Spelled(q, set, Parts[2]) \o Spelled(q, set, Parts[3])
  \o Spelled(q, set, Parts[4]) \o Spelled(q, set, Parts[5]) \o Spelled(q, set, Parts[6])
  \o Spelled(q, set, Parts[7])
  \o <<CLOSE>>

(* How many tokens of a set stand before its part i + 1.                   *)
Upto(q, set, i, j) == IF j <= i THEN Len(Spelled(q, set, Parts[j])) ELSE 0
Behind(q, set, i) ==
  1 + Upto(q, set, i, 1) + Upto(q, set, i, 2) + Upto(q, set, i, 3) + Upto(q, set, i, 4)
    + Upto(q, set, i, 5) + Upto(q, set, i, 6) + Upto(q, set, i, 7)

LEMMA PartsAre ==
  /\ \A i \in 1..7 : Parts[i] \in Words
  /\ \A i, j \in 1..7 : Parts[i] = Parts[j] => i = j
  /\ \A part \in Words : \E i \in 1..7 : Parts[i] = part
<1>1. /\ Parts[1] = "HEAD" /\ Parts[2] = "ARMS" /\ Parts[3] = "WAIST" /\ Parts[4] = "LEGS"
      /\ Parts[5] = "GEAR" /\ Parts[6] = "AMULET" /\ Parts[7] = "BODY"
  BY DEF Parts
<1>2. \A i \in 1..7 : i = 1 \/ i = 2 \/ i = 3 \/ i = 4 \/ i = 5 \/ i = 6 \/ i = 7
  OBVIOUS
<1>. QED
  BY <1>1, <1>2 DEF Words, Pieces

LEMMA FormatIsSpelled ==
  ASSUME Loaded, NEW q \in Readable, NEW set \in Findable(q)
  PROVE  Format(InitializeArsenal(q.amulets), set) = SpelledSet(q, set)
<1>1. \A i \in 1..7 : WriteArmor(InitializeArsenal(q.amulets), set, Parts[i])
                        = Spelled(q, set, Parts[i])
  BY PartsAre, SpelledIsWritten
<1>2. 1 \in 1..7 /\ 2 \in 1..7 /\ 3 \in 1..7 /\ 4 \in 1..7 /\ 5 \in 1..7 /\ 6 \in 1..7 /\ 7 \in 1..7
  OBVIOUS
<1>. QED
  BY <1>1, <1>2, Zenon DEF Format, SpelledSet

LEMMA BehindIs ==
  ASSUME NEW q \in Readable, NEW set \in Findable(q)
  PROVE  /\ Behind(q, set, 0) = 1
         /\ \A i \in 0..7 : Behind(q, set, i) \in Nat
         /\ \A i \in 1..7 : /\ Spelled(q, set, Parts[i]) \in Seq(Tokens)
                            /\ Behind(q, set, i)
                                 = Behind(q, set, i - 1) + Len(Spelled(q, set, Parts[i]))
<1>1. ASSUME NEW i \in 1..7
      PROVE  Spelled(q, set, Parts[i]) \in Seq(Tokens) /\ Len(Spelled(q, set, Parts[i])) \in Nat
  <2>1. << >> \in Seq(Tokens) /\ 1 \in Nat
    OBVIOUS
  <2>2. Spelled(q, set, Parts[i]) \in Seq(Tokens)
    BY <2>1, PartsAre, SpelledIsRead, Zenon DEF Yields
  <2>. QED
    BY <2>2
<1>. DEFINE w == [i \in 1..7 |-> Len(Spelled(q, set, Parts[i]))]
<1>2. w \in [1..7 -> Nat]
  BY <1>1
<1>3. \A i \in 0..7 : Behind(q, set, i)
         = 1 + (IF 1 <= i THEN w[1] ELSE 0) + (IF 2 <= i THEN w[2] ELSE 0)
             + (IF 3 <= i THEN w[3] ELSE 0) + (IF 4 <= i THEN w[4] ELSE 0)
             + (IF 5 <= i THEN w[5] ELSE 0) + (IF 6 <= i THEN w[6] ELSE 0)
             + (IF 7 <= i THEN w[7] ELSE 0)
  BY DEF Behind, Upto
<1>4. \A i \in 1..7 : Len(Spelled(q, set, Parts[i])) = w[i]
  OBVIOUS
<1>. HIDE DEF w
<1>5. \A i \in 0..7 : Behind(q, set, i) \in Nat
  BY <1>2, <1>3
<1>6. Behind(q, set, 0) = 1
  BY <1>3
<1>7. \A i \in 1..7 : Behind(q, set, i) = Behind(q, set, i - 1) + w[i]
  BY <1>2, <1>3
<1>. QED
  BY <1>1, <1>4, <1>5, <1>6, <1>7

(* One part more.                                                          *)
LEMMA PartIsBehind ==
  ASSUME NEW q \in Readable, NEW set \in Findable(q), NEW i \in 1..7,
         NEW a \in Seq(Tokens), Len(a) = Behind(q, set, i - 1)
  PROVE  /\ a \o Spelled(q, set, Parts[i]) \in Seq(Tokens)
         /\ Len(a \o Spelled(q, set, Parts[i])) = Behind(q, set, i)
         /\ \A t \in Seq(Tokens) : \A p \in Nat :
              Occurs(a \o Spelled(q, set, Parts[i]), t, p) =>
                Occurs(a, t, p) /\ Occurs(Spelled(q, set, Parts[i]), t, p + Behind(q, set, i - 1))
<1>1. /\ Spelled(q, set, Parts[i]) \in Seq(Tokens)
      /\ Behind(q, set, i) = Behind(q, set, i - 1) + Len(Spelled(q, set, Parts[i]))
  BY BehindIs
<1>. DEFINE b == Spelled(q, set, Parts[i])
<1>. HIDE DEF b
<1>2. a \o b \in Seq(Tokens) /\ Len(a \o b) = Len(a) + Len(b)
  BY <1>1, ConcatProperties DEF b
<1>3. ASSUME NEW t \in Seq(Tokens), NEW p \in Nat, Occurs(a \o b, t, p)
      PROVE  Occurs(a, t, p) /\ Occurs(b, t, p + Len(a))
  BY <1>1, <1>3, OccursSplit DEF b
<1>. QED
  BY <1>1, <1>2, <1>3 DEF b

(* Where the parts of a set stand, when it begins at p.                    *)
StandsAt(q, set, t, p) ==
  /\ p \in DOMAIN t /\ t[p] = OPEN
  /\ \A i \in 1..7 : Occurs(Spelled(q, set, Parts[i]), t, p + Behind(q, set, i - 1))
  /\ p + Behind(q, set, 7) \in DOMAIN t /\ t[p + Behind(q, set, 7)] = CLOSE

LEMMA SetIsText ==
  ASSUME NEW q \in Readable, NEW set \in Findable(q)
  PROVE  /\ SpelledSet(q, set) \in Seq(Tokens)
         /\ Len(SpelledSet(q, set)) = Behind(q, set, 7) + 1
         /\ \A t \in Seq(Tokens) : \A p \in Nat :
              Occurs(SpelledSet(q, set), t, p) => StandsAt(q, set, t, p)
<1>. DEFINE s(i) == Spelled(q, set, Parts[i])
            a0 == <<OPEN>>
            a1 == a0 \o s(1)
            a2 == a1 \o s(2)
            a3 == a2 \o s(3)
            a4 == a3 \o s(4)
            a5 == a4 \o s(5)
            a6 == a5 \o s(6)
            a7 == a6 \o s(7)
            Front(a, i) == a \in Seq(Tokens) /\ Len(a) = Behind(q, set, i)
            Back(a, b, i) == \A t \in Seq(Tokens) : \A p \in Nat :
              Occurs(b, t, p) => Occurs(a, t, p) /\ Occurs(s(i), t, p + Behind(q, set, i - 1))
<1>1. SpelledSet(q, set) = a7 \o <<CLOSE>>
  BY DEF SpelledSet
<1>2. ASSUME NEW i \in 1..7, NEW a, NEW b, b = a \o s(i), Front(a, i - 1)
      PROVE  Front(b, i) /\ Back(a, b, i)
  BY <1>2, PartIsBehind
<1>3. Front(a0, 0)
  BY TokensAre, BehindIs
<1>4. /\ 1 \in 1..7 /\ 2 \in 1..7 /\ 3 \in 1..7 /\ 4 \in 1..7 /\ 5 \in 1..7 /\ 6 \in 1..7 /\ 7 \in 1..7
      /\ 1 - 1 = 0 /\ 2 - 1 = 1 /\ 3 - 1 = 2 /\ 4 - 1 = 3 /\ 5 - 1 = 4 /\ 6 - 1 = 5 /\ 7 - 1 = 6
  OBVIOUS
<1>5. /\ a1 = a0 \o s(1) /\ a2 = a1 \o s(2) /\ a3 = a2 \o s(3) /\ a4 = a3 \o s(4)
      /\ a5 = a4 \o s(5) /\ a6 = a5 \o s(6) /\ a7 = a6 \o s(7)
  OBVIOUS
<1>. HIDE DEF a0, a1, a2, a3, a4, a5, a6, a7, Front, Back
<1>6. Front(a1, 1) /\ Back(a0, a1, 1)
  BY <1>2, <1>3, <1>4, <1>5
<1>7. Front(a2, 2) /\ Back(a1, a2, 2)
  BY <1>2, <1>4, <1>5, <1>6
<1>8. Front(a3, 3) /\ Back(a2, a3, 3)
  BY <1>2, <1>4, <1>5, <1>7
<1>9. Front(a4, 4) /\ Back(a3, a4, 4)
  BY <1>2, <1>4, <1>5, <1>8
<1>10. Front(a5, 5) /\ Back(a4, a5, 5)
  BY <1>2, <1>4, <1>5, <1>9
<1>11. Front(a6, 6) /\ Back(a5, a6, 6)
  <2>1. 6 \in 1..7 /\ Front(a5, 6 - 1) /\ a6 = a5 \o s(6)
    BY <1>4, <1>5, <1>10, Zenon
  <2>. QED
    BY <1>2, <2>1
<1>12. Front(a7, 7) /\ Back(a6, a7, 7)
  <2>1. 7 \in 1..7 /\ Front(a6, 7 - 1) /\ a7 = a6 \o s(7)
    BY <1>4, <1>5, <1>11, Zenon
  <2>. QED
    BY <1>2, <2>1
<1>13. <<CLOSE>> \in Seq(Tokens) /\ Len(<<CLOSE>>) = 1
  BY TokensAre
<1>14. a7 \in Seq(Tokens) /\ Len(a7) = Behind(q, set, 7) /\ Behind(q, set, 7) \in Nat
  BY <1>12, BehindIs DEF Front
<1>15. a7 \o <<CLOSE>> \in Seq(Tokens) /\ Len(a7 \o <<CLOSE>>) = Behind(q, set, 7) + 1
  BY <1>13, <1>14, ConcatProperties
<1>16. ASSUME NEW t \in Seq(Tokens), NEW p \in Nat, Occurs(SpelledSet(q, set), t, p)
       PROVE  StandsAt(q, set, t, p)
  <2>1. Occurs(a7, t, p) /\ Occurs(<<CLOSE>>, t, p + Behind(q, set, 7))
    BY <1>1, <1>13, <1>14, <1>16, OccursSplit
  <2>2. Occurs(a6, t, p) /\ Occurs(s(7), t, p + Behind(q, set, 6))
    BY <1>4, <1>12, <2>1 DEF Back
  <2>3. Occurs(a5, t, p) /\ Occurs(s(6), t, p + Behind(q, set, 5))
    BY <1>4, <1>11, <2>2 DEF Back
  <2>4. Occurs(a4, t, p) /\ Occurs(s(5), t, p + Behind(q, set, 4))
    BY <1>4, <1>10, <2>3 DEF Back
  <2>5. Occurs(a3, t, p) /\ Occurs(s(4), t, p + Behind(q, set, 3))
    BY <1>4, <1>9, <2>4 DEF Back
  <2>6. Occurs(a2, t, p) /\ Occurs(s(3), t, p + Behind(q, set, 2))
    BY <1>4, <1>8, <2>5 DEF Back
  <2>7. Occurs(a1, t, p) /\ Occurs(s(2), t, p + Behind(q, set, 1))
    BY <1>4, <1>7, <2>6 DEF Back
  <2>8. Occurs(a0, t, p) /\ Occurs(s(1), t, p + Behind(q, set, 0))
    BY <1>4, <1>6, <2>7 DEF Back
  <2>9. p \in DOMAIN t /\ t[p] = OPEN
    BY <2>8, TokensAre, TokenOccurs DEF a0
  <2>10. p + Behind(q, set, 7) \in DOMAIN t /\ t[p + Behind(q, set, 7)] = CLOSE
    BY <2>1, TokensAre, TokenOccurs
  <2>11. ASSUME NEW i \in 1..7 PROVE Occurs(s(i), t, p + Behind(q, set, i - 1))
    <3>1. i = 1 \/ i = 2 \/ i = 3 \/ i = 4 \/ i = 5 \/ i = 6 \/ i = 7
      OBVIOUS
    <3>. QED
      BY <1>4, <2>2, <2>3, <2>4, <2>5, <2>6, <2>7, <2>8, <3>1, Zenon
  <2>. QED
    BY <2>9, <2>10, <2>11 DEF StandsAt
<1>. QED
  BY <1>1, <1>15, <1>16

(* f is the text of the first k of the sets found.                         *)
Writes(f, q, found) ==
  f = [k \in 0..Len(found) |->
         IF k = 0 THEN << >> ELSE f[k - 1] \o SpelledSet(q, found[k])]

Lines(q, found) == CHOOSE f : Writes(f, q, found)

LEMMA LinesAre ==
  ASSUME NEW q \in Readable, NEW found \in Seq(Findable(q))
  PROVE  /\ Lines(q, found)[0] = << >>
         /\ \A k \in 1..Len(found) :
              Lines(q, found)[k] = Lines(q, found)[k - 1] \o SpelledSet(q, found[k])
         /\ \A k \in 0..Len(found) : Lines(q, found)[k] \in Seq(Tokens)
<1>. DEFINE n == Len(found)
            texts == Seq(Tokens)
            S == [k \in 0..n |-> texts]
            step == [kx \in (1..n) \X texts |-> kx[2] \o SpelledSet(q, found[kx[1]])]
            base == << >>
            g == Lines(q, found)
<1>1. n \in Nat /\ \A k \in 1..n : found[k] \in Findable(q)
  OBVIOUS
<1>2. \A k \in 1..n : \A x \in texts : x \o SpelledSet(q, found[k]) \in texts
  BY <1>1, SetIsText, ConcatProperties
<1>3. base \in texts
  OBVIOUS
<1>. HIDE DEF texts, n
<1>4. \A k \in 0..n : S[k] = texts
  OBVIOUS
<1>5. \A k \in 1..n : \A x \in texts : step[<<k, x>>] = x \o SpelledSet(q, found[k])
  OBVIOUS
<1>6. \A k \in 1..n : k - 1 \in 0..n /\ k \in 0..n /\ k # 0
  BY <1>1
<1>7. 0 \in 0..n
  BY <1>1
<1>. HIDE DEF S, step, base
<1>8. base \in S[0]
  BY <1>3, <1>4, <1>7
<1>9. ASSUME NEW k \in 1..n, NEW x \in S[k - 1] PROVE step[<<k, x>>] \in S[k]
  <2>1. x \in texts /\ S[k] = texts
    BY <1>4, <1>6
  <2>2. step[<<k, x>>] = x \o SpelledSet(q, found[k])
    BY <1>5, <2>1
  <2>3. x \o SpelledSet(q, found[k]) \in texts
    BY <1>2, <2>1
  <2>. QED
    BY <2>1, <2>2, <2>3
<1>10. PICK f : FunctionUpTo(f, n) /\ Steps(f, n, base, step) /\ Within(f, n, S)
  BY <1>1, <1>8, <1>9, RecursionExists
<1>11. /\ f[0] = base
       /\ \A k \in 1..n : f[k] = step[<<k, f[k - 1]>>]
       /\ \A k \in 0..n : f[k] \in S[k]
       /\ f = [k \in 0..n |-> f[k]]
  BY <1>10, Zenon DEF Steps, Within, FunctionUpTo
<1>12. ASSUME NEW k \in 1..n PROVE f[k] = f[k - 1] \o SpelledSet(q, found[k])
  BY <1>4, <1>5, <1>6, <1>11
<1>13. Writes(f, q, found)
  <2>1. ASSUME NEW k \in 0..n
        PROVE  f[k] = IF k = 0 THEN << >> ELSE f[k - 1] \o SpelledSet(q, found[k])
    <3>1. k = 0 \/ k \in 1..n
      BY <1>1
    <3>. QED
      BY <1>6, <1>11, <1>12, <3>1, Zenon DEF base
  <2>. QED
    BY <1>11, <2>1, Zenon DEF Writes, n
<1>14. Writes(g, q, found)
  BY <1>13, Zenon DEF Lines
<1>. HIDE DEF g
<1>15. g[0] = << >> /\ \A k \in 1..n : g[k] = g[k - 1] \o SpelledSet(q, found[k])
  <2>1. \A k \in 0..n : g[k] = IF k = 0 THEN << >> ELSE g[k - 1] \o SpelledSet(q, found[k])
    BY <1>14, Zenon DEF Writes, n
  <2>. QED
    BY <1>6, <1>7, <2>1, Zenon
<1>. DEFINE T == { k \in 0..n : g[k] \in texts }
<1>16. \A k \in 0..n : k \in T
  <2>1. 0 \in T
    BY <1>3, <1>7, <1>15 DEF base
  <2>2. ASSUME NEW k \in 1..n, k - 1 \in T PROVE k \in T
    BY <1>2, <1>6, <1>15, <2>2
  <2>. HIDE DEF T
  <2>. QED
    BY <1>1, <2>1, <2>2, IntervalInduction
<1>. QED
  BY <1>15, <1>16 DEF g, n, texts

(* The text that the library returns.                                      *)
LEMMA TextIsSpelled ==
  ASSUME Loaded, NEW q \in Readable, NEW found \in Seq(Findable(q))
  PROVE  StringBatchFormat(InitializeArsenal(q.amulets), found) = Lines(q, found)[Len(found)]
<1>. DEFINE amulets == InitializeArsenal(q.amulets)
            Formats(f) == f = [k \in 0..Len(found) |->
                                 IF k = 0 THEN << >> ELSE f[k - 1] \o Format(amulets, found[k])]
<1>1. ASSUME NEW f PROVE Formats(f) <=> Writes(f, q, found)
  <2>1. ASSUME NEW k \in 0..Len(found)
        PROVE  (IF k = 0 THEN << >> ELSE f[k - 1] \o Format(amulets, found[k]))
                 = (IF k = 0 THEN << >> ELSE f[k - 1] \o SpelledSet(q, found[k]))
    <3>1. CASE k # 0
      <4>1. found[k] \in Findable(q)
        BY <3>1
      <4>2. Format(amulets, found[k]) = SpelledSet(q, found[k])
        BY <4>1, FormatIsSpelled
      <4>. QED
        BY <4>2, Zenon
    <3>. QED
      BY <3>1, Zenon
  <2>2. [k \in 0..Len(found) |-> IF k = 0 THEN << >> ELSE f[k - 1] \o Format(amulets, found[k])]
          = [k \in 0..Len(found) |-> IF k = 0 THEN << >> ELSE f[k - 1] \o SpelledSet(q, found[k])]
    BY <2>1, Zenon
  <2>. QED
    BY <2>2, Zenon DEF Writes
<1>2. StringBatchFormat(amulets, found) = (CHOOSE f : Formats(f))[Len(found)]
  BY Zenon DEF StringBatchFormat
<1>3. (CHOOSE f : Formats(f)) = (CHOOSE f : Writes(f, q, found))
  <2>. HIDE DEF Formats
  <2>. QED
    BY <1>1
<1>. QED
  BY <1>2, <1>3, Zenon DEF Lines

(* Where a set begins; behind the last one the text ends.                  *)
Start(q, found, k) == Len(Lines(q, found)[k]) + 1

LEMMA SetsStand ==
  ASSUME NEW q \in Readable, NEW found \in Seq(Findable(q)), NEW k \in 1..Len(found)
  PROVE  /\ Start(q, found, k - 1) \in Nat
         /\ StandsAt(q, found[k], Lines(q, found)[Len(found)], Start(q, found, k - 1))
         /\ Start(q, found, k) = Start(q, found, k - 1) + Behind(q, found[k], 7) + 1
<1>. DEFINE n == Len(found)
            L == Lines(q, found)
            s(i) == SpelledSet(q, found[i])
            There(m) == \A i \in 1..m : Occurs(s(i), L[m], Len(L[i - 1]) + 1)
            T == { m \in 0..n : There(m) }
<1>1. n \in Nat /\ \A i \in 1..n : found[i] \in Findable(q) /\ i - 1 \in 0..n /\ i \in 0..n
  OBVIOUS
<1>2. \A i \in 1..n : s(i) \in Seq(Tokens) /\ L[i] = L[i - 1] \o s(i)
  BY <1>1, LinesAre, SetIsText
<1>3. \A i \in 0..n : L[i] \in Seq(Tokens) /\ Len(L[i]) \in Nat /\ Len(L[i]) + 1 \in Nat
  <2>1. \A i \in 0..n : L[i] \in Seq(Tokens)
    BY LinesAre
  <2>. HIDE DEF L
  <2>. QED
    BY <2>1
<1>. HIDE DEF n, L, s
<1>4. 0 \in T
  BY <1>1
<1>5. ASSUME NEW m \in 1..n, m - 1 \in T PROVE m \in T
  <2>1. ASSUME NEW i \in 1..m PROVE Occurs(s(i), L[m], Len(L[i - 1]) + 1)
    <3>1. /\ i \in 1..n /\ i - 1 \in 0..n /\ m - 1 \in 0..n /\ m \in 0..n
          /\ L[m] = L[m - 1] \o s(m)
      BY <1>1, <1>2
    <3>2. CASE i = m
      BY <1>2, <1>3, <3>1, <3>2, OccursBehind
    <3>3. CASE i # m
      <4>1. i \in 1..(m - 1)
        BY <1>1, <3>3
      <4>2. Occurs(s(i), L[m - 1], Len(L[i - 1]) + 1)
        BY <1>5, <4>1
      <4>. QED
        BY <1>2, <1>3, <3>1, <4>2, OccursBefore
    <3>. QED
      BY <3>2, <3>3
  <2>. QED
    BY <1>1, <2>1
<1>6. n \in T
  <2>. HIDE DEF T
  <2>1. \A m \in 0..n : m \in T
    BY <1>1, <1>4, <1>5, IntervalInduction
  <2>. QED
    BY <1>1, <2>1
<1>7. k \in 1..n /\ k - 1 \in 0..n /\ k \in 0..n /\ n \in 0..n
  BY <1>1 DEF n
<1>8. Occurs(s(k), L[n], Len(L[k - 1]) + 1)
  BY <1>6, <1>7
<1>9. StandsAt(q, found[k], L[n], Len(L[k - 1]) + 1)
  BY <1>1, <1>3, <1>7, <1>8, SetIsText DEF s
<1>10. Len(s(k)) = Behind(q, found[k], 7) + 1 /\ Behind(q, found[k], 7) \in Nat
  <2>1. found[k] \in Findable(q) /\ 7 \in 0..7
    BY <1>1, <1>7
  <2>2. \A i \in 0..7 : Behind(q, found[k], i) \in Nat
    BY <2>1, BehindIs
  <2>. QED
    BY <2>1, <2>2, SetIsText DEF s
<1>11. Len(L[k]) = Len(L[k - 1]) + Len(s(k))
  BY <1>2, <1>3, <1>7, ConcatProperties
<1>12. Len(L[k]) + 1 = (Len(L[k - 1]) + 1) + Behind(q, found[k], 7) + 1
  <2>1. Len(L[k - 1]) \in Nat
    BY <1>3, <1>7
  <2>2. \A a, b \in Nat : (a + (b + 1)) + 1 = (a + 1) + b + 1
    OBVIOUS
  <2>. QED
    BY <1>10, <1>11, <2>1, <2>2, Zenon
<1>. QED
  BY <1>3, <1>7, <1>9, <1>12 DEF Start, L, n
-----------------------------------------------------------------------------
(* The invariant.                                                          *)

(* The first k sets as the caller is to see them.                          *)
FirstSeen(q, found, k) == [j \in 1..k |-> Seen(q, found[j])]

(* What the caller has of a set after i of its parts.                      *)
Partly(q, set, i) ==
  [part \in Words |->
     IF \E j \in 1..i : Parts[j] = part THEN Seen(q, set)[part] ELSE NoAnswer[part]]

(* The text is that of the sets the last search found.                     *)
SearchIsShown ==
  /\ Loaded
  /\ query \in Readable /\ result \in Seq(Findable(query))
  /\ text = Lines(query, result)[Len(result)]

BetweenSets(k) ==
  /\ pos = Start(query, result, k) /\ sets = FirstSeen(query, result, k)

InASet(k, i) ==
  /\ pos = Start(query, result, k - 1) + Behind(query, result[k], i)
  /\ sets = FirstSeen(query, result, k - 1)
  /\ answer = Partly(query, result[k], i)

IInv ==
  /\ pc # "loading" => Loaded
  /\ pc \in {"between sets", "in a set", "returned"} => SearchIsShown
  /\ pc = "between sets" => \E k \in 0..Len(result) : BetweenSets(k)
  /\ pc = "in a set" => \E k \in 1..Len(result) : \E i \in 0..7 : InASet(k, i)
  /\ pc = "returned" => sets = FirstSeen(query, result, Len(result))

-----------------------------------------------------------------------------
(* Nothing read yet, one part more, and all parts.                         *)
LEMMA PartlySteps ==
  ASSUME NEW q, NEW set
  PROVE  /\ Partly(q, set, 0) = NoAnswer
         /\ \A i \in 1..7 : [Partly(q, set, i - 1) EXCEPT ![Parts[i]] = Seen(q, set)[Parts[i]]]
                              = Partly(q, set, i)
         /\ Partly(q, set, 7) = Seen(q, set)
<1>1. Partly(q, set, 0) = NoAnswer
  <2>1. \A part \in Words : ~ \E j \in 1..0 : Parts[j] = part
    OBVIOUS
  <2>2. NoAnswer = [part \in Words |-> NoAnswer[part]]
    BY DEF NoAnswer, Words
  <2>. QED
    BY <2>1, <2>2 DEF Partly
<1>2. ASSUME NEW i \in 1..7
      PROVE  [Partly(q, set, i - 1) EXCEPT ![Parts[i]] = Seen(q, set)[Parts[i]]] = Partly(q, set, i)
  <2>1. Parts[i] \in Words
    BY PartsAre
  <2>2. \A part \in Words : (\E j \in 1..i : Parts[j] = part)
                              <=> part = Parts[i] \/ \E j \in 1..(i - 1) : Parts[j] = part
    OBVIOUS
  <2>. QED
    BY <2>1, <2>2 DEF Partly
<1>3. Partly(q, set, 7) = Seen(q, set)
  <2>1. Seen(q, set) = [part \in Words |-> Seen(q, set)[part]]
    BY DEF Seen
  <2>. QED
    BY <2>1, PartsAre DEF Partly
<1>. QED
  BY <1>1, <1>2, <1>3

LEMMA FirstSeenSteps ==
  ASSUME NEW q, NEW found
  PROVE  /\ FirstSeen(q, found, 0) = << >>
         /\ \A k \in Nat \ {0} : Append(FirstSeen(q, found, k - 1), Seen(q, found[k]))
                                  = FirstSeen(q, found, k)
<1>1. FirstSeen(q, found, 0) = << >>
  BY DEF FirstSeen
<1>2. ASSUME NEW k \in Nat \ {0}
      PROVE  Append(FirstSeen(q, found, k - 1), Seen(q, found[k])) = FirstSeen(q, found, k)
  <2>. DEFINE S == {Seen(q, found[j]) : j \in 1..k}
              a == FirstSeen(q, found, k - 1)
  <2>1. a \in Seq(S) /\ Len(a) = k - 1 /\ \A j \in 1..(k - 1) : a[j] = Seen(q, found[j])
    BY DEF FirstSeen
  <2>2. Seen(q, found[k]) \in S
    OBVIOUS
  <2>. HIDE DEF a, S
  <2>3. /\ Append(a, Seen(q, found[k])) \in Seq(S) /\ Len(Append(a, Seen(q, found[k]))) = k
        /\ Append(a, Seen(q, found[k]))[k] = Seen(q, found[k])
        /\ \A j \in 1..(k - 1) : Append(a, Seen(q, found[k]))[j] = Seen(q, found[j])
    BY <2>1, <2>2, AppendProperties
  <2>4. \A j \in 1..k : Append(a, Seen(q, found[k]))[j] = Seen(q, found[j])
    BY <2>3
  <2>5. Append(a, Seen(q, found[k])) = [j \in 1..k |-> Append(a, Seen(q, found[k]))[j]]
    BY <2>3
  <2>. QED
    BY <2>4, <2>5 DEF FirstSeen, a
<1>. QED
  BY <1>1, <1>2

(* AsSeen, which the property is stated with, in terms of the query.       *)
LEMMA AsSeenIs ==
  ASSUME NEW set PROVE AsSeen(set) = Seen(query, set)
<1>1. ASSUME NEW id PROVE QueryAmulet(id) = AmuletOf(query, id)
  BY DEF QueryAmulet, AmuletOf
<1>2. AsSeen(set) = [part \in Words |-> AsSeen(set)[part]]
  BY DEF AsSeen, Words
<1>3. Seen(query, set) = [part \in Words |-> Seen(query, set)[part]]
  BY DEF Seen
<1>4. ASSUME NEW part \in Words PROVE AsSeen(set)[part] = Seen(query, set)[part]
  <2>1. CASE part = "AMULET"
    BY <1>1, <2>1 DEF AsSeen, Seen, JewelsOf, Words
  <2>2. CASE part = "GEAR"
    BY <2>2 DEF AsSeen, Seen, JewelsOf, Words
  <2>3. CASE part # "AMULET" /\ part # "GEAR"
    BY <2>3 DEF AsSeen, Seen, JewelsOf, Words
  <2>. QED
    BY <2>1, <2>2, <2>3
<1>. QED
  BY <1>2, <1>3, <1>4

(* Behind the last set the text ends; before it the next set begins.       *)
LEMMA AtASet ==
  ASSUME SearchIsShown, NEW k \in 0..Len(result), BetweenSets(k)
  PROVE  TokenAt(text, pos, "OPEN_PARENTHESIS") <=> k # Len(result)
<1>1. query \in Readable /\ result \in Seq(Findable(query)) /\ Len(result) \in Nat
  BY DEF SearchIsShown
<1>2. CASE k = Len(result)
  <2>1. text \in Seq(Tokens)
    <3>1. Len(result) \in 0..Len(result)
      BY <1>1
    <3>. QED
      BY <1>1, <3>1, LinesAre DEF SearchIsShown
  <2>2. pos = Len(text) + 1
    BY <1>2 DEF SearchIsShown, BetweenSets, Start
  <2>3. pos \notin DOMAIN text
    BY <2>1, <2>2
  <2>. QED
    BY <1>2, <2>3 DEF TokenAt
<1>3. CASE k # Len(result)
  <2>1. k + 1 \in 1..Len(result) /\ (k + 1) - 1 = k
    BY <1>1, <1>3
  <2>2. StandsAt(query, result[k + 1], text, Start(query, result, (k + 1) - 1))
    BY <1>1, <2>1, SetsStand DEF SearchIsShown
  <2>3. pos \in DOMAIN text /\ text[pos] = OPEN
    BY <2>1, <2>2 DEF StandsAt, BetweenSets
  <2>. QED
    BY <1>3, <2>3, TokensAre DEF TokenAt
<1>. QED
  BY <1>2, <1>3

(* In a set the next part can be read, or behind the last one it is closed.*)
LEMMA AtAPart ==
  ASSUME SearchIsShown, NEW k \in 1..Len(result), NEW i \in 0..7, InASet(k, i)
  PROVE  /\ i = 7 => /\ TokenAt(text, pos, "CLOSE_PARENTHESIS")
                     /\ ~TokenAt(text, pos, "KEYWORD")
                     /\ pos + 1 = Start(query, result, k)
         /\ i # 7 => /\ TokenAt(text, pos, "KEYWORD")
                     /\ ~TokenAt(text, pos, "CLOSE_PARENTHESIS")
                     /\ text[pos].value = Parts[i + 1]
                     /\ LET read == IF Parts[i + 1] = "AMULET" THEN ParseAmulet(text, pos + 1)
                                                              ELSE ParsePiece(text, pos + 1)
                       IN /\ read.ok
                          /\ read.piece = Seen(query, result[k])[Parts[i + 1]]
                          /\ read.next = Start(query, result, k - 1)
                                           + Behind(query, result[k], i + 1)
<1>1. /\ query \in Readable /\ result \in Seq(Findable(query)) /\ Len(result) \in Nat
      /\ result[k] \in Findable(query)
  BY DEF SearchIsShown
<1>2. text \in Seq(Tokens)
  <2>1. Len(result) \in 0..Len(result)
    BY <1>1
  <2>. QED
    BY <1>1, <2>1, LinesAre DEF SearchIsShown
<1>. DEFINE start == Start(query, result, k - 1)
            set == result[k]
<1>3. /\ start \in Nat /\ StandsAt(query, set, text, start)
      /\ Start(query, result, k) = start + Behind(query, set, 7) + 1
  BY <1>1, SetsStand DEF SearchIsShown
<1>4. \A j \in 0..7 : Behind(query, set, j) \in Nat
  BY <1>1, BehindIs
<1>5. pos = start + Behind(query, set, i)
  BY DEF InASet
<1>. HIDE DEF start, set
<1>6. CASE i = 7
  <2>1. pos \in DOMAIN text /\ text[pos] = CLOSE
    BY <1>3, <1>5, <1>6 DEF StandsAt
  <2>2. TokenAt(text, pos, "CLOSE_PARENTHESIS") /\ ~TokenAt(text, pos, "KEYWORD")
    BY <2>1, TokensAre DEF TokenAt
  <2>3. pos + 1 = Start(query, result, k)
    BY <1>3, <1>5, <1>6
  <2>. QED
    BY <1>6, <2>2, <2>3
<1>7. CASE i # 7
  <2>. DEFINE part == Parts[i + 1]
              s == Spelled(query, set, part)
              read == IF part = "AMULET" THEN ParseAmulet(text, pos + 1)
                                         ELSE ParsePiece(text, pos + 1)
  <2>1. i + 1 \in 1..7 /\ (i + 1) - 1 = i /\ i \in 0..7
    BY <1>7
  <2>2. part \in Words
    BY <2>1, PartsAre
  <2>3. pos \in Nat
    <3>1. Behind(query, set, i) \in Nat
      BY <1>4
    <3>. QED
      BY <1>3, <1>5, <3>1
  <2>4. Occurs(s, text, pos)
    <3>1. Occurs(Spelled(query, set, Parts[i + 1]), text, start + Behind(query, set, (i + 1) - 1))
      BY <1>3, <2>1 DEF StandsAt
    <3>. QED
      BY <1>5, <2>1, <3>1, Zenon
  <2>5. Yields(s, text, pos, part, read, Seen(query, set)[part])
    BY <1>1, <1>2, <2>2, <2>3, SpelledIsRead DEF set
  <2>6. Behind(query, set, i + 1) = Behind(query, set, i) + Len(s)
    <3>1. Behind(query, set, i + 1) = Behind(query, set, (i + 1) - 1) + Len(s)
      BY <1>1, <2>1, BehindIs DEF set
    <3>. QED
      BY <2>1, <3>1
  <2>. HIDE DEF part, s, read
  <2>7. /\ TokenAt(text, pos, "KEYWORD") /\ text[pos].value = part
        /\ read.ok /\ read.next = pos + Len(s) /\ read.piece = Seen(query, set)[part]
    BY <2>4, <2>5 DEF Yields
  <2>8. ~TokenAt(text, pos, "CLOSE_PARENTHESIS")
    BY <2>7 DEF TokenAt
  <2>9. Len(s) \in Nat
    BY <2>5 DEF Yields
  <2>10. pos + Len(s) = start + Behind(query, set, i + 1)
    <3>1. Behind(query, set, i) \in Nat
      BY <1>4
    <3>. QED
      BY <1>3, <1>5, <2>6, <2>9, <3>1
  <2>. QED
    BY <1>7, <2>7, <2>8, <2>10, Zenon DEF part, read, start, set
<1>. QED
  BY <1>6, <1>7
-----------------------------------------------------------------------------
LEMMA InitInv == Init => IInv
BY DEF Init, IInv

(* What an action leaves alone.                                            *)
LEMMA LoadedStays ==
  ASSUME Loaded, UNCHANGED tables PROVE Loaded'
BY DEF Loaded, tables

LEMMA ShownStays ==
  ASSUME SearchIsShown, UNCHANGED <<tables, library, text>> PROVE SearchIsShown'
<1>1. Loaded'
  BY LoadedStays DEF SearchIsShown
<1>2. query' = query /\ result' = result /\ text' = text
  BY DEF library
<1>. QED
  BY <1>1, <1>2 DEF SearchIsShown

LEMMA ShownIs ==
  ASSUME SearchIsShown
  PROVE  /\ Loaded /\ query \in Readable /\ result \in Seq(Findable(query))
         /\ Len(result) \in Nat
         /\ \A k \in 1..Len(result) : result[k] \in Findable(query)
BY DEF SearchIsShown

LEMMA DoSearchInv == ASSUME IInv, DoSearch PROVE IInv'
<1>1. /\ Loaded /\ Loaded'
      /\ pc' = "between sets" /\ pos' = 1 /\ sets' = << >> /\ text' = text_response'
      /\ text_response' = StringBatchFormat(arsenal', result')
      /\ arsenal' = InitializeArsenal(query'.amulets)
      /\ query' \in Readable
  BY LoadedStays DEF IInv, DoSearch, Readable
<1>2. PICK n \in 0..MaxSets : result' \in [1..n -> Candidates(query'.slots, arsenal')]
  BY DEF DoSearch
<1>3. n \in Nat
  BY BoundsAssumption
<1>4. result' \in Seq(Findable(query'))
  <2>1. Candidates(query'.slots, arsenal') \subseteq Findable(query')
    BY <1>1, CandidatesAreFindable
  <2>. QED
    BY <1>2, <1>3, <2>1
<1>5. text' = Lines(query', result')[Len(result')]
  BY <1>1, <1>4, TextIsSpelled
<1>6. SearchIsShown'
  BY <1>1, <1>4, <1>5 DEF SearchIsShown
<1>7. BetweenSets(0)'
  <2>1. Start(query', result', 0) = 1
    <3>1. Lines(query', result')[0] = << >>
      BY <1>1, <1>4, LinesAre
    <3>. QED
      BY <3>1 DEF Start
  <2>2. FirstSeen(query', result', 0) = << >>
    BY FirstSeenSteps
  <2>. QED
    BY <1>1, <2>1, <2>2 DEF BetweenSets
<1>8. 0 \in 0..Len(result')
  BY <1>4
<1>. QED
  BY <1>1, <1>6, <1>7, <1>8 DEF IInv

LEMMA OpenSetInv == ASSUME IInv, OpenSet PROVE IInv'
<1>1. /\ SearchIsShown /\ SearchIsShown'
      /\ TokenAt(text, pos, "OPEN_PARENTHESIS")
      /\ pc' = "in a set" /\ pos' = pos + 1 /\ answer' = NoAnswer /\ sets' = sets
      /\ query' = query /\ result' = result
  BY ShownStays DEF IInv, OpenSet, library
<1>2. PICK k \in 0..Len(result) : BetweenSets(k)
  BY DEF IInv, OpenSet
<1>3. k # Len(result)
  BY <1>1, <1>2, AtASet
<1>4. /\ query \in Readable /\ Len(result) \in Nat
      /\ \A j \in 1..Len(result) : result[j] \in Findable(query)
  BY <1>1, ShownIs
<1>5. k + 1 \in 1..Len(result) /\ (k + 1) - 1 = k
  BY <1>3, <1>4
<1>6. Behind(query, result[k + 1], 0) = 1
  <2>1. result[k + 1] \in Findable(query)
    BY <1>4, <1>5
  <2>. QED
    BY <1>4, <2>1, BehindIs
<1>7. Partly(query, result[k + 1], 0) = NoAnswer
  BY PartlySteps
<1>8. InASet(k + 1, 0)'
  BY <1>1, <1>2, <1>5, <1>6, <1>7 DEF InASet, BetweenSets
<1>9. Loaded'
  BY <1>1, LoadedStays, ShownIs DEF OpenSet
<1>10. 0 \in 0..7
  OBVIOUS
<1>. QED
  BY <1>1, <1>5, <1>8, <1>9, <1>10 DEF IInv

LEMMA ReadPartInv == ASSUME IInv, ReadPart PROVE IInv'
<1>1. /\ SearchIsShown /\ SearchIsShown'
      /\ TokenAt(text, pos, "KEYWORD")
      /\ sets' = sets /\ query' = query /\ result' = result
  BY ShownStays DEF IInv, ReadPart, library
<1>2. PICK k \in 1..Len(result) : \E i \in 0..7 : InASet(k, i)
  BY DEF IInv, ReadPart
<1>3. PICK i \in 0..7 : InASet(k, i)
  BY <1>2
<1>4. i # 7
  BY <1>1, <1>3, AtAPart
<1>. DEFINE part == Parts[i + 1]
            read == IF part = "AMULET" THEN ParseAmulet(text, pos + 1) ELSE ParsePiece(text, pos + 1)
<1>5. /\ text[pos].value = part /\ read.ok
      /\ read.piece = Seen(query, result[k])[part]
      /\ read.next = Start(query, result, k - 1) + Behind(query, result[k], i + 1)
  BY <1>1, <1>3, <1>4, AtAPart, Zenon
<1>6. i + 1 \in 1..7 /\ (i + 1) - 1 = i /\ i + 1 \in 0..7
  BY <1>4
<1>7. part \in Words
  BY <1>6, PartsAre
<1>8. answer = Partly(query, result[k], i)
  BY <1>3 DEF InASet
<1>9. DOMAIN answer = Words
  BY <1>8 DEF Partly
<1>10. /\ answer' = [answer EXCEPT ![part] = read.piece]
       /\ pos' = read.next
       /\ pc' = "in a set"
  BY <1>5, <1>7, <1>9, Zenon DEF ReadPart
<1>11. answer' = Partly(query, result[k], i + 1)
  <2>1. [Partly(query, result[k], (i + 1) - 1)
           EXCEPT ![Parts[i + 1]] = Seen(query, result[k])[Parts[i + 1]]]
          = Partly(query, result[k], i + 1)
    BY <1>6, PartlySteps
  <2>. HIDE DEF read
  <2>. QED
    BY <1>5, <1>6, <1>8, <1>10, <2>1, Zenon
<1>. HIDE DEF read
<1>12. InASet(k, i + 1)'
  BY <1>1, <1>3, <1>5, <1>10, <1>11 DEF InASet
<1>13. Loaded'
  BY <1>1 DEF SearchIsShown
<1>. QED
  BY <1>1, <1>2, <1>6, <1>10, <1>12, <1>13 DEF IInv

LEMMA CompleteSetInv == ASSUME IInv, CompleteSet PROVE IInv'
<1>1. /\ SearchIsShown /\ SearchIsShown'
      /\ TokenAt(text, pos, "CLOSE_PARENTHESIS")
      /\ pc' = "between sets" /\ pos' = pos + 1 /\ sets' = Append(sets, answer)
      /\ query' = query /\ result' = result
  BY ShownStays DEF IInv, CompleteSet, library
<1>2. PICK k \in 1..Len(result) : \E i \in 0..7 : InASet(k, i)
  BY DEF IInv, CompleteSet
<1>3. PICK i \in 0..7 : InASet(k, i)
  BY <1>2
<1>4. i = 7 /\ pos + 1 = Start(query, result, k)
  BY <1>1, <1>3, AtAPart
<1>5. answer = Seen(query, result[k])
  BY <1>3, <1>4, PartlySteps DEF InASet
<1>6. k \in Nat \ {0} /\ k \in 0..Len(result)
  <2>1. Len(result) \in Nat
    BY <1>1, ShownIs
  <2>. QED
    BY <2>1
<1>7. sets' = FirstSeen(query, result, k)
  BY <1>1, <1>3, <1>5, <1>6, FirstSeenSteps DEF InASet
<1>8. BetweenSets(k)'
  BY <1>1, <1>4, <1>7 DEF BetweenSets
<1>9. Loaded'
  BY <1>1 DEF SearchIsShown
<1>. QED
  BY <1>1, <1>6, <1>8, <1>9 DEF IInv

LEMMA StopReadingInv == ASSUME IInv, StopReading PROVE IInv'
<1>1. /\ SearchIsShown /\ SearchIsShown'
      /\ pc' = "returned" /\ sets' = sets /\ query' = query /\ result' = result
  BY ShownStays DEF IInv, StopReading, library
<1>2. CASE pc = "between sets"
  <2>1. PICK k \in 0..Len(result) : BetweenSets(k)
    BY <1>2 DEF IInv
  <2>2. ~TokenAt(text, pos, "OPEN_PARENTHESIS")
    BY <1>2 DEF StopReading
  <2>3. k = Len(result)
    BY <1>1, <2>1, <2>2, AtASet
  <2>4. sets = FirstSeen(query, result, Len(result))
    BY <2>1, <2>3 DEF BetweenSets
  <2>5. Loaded'
    BY <1>1 DEF SearchIsShown
  <2>. QED
    BY <1>1, <2>4, <2>5 DEF IInv
<1>3. CASE pc = "in a set"
  <2>1. PICK k \in 1..Len(result) : \E i \in 0..7 : InASet(k, i)
    BY <1>3 DEF IInv
  <2>2. PICK i \in 0..7 : InASet(k, i)
    BY <2>1
  <2>3. ~TokenAt(text, pos, "KEYWORD") /\ ~TokenAt(text, pos, "CLOSE_PARENTHESIS")
    BY <1>3 DEF StopReading
  <2>. QED
    BY <1>1, <2>2, <2>3, AtAPart
<1>. QED
  BY <1>2, <1>3 DEF StopReading

LEMMA NextInv == ASSUME IInv, [Next]_vars PROVE IInv'
<1>1. CASE Initialize
  BY <1>1, LoadedAtOnce DEF Initialize, IInv
<1>2. CASE DoSearch
  BY <1>2, DoSearchInv
<1>3. CASE DoSearchAborts
  BY <1>3, LoadedStays DEF DoSearchAborts, IInv
<1>4. CASE OpenSet
  BY <1>4, OpenSetInv
<1>5. CASE ReadPart
  BY <1>5, ReadPartInv
<1>6. CASE CompleteSet
  BY <1>6, CompleteSetInv
<1>7. CASE StopReading
  BY <1>7, StopReadingInv
<1>8. CASE UseResult
  BY <1>8, LoadedStays DEF UseResult, IInv
<1>9. CASE UNCHANGED vars
  <2>1. /\ pc' = pc /\ pos' = pos /\ sets' = sets /\ answer' = answer
        /\ query' = query /\ result' = result /\ UNCHANGED <<tables, library, text>>
    BY <1>9 DEF vars, library
  <2>2. Loaded => Loaded'
    BY <2>1, LoadedStays
  <2>3. SearchIsShown => SearchIsShown'
    BY <2>1, ShownStays
  <2>4. /\ \A k : BetweenSets(k) => BetweenSets(k)'
        /\ \A k, i : InASet(k, i) => InASet(k, i)'
    BY <2>1 DEF BetweenSets, InASet
  <2>. QED
    BY <2>1, <2>2, <2>3, <2>4 DEF IInv
<1>. QED
  BY <1>1, <1>2, <1>3, <1>4, <1>5, <1>6, <1>7, <1>8, <1>9 DEF Next

LEMMA Invariant == Spec => []IInv
BY InitInv, NextInv, PTL DEF Spec

(* Data::LoadBinary, ReindexedTable: however many rows the dataset has,    *)
(* the internal id of each is its row, and leads back to its external id.  *)
THEOREM IdsLeadToRows == Spec => []IdsMeanTheirRows
<1>1. IInv => IdsMeanTheirRows
  BY LoadedMeansRows DEF IInv, IdsMeanTheirRows, ArmorIds
<1>. QED
  BY <1>1, Invariant, PTL

(* DoSearch, DexFormatter and Wrapper.Search: the C# caller gets just the  *)
(* sets of its own search, whatever was searched before, however many they *)
(* are and whatever armors, jewels and effects are in them.                *)
THEOREM SetsArriveWhole == Spec => []CallerSeesWhatWasFound
<1>1. IInv => CallerSeesWhatWasFound
  <2>1. SUFFICES ASSUME IInv, pc = "returned"
                 PROVE  sets = [k \in DOMAIN result |-> AsSeen(result[k])]
    BY DEF CallerSeesWhatWasFound
  <2>2. sets = [k \in 1..Len(result) |-> Seen(query, result[k])]
    BY <2>1 DEF IInv, FirstSeen
  <2>3. DOMAIN result = 1..Len(result)
    BY <2>1 DEF IInv, SearchIsShown
  <2>4. \A k : AsSeen(result[k]) = Seen(query, result[k])
    BY AsSeenIs
  <2>. QED
    BY <2>2, <2>3, <2>4
<1>. QED
  BY <1>1, Invariant, PTL
=============================================================================
