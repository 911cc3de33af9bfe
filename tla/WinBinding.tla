----------------------------- MODULE WinBinding -----------------------------
(***************************************************************************)
(* The Windows binding: Initialize and DoSearch of winbind.dll             *)
(* (src/cpp/winbind/winbind/dllmain.cpp) with the dataset tables, the      *)
(* arsenal and the formatter behind them, and Wrapper.Search, which calls  *)
(* it from C# (src/csharp/winbind_wrapper/winbind_wrapper).  One thread    *)
(* calls, as Program.cs does.                                              *)
(*                                                                         *)
(* Which sets a search finds is the business of ArmorSearch; here it finds *)
(* any list of sets made of the armors, jewels and amulets there are.      *)
(***************************************************************************)
EXTENDS DexText, ReindexedTable

CONSTANTS
  SkillRows,  \* the ids of the skill systems in the dataset file, in order
  JewelRows,  \* the ids of its jewels
  ArmorRows,  \* the ids and the parts of its armors
  Queries,    \* query texts, and whether Query::Parse accepts them
  Jewelry,    \* lists of jewels (internal ids) a set may have in one part
  MaxSets,    \* a search finds at most so many sets
  MaxSearches \* Wrapper.Search is called at most so often

Column(rows, field) == [k \in DOMAIN rows |-> rows[k][field]]
Distinct(list) == \A i, j \in DOMAIN list : list[i] = list[j] => i = j

(* AddPredefinedArmors: four weapons of 0 to 3 slots and an empty amulet.  *)
PredefinedIds == <<170001, 170002, 170003, 170004, 170005>>

ASSUME RowsAssumption ==
  /\ Distinct(SkillRows) /\ Distinct(JewelRows)
  /\ Distinct(Column(ArmorRows, "id") \o PredefinedIds)
(* The amulets of a query that can be read are of skills of the dataset:   *)
(* Internalize throws for any other.                                       *)
ASSUME DataAssumption ==
  /\ SkillRows \in Seq(Int) /\ JewelRows \in Seq(Int)
  /\ ArmorRows \in Seq([id : Int, part : STRING])
  /\ Jewelry \subseteq Seq(0..(Len(JewelRows) - 1))
  /\ \A q \in Queries : q.readable =>
       /\ q.slots \in 0..3 /\ q.amulets \in Seq(Seq(Int))
       /\ \A a \in DOMAIN q.amulets : \A k \in 1..(2 * (Len(q.amulets[a]) \div 2)) :
            k % 2 = 1 => \E i \in DOMAIN SkillRows : SkillRows[i] = q.amulets[a][k]
ASSUME BoundsAssumption == MaxSets \in Nat /\ MaxSearches \in Nat

VARIABLES
  skills, jewels, armors, \* the tables of Data
  arsenal,                \* the amulets of the last query
  result, text_response,  \* the buffers of the library
  query,                  \* the query of the call
  text, pos,              \* the caller's Tokenizer
  answer,                 \* the ArmorSet being parsed
  sets,                   \* the list being filled
  pc,                     \* what the caller does next
  searches                \* calls of Wrapper.Search so far

tables == <<skills, jewels, armors>>
library == <<arsenal, result, text_response, query>>
vars == <<tables, library, text, pos, answer, sets, pc, searches>>

(* The order of the enumeration, and the words for it.                     *)
Parts == <<"HEAD", "ARMS", "WAIST", "LEGS", "GEAR", "AMULET", "BODY">>
Pieces == {"HEAD", "ARMS", "WAIST", "LEGS", "GEAR", "BODY"}

NoPiece == [id |-> 0, jewels |-> << >>]
NoAnswer ==
  [part \in Pieces \union {"AMULET"} |->
     IF part = "AMULET" THEN [effects |-> << >>, jewels |-> << >>] ELSE NoPiece]
NoQuery == [readable |-> TRUE, slots |-> 0, amulets |-> << >>]

Init ==
  /\ skills = NewTable /\ jewels = NewTable /\ armors = NewTable
  /\ arsenal = << >> /\ result = << >> /\ text_response = << >> /\ query = NoQuery
  /\ text = << >> /\ pos = 1 /\ answer = NoAnswer /\ sets = << >>
  /\ pc = "loading" /\ searches = 0
-----------------------------------------------------------------------------
(* Data::LoadBinary, with AddPredefinedArmors at its end.                  *)
LoadBinary ==
  /\ skills' = AddAll(NewTable, SkillRows)
  /\ jewels' = AddAll(NewTable, JewelRows)
  /\ armors' = AddAll(AddAll(NewTable, Column(ArmorRows, "id")), PredefinedIds)

(* Initialize is called once.                                              *)
Initialize ==
  /\ pc = "loading"
  /\ LoadBinary
  /\ pc' = "ready"
  /\ UNCHANGED <<library, text, pos, answer, sets, searches>>

WeaponId(slots) == Len(ArmorRows) + slots
EmptyAmulet == Len(ArmorRows) + 4

(* The amulets of a query: (id points id points ...) with internal ids.    *)
InternalEffects(list) ==
  [k \in 1..(2 * (Len(list) \div 2)) |->
     IF k % 2 = 1 THEN Internalize(skills, list[k]) ELSE list[k]]

(* InitializeArsenal: the amulets of this query and of no other.           *)
InitializeArsenal(amulets) ==
  [k \in DOMAIN amulets |-> InternalEffects(amulets[k])]

(* Arsenal::operator[]: ids beyond the table are those of the amulets.     *)
AmuletEffects(amulets, id) ==
  IF id = EmptyAmulet THEN << >> ELSE amulets[id - armors.size + 1]

(* Sets that may be found: any armor of each part or a fixed one, the      *)
(* weapon asked for, any amulet, and jewels in one part.                   *)
ArmorsOf(part) == {k - 1 : k \in {r \in DOMAIN ArmorRows : ArmorRows[r].part = part}}
Outfits ==
  {[HEAD |-> head, ARMS |-> arms, WAIST |-> waist, LEGS |-> legs, BODY |-> body] :
     head \in ArmorsOf("HEAD"), arms \in ArmorsOf("ARMS"), waist \in ArmorsOf("WAIST"),
     legs \in ArmorsOf("LEGS"), body \in ArmorsOf("BODY")}
IdsOf(slots, amulet, worn) ==
  [part \in Pieces \union {"AMULET"} |->
     CASE part = "AMULET" -> amulet
       [] part = "GEAR" -> WeaponId(slots)
       [] OTHER -> worn[part]]
JewelsIn(where, list) ==
  [part \in Pieces \union {"AMULET"} |-> IF part = where THEN list ELSE << >>]
Candidates(slots, amulets) ==
  {[ids |-> IdsOf(slots, amulet, worn), jewels |-> JewelsIn(where, list)] :
     amulet \in {EmptyAmulet} \union {armors.size + k - 1 : k \in DOMAIN amulets},
     worn \in Outfits, where \in {"BODY", "AMULET"}, list \in Jewelry}

ExternalJewels(list) == [k \in DOMAIN list |-> Externalize(jewels, list[k])]

(* A mutant: the ids of the table are written.                             *)
ExternalEffects_Raw(effects) == effects

(* WriteEffects.                                                           *)
ExternalEffects(effects) ==
  [k \in DOMAIN effects |->
     IF k % 2 = 1 THEN Externalize(skills, effects[k]) ELSE effects[k]]

(* DexFormatter::WriteArmor and Format, StringBatchFormat.                 *)
WriteArmor(amulets, set, part) ==
  LET id == set.ids[part]
      list == ExternalJewels(set.jewels[part]) IN
  CASE part = "GEAR" -> WritePiece(part, id - Len(ArmorRows), list)
    [] part = "AMULET" -> WriteAmulet(ExternalEffects(AmuletEffects(amulets, id)), list)
    [] OTHER -> WritePiece(part, Externalize(armors, id), list)

Format(amulets, set) ==
  <<OPEN>>
  \o WriteArmor(amulets, set, Parts[1]) \o WriteArmor(amulets, set, Parts[2])
  \o WriteArmor(amulets, set, Parts[3]) \o WriteArmor(amulets, set, Parts[4])
  \o WriteArmor(amulets, set, Parts[5]) \o WriteArmor(amulets, set, Parts[6])
  \o WriteArmor(amulets, set, Parts[7])
  \o <<CLOSE>>

StringBatchFormat(amulets, found) ==
  LET Written[k \in 0..Len(found)] ==
        IF k = 0 THEN << >> ELSE Written[k - 1] \o Format(amulets, found[k])
  IN Written[Len(found)]

(* DoSearch, and the copy that PtrToStringAnsi makes of what it returns.   *)
DoSearch ==
  /\ pc = "ready" /\ searches < MaxSearches
  /\ query' \in {q \in Queries : q.readable}
  /\ arsenal' = InitializeArsenal(query'.amulets)
  /\ \E n \in 0..MaxSets :
       result' \in [1..n -> Candidates(query'.slots, arsenal')]
  /\ text_response' = StringBatchFormat(arsenal', result')
  /\ text' = text_response' /\ pos' = 1 /\ sets' = << >>
  /\ searches' = searches + 1
  /\ pc' = "between sets"
  /\ UNCHANGED <<tables, answer>>

(* CHECK_SUCCESS of Query::Parse ends the caller's process, and a query    *)
(* without an effect may end it in the Finalizer (ArmorSearch!FinalFault). *)
DoSearchAborts ==
  /\ pc = "ready" /\ searches < MaxSearches
  /\ \E q \in Queries : ~q.readable
  /\ pc' = "aborted"
  /\ UNCHANGED <<tables, library, text, pos, answer, sets, searches>>
-----------------------------------------------------------------------------
(* The loop of Wrapper.Search, and ArmorSet.Parse inside it.               *)

OpenSet ==
  /\ pc = "between sets" /\ TokenAt(text, pos, "OPEN_PARENTHESIS")
  /\ pos' = pos + 1 /\ answer' = NoAnswer
  /\ pc' = "in a set"
  /\ UNCHANGED <<tables, library, text, sets, searches>>

(* ReadInstruction at a keyword; a part that cannot be read ends it all.   *)
ReadPart ==
  /\ pc = "in a set" /\ TokenAt(text, pos, "KEYWORD")
  /\ LET part == text[pos].value
         read == IF part = "AMULET" THEN ParseAmulet(text, pos + 1)
                                    ELSE ParsePiece(text, pos + 1)
     IN /\ answer' = [answer EXCEPT ![part] = read.piece]
        /\ pos' = read.next
        /\ pc' = IF read.ok /\ part \in DOMAIN answer THEN "in a set" ELSE "returned"
  /\ UNCHANGED <<tables, library, text, sets, searches>>

CompleteSet ==
  /\ pc = "in a set" /\ TokenAt(text, pos, "CLOSE_PARENTHESIS")
  /\ pos' = pos + 1
  /\ sets' = Append(sets, answer)
  /\ pc' = "between sets"
  /\ UNCHANGED <<tables, library, text, answer, searches>>

(* Anything else where an instruction or a set should begin.               *)
StopReading ==
  /\ pc \in {"between sets", "in a set"}
  /\ ~TokenAt(text, pos, IF pc = "in a set" THEN "KEYWORD" ELSE "OPEN_PARENTHESIS")
  /\ ~(pc = "in a set" /\ TokenAt(text, pos, "CLOSE_PARENTHESIS"))
  /\ pc' = "returned"
  /\ UNCHANGED <<tables, library, text, pos, answer, sets, searches>>

(* The caller is done with the list and the Tokenizer; the library keeps   *)
(* its buffers.                                                            *)
UseResult ==
  /\ pc = "returned"
  /\ text' = << >> /\ pos' = 1 /\ answer' = NoAnswer /\ sets' = << >>
  /\ pc' = "ready"
  /\ UNCHANGED <<tables, library, searches>>

Next ==
  \/ Initialize \/ DoSearch \/ DoSearchAborts
  \/ OpenSet \/ ReadPart \/ CompleteSet \/ StopReading \/ UseResult

Spec == Init /\ [][Next]_vars
-----------------------------------------------------------------------------
(* Both maps of a table lead back to where one came from.                  *)
LeadBack(table, ids) ==
  /\ table.size = Len(ids)
  /\ \A k \in DOMAIN ids :
       /\ HasExternalId(table, ids[k]) /\ Internalize(table, ids[k]) = k - 1
       /\ Externalize(table, k - 1) = ids[k]

(* Every id of the dataset file leads to its row and back, in each table,  *)
(* whatever else is loaded.                                                *)
IdsMeanTheirRows ==
  pc # "loading" =>
    /\ LeadBack(skills, SkillRows) /\ LeadBack(jewels, JewelRows)
    /\ LeadBack(armors, Column(ArmorRows, "id") \o PredefinedIds)

(* What the caller of the library is to see of a set, in the ids of the    *)
(* dataset file and of its own query: the first two effects of an amulet.  *)
Pairs(list) ==
  [k \in 1..(IF Len(list) \div 2 < 2 THEN Len(list) \div 2 ELSE 2) |->
     <<list[2 * k - 1], list[2 * k]>>]
QueryAmulet(id) ==
  IF id = EmptyAmulet THEN << >> ELSE query.amulets[id - Len(ArmorRows) - 4]
AsSeen(set) ==
  [part \in Pieces \union {"AMULET"} |->
     LET list == [k \in DOMAIN set.jewels[part] |-> JewelRows[set.jewels[part][k] + 1]] IN
     CASE part = "AMULET" -> [effects |-> Pairs(QueryAmulet(set.ids[part])), jewels |-> list]
       [] part = "GEAR" -> [id |-> query.slots, jewels |-> list]
       [] OTHER -> [id |-> ArmorRows[set.ids[part] + 1].id, jewels |-> list]]

(* Wrapper.Search returns the sets that were found, all of them and in     *)
(* order, each with its own armors, jewels and the amulets of this query.  *)
CallerSeesWhatWasFound ==
  pc = "returned" => sets = [k \in DOMAIN result |-> AsSeen(result[k])]
=============================================================================
