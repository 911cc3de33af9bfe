---------------------------- MODULE QueryReader ----------------------------
(***************************************************************************)
(* Query::Parse of cpp/utils/query.h, over a reader of Lexing; token and   *)
(* nums are its local variables of that name.  What a failing parse has    *)
(* stored in the query stays there.                                        *)
(***************************************************************************)
EXTENDS Lexing

CONSTANTS
  Skills, Armors, Jewels \* the tables: external id -> internal id

-----------------------------------------------------------------------------
NoFilter == [min_rare |-> 0, max_rare |-> 0, weapon_type |-> "melee",
             weapon_slots |-> 0, gender |-> "male",
             whitelist |-> {}, blacklist |-> {}]

(* The constructor of Query.                                               *)
NewQuery ==
  [effects |-> <<>>, amulets |-> <<>>, defense |-> 0, max_results |-> 10,
   avoid_negative |-> FALSE, armor_filter |-> NoFilter,
   jewel_filter |-> [blacklist |-> {}]]

(* A mutant: the jewels banned in the last query stay banned.              *)
Clear_KeepsJewels(query) ==
  [effects |-> <<>>, amulets |-> <<>>, defense |-> 0, max_results |-> 10,
   avoid_negative |-> query.avoid_negative,
   armor_filter |-> [NoFilter EXCEPT !.max_rare = 11],
   jewel_filter |-> query.jewel_filter]

(* Clear: every member but avoid_negative.                                 *)
Clear(query) ==
  [effects |-> <<>>, amulets |-> <<>>, defense |-> 0, max_results |-> 10,
   avoid_negative |-> query.avoid_negative,
   armor_filter |-> [NoFilter EXCEPT !.max_rare = 11],
   jewel_filter |-> [blacklist |-> {}]]

-----------------------------------------------------------------------------
(* The next token, which has to have the name.                             *)
Expect(r, name) ==
  IF ~Reading(r) THEN r
  ELSE IF AtEnd(r) THEN Fail(r)
  ELSE IF Token(r) = Broken THEN Abort(r)
  ELSE IF Token(r).name # name THEN Fail(Take(r))
  ELSE Take(r)

ReadInt(r) ==
  IF Reading(r) /\ ~AtEnd(r) /\ Token(r) = Minus THEN Abort(r)
  ELSE Expect(r, "NUMBER")

(* ReadWeaponType and ReadGender.                                          *)
ReadChoice(r, words) ==
  LET s == Expect(r, "STRING")
  IN  IF Reading(s) /\ s.token.word \notin words THEN Fail(s) ELSE s

(* ReadBool: its result is false before anything is read.  The only caller *)
(* has it write to avoid_negative.                                         *)
ReadBool(r) ==
  LET s == [r EXCEPT !.query.avoid_negative = FALSE]
  IN  IF AtEnd(s) THEN Fail(s)
      ELSE IF Token(s) = Broken THEN Abort(s)
      ELSE IF Token(s) = True THEN [Take(s) EXCEPT !.query.avoid_negative = TRUE]
      ELSE IF Token(s) = Nil THEN Take(s)
      ELSE Fail(Take(s))

(* Internalize throws on an id it does not know.                           *)
ReadSkill(r) ==
  LET s == ReadInt(r)
      t == ReadInt(s)
  IN  IF ~Reading(t) THEN t
      ELSE IF s.token.number \notin DOMAIN Skills THEN Abort(t)
      ELSE [t EXCEPT !.query.effects =
              Append(@, [id |-> Skills[s.token.number], points |-> t.token.number])]

(* Effects of a flat list <<id, points, id, points, ...>>.                  *)
PairUp(nums) ==
  [n \in 1 .. Len(nums) \div 2 |->
     [id |-> Skills[nums[2 * n - 1]], points |-> nums[2 * n]]]

ReadAmulet(r) ==
  LET s == ReadInt(r)
      t == ReadList(s)
  IN  IF ~Reading(t) THEN t
      ELSE IF \E n \in 1 .. Len(t.nums) \div 2 : t.nums[2 * n - 1] \notin DOMAIN Skills
           THEN Abort(t)
      ELSE [t EXCEPT !.query.amulets =
              Append(@, [slots |-> s.token.number, effects |-> PairUp(t.nums)])]

(* The argument of a command that has one, and where it is stored.         *)
ReadArgument(r, word) ==
  CASE word \in {"defense", "max-results", "weapon-slots", "rare", "max-rare"} ->
         ReadInt(r)
    [] word = "weapon-type" -> ReadChoice(r, {"melee", "range"})
    [] word = "gender" -> ReadChoice(r, {"male", "female"})
    [] word \in {"blacklist", "specify-armor", "ban-jewels"} -> ReadList(r)
    [] OTHER -> Fail(r)

(* The ids of a list that the table knows, internalised.                   *)
Known(table, ids) == { table[id] : id \in ToSet(ids) \intersect DOMAIN table }

Store(r, word) ==
  CASE word = "defense" -> [r EXCEPT !.query.defense = r.token.number]
    [] word = "max-results" -> [r EXCEPT !.query.max_results = r.token.number]
    [] word = "weapon-slots" ->
         [r EXCEPT !.query.armor_filter.weapon_slots = r.token.number]
    [] word = "rare" -> [r EXCEPT !.query.armor_filter.min_rare = r.token.number]
    [] word = "max-rare" -> [r EXCEPT !.query.armor_filter.max_rare = r.token.number]
    [] word = "weapon-type" ->
         [r EXCEPT !.query.armor_filter.weapon_type = r.token.word]
    [] word = "gender" -> [r EXCEPT !.query.armor_filter.gender = r.token.word]
    [] word = "blacklist" ->
         [r EXCEPT !.query.armor_filter.blacklist = @ \union Known(Armors, r.nums)]
    [] word = "specify-armor" ->
         [r EXCEPT !.query.armor_filter.whitelist = @ \union Known(Armors, r.nums)]
    [] word = "ban-jewels" ->
         [r EXCEPT !.query.jewel_filter.blacklist = @ \union Known(Jewels, r.nums)]

(* The switch of Parse.                                                    *)
ReadCommand(r, word) ==
  CASE word = "skill" -> ReadSkill(r)
    [] word = "amulet" -> ReadAmulet(r)
    [] word = "avoid-negative" -> ReadBool(r)
    [] OTHER -> LET s == ReadArgument(r, word)
                IN  IF Reading(s) THEN Store(s, word) ELSE s

(* ExpectCloseParen, whose result Parse ignores: any token will do.        *)
CloseCommand(r) ==
  IF ~Reading(r) \/ AtEnd(r) THEN r
  ELSE IF Token(r) = Broken THEN Abort(r)
  ELSE Take(r)

(* One round of the loop of Parse.                                         *)
ReadOne(r) ==
  LET s == Expect(Expect(r, "OPEN_PARENTHESIS"), "KEYWORD")
  IN  IF ~Reading(r) THEN r
      ELSE IF AtEnd(r) THEN [r EXCEPT !.status = "SUCCESS"]
      ELSE IF ~Reading(s) THEN s
      ELSE CloseCommand(ReadCommand(s, s.token.word))

Start(text, query) ==
  [text |-> text, pos |-> 1, token |-> Invalid, nums |-> <<>>,
   query |-> Clear(query), status |-> "READING"]

(* The loop of Parse: each round takes a token or ends it.                 *)
Rounds(text, query) ==
  LET after[n \in 0 .. Len(text) + 1] ==
        IF n = 0 THEN Start(text, query) ELSE ReadOne(after[n - 1])
  IN  after

Parse(text, query) == Rounds(text, query)[Len(text) + 1]
=============================================================================
