------------------------------- MODULE DexText -------------------------------
(***************************************************************************)
(* The text in which winbind.dll hands its results to its caller: what     *)
(* DexFormatter writes (src/cpp/utils/formatter.h) and what the C# wrapper *)
(* reads of it (parser.cs, armor_up_wrapper.cs).                           *)
(*                                                                         *)
(* A text is a sequence of the reader's tokens.  The writer puts a blank   *)
(* or a parenthesis between any two numbers and a blank behind each        *)
(* keyword, so that the reader finds the tokens the writer meant.          *)
(***************************************************************************)
EXTENDS Integers, Sequences

Token(name, value) == [name |-> name, value |-> value]
OPEN == Token("OPEN_PARENTHESIS", 0)
CLOSE == Token("CLOSE_PARENTHESIS", 0)
Number(n) == Token("NUMBER", n)
Keyword(word) == Token("KEYWORD", word)
-----------------------------------------------------------------------------
(* The writer.                                                             *)

Numbers(list) == [k \in DOMAIN list |-> Number(list[k])]

(* WriteVector, and the list that WriteJewels writes.                      *)
WriteVector(list) == <<OPEN>> \o Numbers(list) \o <<CLOSE>>

(* WriteArmor for a weapon or an armor piece: its slots or its id, and the *)
(* jewels; and for an amulet: its effects as (id points id points ...).    *)
WritePiece(word, id, jewels) ==
  <<Keyword(word), OPEN, Number(id)>> \o WriteVector(jewels) \o <<CLOSE>>
WriteAmulet(effects, jewels) ==
  <<Keyword("AMULET"), OPEN>> \o WriteVector(effects) \o WriteVector(jewels) \o <<CLOSE>>
-----------------------------------------------------------------------------
(* The reader (Tokenizer and the Parse methods).  A parse of text from     *)
(* position p yields whether it succeeded, the position behind what it     *)
(* consumed, and what it read.                                             *)

TokenAt(text, p, name) == p \in DOMAIN text /\ text[p].name = name

(* ExpectIntegerList: the token it begins with is skipped unseen; the list *)
(* ends with the first token that is no number, which should close it.     *)
ListEnd(text, p) ==
  CHOOSE q \in (p + 1)..(Len(text) + 1) :
    /\ ~TokenAt(text, q, "NUMBER")
    /\ \A r \in (p + 1)..(q - 1) : TokenAt(text, r, "NUMBER")

ExpectIntegerList(text, p) ==
  LET end == ListEnd(text, p) IN
  [ok |-> TokenAt(text, end, "CLOSE_PARENTHESIS"), next |-> end + 1,
   list |-> [k \in 1..(end - p - 1) |-> text[p + k].value]]

(* ArmorSetPiece.Parse.                                                    *)
ParsePiece(text, p) ==
  LET jewels == ExpectIntegerList(text, p + 2) IN
  [ok |-> /\ TokenAt(text, p + 1, "NUMBER")
          /\ jewels.ok /\ TokenAt(text, jewels.next, "CLOSE_PARENTHESIS"),
   next |-> jewels.next + 1,
   piece |-> [id |-> text[p + 1].value, jewels |-> jewels.list]]

(* The first two effects of an amulet are kept.                            *)
EffectPairs(list) ==
  [k \in 1..(IF Len(list) >= 4 THEN 2 ELSE IF Len(list) >= 2 THEN 1 ELSE 0) |->
     <<list[2 * k - 1], list[2 * k]>>]

(* Amulet.Parse.                                                           *)
ParseAmulet(text, p) ==
  LET effects == ExpectIntegerList(text, p + 1)
      jewels == ExpectIntegerList(text, effects.next) IN
  [ok |-> /\ effects.ok /\ jewels.ok
          /\ TokenAt(text, jewels.next, "CLOSE_PARENTHESIS"),
   next |-> jewels.next + 1,
   piece |-> [effects |-> EffectPairs(effects.list), jewels |-> jewels.list]]
=============================================================================
