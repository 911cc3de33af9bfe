------------------------------- MODULE Lexing -------------------------------
(***************************************************************************)
(* The text of a query as class Tokenizer of cpp/lisp/parser.h reads it: a *)
(* sequence of lexemes [name], with their number or their word if they have*)
(* one.  Names beside those of TokenName:                                  *)
(*   MINUS    a NUMBER token with no digits, which std::stoi throws on     *)
(*   BROKEN   an N that is not NIL, on which the tokenizer exits           *)
(* INVALID_TOKEN is anything no token starts with; it is never consumed.   *)
(***************************************************************************)
EXTENDS Integers, Sequences, FiniteSetsExt, SequencesExt

Open  == [name |-> "OPEN_PARENTHESIS"]
Close == [name |-> "CLOSE_PARENTHESIS"]
Keyword(word) == [name |-> "KEYWORD", word |-> word]
String(word) == [name |-> "STRING", word |-> word]
Number(n) == [name |-> "NUMBER", number |-> n]
True == [name |-> "TRUE_VALUE"]
Nil  == [name |-> "NIL"]
Minus == [name |-> "MINUS"]
Broken == [name |-> "BROKEN"]
Invalid == [name |-> "INVALID_TOKEN"]

(* No command and no value of an option is spelled like this.              *)
Fragment == "fragment"

-----------------------------------------------------------------------------
(* A reader is a text, the position in it, the token and the numbers read  *)
(* last, the query made of it so far, and how the reading goes.            *)

AtEnd(r) == r.pos > Len(r.text)
Token(r) == r.text[r.pos]
Reading(r) == r.status = "READING"
Fail(r)  == [r EXCEPT !.status = "FAIL"]
Abort(r) == [r EXCEPT !.status = "ABORT"]

(* Tokenizer::Next, of a token that can be read.                           *)
Take(r) == [r EXCEPT !.pos = IF Token(r) = Invalid THEN @ ELSE @ + 1,
                     !.token = Token(r)]

(* The tokens after that at pos that are no numbers, and the numbers       *)
(* between it and the first of them.                                       *)
Stops(r) == { p \in r.pos + 1 .. Len(r.text) : r.text[p].name # "NUMBER" }
Items(r, end) == [n \in 1 .. end - r.pos - 1 |-> r.text[r.pos + n].number]

(* A mutant: the end of the text ends a list.                              *)
ReadList_EndsWithText(r) ==
  LET end == IF Stops(r) = {} THEN Len(r.text) + 1 ELSE Min(Stops(r))
  IN  IF ~Reading(r) THEN r
      ELSE [r EXCEPT !.pos = Min({end, Len(r.text)}) + 1, !.nums = Items(r, end)]

(* ParseList<int>::Do: NIL, or numbers in parentheses.  Its CHECKs end the *)
(* process on anything else, and so does std::stoi.                        *)
ReadList(r) ==
  LET end == Min(Stops(r))
  IN  IF ~Reading(r) THEN r
      ELSE IF AtEnd(r) THEN Abort(r)
      ELSE IF Token(r) = Nil THEN [Take(r) EXCEPT !.nums = <<>>]
      ELSE IF Token(r) # Open \/ Stops(r) = {} THEN Abort(r)
      ELSE IF r.text[end] # Close THEN Abort(r)
      ELSE [r EXCEPT !.pos = end + 1, !.token = Close, !.nums = Items(r, end)]

-----------------------------------------------------------------------------
(* A text that is cut into two pieces, between two lexemes or within one.  *)

(* What is left of a number that loses its last digits, as many of them as *)
(* an int can have but not all.                                            *)
Shortened(n, d) == IF n < 0 THEN -((-n) \div d) ELSE n \div d
LosesDigits(n) == { d \in { 10^k : k \in 1..9 } : d <= n \/ d <= -n }
Shorter(n) == { Shortened(n, d) : d \in LosesDigits(n) }

(* The two parts of a lexeme that is cut: a number between two digits or   *)
(* behind its sign.                                                        *)
CutLexeme(x) ==
  CASE x.name = "NUMBER" ->
         (IF x.number < 0 THEN { <<Minus, Number(-x.number)>> } ELSE {})
         \union
         { <<Number(Shortened(x.number, d)),
             Number((IF x.number < 0 THEN -x.number ELSE x.number) % d)>> :
             d \in LosesDigits(x.number) }
    [] x.name = "KEYWORD" -> { <<Keyword(Fragment), Invalid>> }
    [] x.name = "STRING"  -> { <<String(Fragment), Invalid>> }
    [] x.name = "NIL"     -> { <<Broken, Invalid>> }
    [] OTHER -> {}

Cuts(text) ==
  { <<SubSeq(text, 1, n), SubSeq(text, n + 1, Len(text))>> :
      n \in 1 .. Len(text) - 1 }
  \union
  UNION { { <<Append(SubSeq(text, 1, n - 1), x[1]),
              <<x[2]>> \o SubSeq(text, n + 1, Len(text))>> :
              x \in CutLexeme(text[n]) } : n \in DOMAIN text }
=============================================================================
