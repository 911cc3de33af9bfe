----------------------------- MODULE Regression -----------------------------
(***************************************************************************)
(* The driver of cpp/testing/regression.cc: it reads one query file after  *)
(* the other into one and the same Query object and searches.  Beside it   *)
(* runs a reader that takes a new Query object for each file, as the other *)
(* programs do.                                                            *)
(***************************************************************************)
EXTENDS QueryReader

CONSTANTS
  Files,   \* the texts of query files
  MaxFiles \* bound: files on the command line

VARIABLES
  reader, \* Query::Parse on the Query object of main
  fresh,  \* ghost: Query::Parse of the same file on a new object
  stage,  \* "open" the next file, "parse" it, "search", or "exit"
  files   \* files opened so far

regression_vars == <<reader, fresh, stage, files>>

RegressionInit ==
  /\ reader = [Start(<<>>, NewQuery) EXCEPT !.query = NewQuery]
  /\ fresh = reader
  /\ stage = "open"
  /\ files = 0

ParseFile(text) ==
  /\ stage = "open"
  /\ files < MaxFiles
  /\ reader' = Start(text, reader.query)
  /\ fresh' = Start(text, NewQuery)
  /\ stage' = "parse"
  /\ files' = files + 1

(* A round of the loop of Parse; CHECK_SUCCESS ends the process if it fails.*)
ParseOne ==
  /\ stage = "parse"
  /\ reader' = ReadOne(reader)
  /\ fresh' = ReadOne(fresh)
  /\ stage' = CASE reader'.status = "READING" -> "parse"
                [] reader'.status = "SUCCESS" -> "search"
                [] OTHER -> "exit"
  /\ UNCHANGED files

(* ArmorUp::Search and the verifier, with the query of main.  Without an   *)
(* effect the search may read behind the empty list of jewel keys.         *)
Search ==
  /\ stage = "search"
  /\ \/ stage' = "open"
     \/ reader.query.effects = <<>> /\ stage' = "exit"
  /\ UNCHANGED <<reader, fresh, files>>

RegressionNext == (\E text \in Files : ParseFile(text)) \/ ParseOne \/ Search

RegressionSpec == RegressionInit /\ [][RegressionNext]_regression_vars

-----------------------------------------------------------------------------
(* What stays of the files before, after any number of them and at every   *)
(* moment of a parse, is avoid_negative and nothing else; the position and *)
(* the outcome of the parse do not depend on it either.                    *)
Besides(r) == [r EXCEPT !.query.avoid_negative = FALSE]
OnlyAvoidNegativeStays == Besides(reader) = Besides(fresh)
=============================================================================
