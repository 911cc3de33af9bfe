--------------------------- MODULE SearchPromise ---------------------------
(***************************************************************************)
(* What a search promises its user: it finds answers to the query, one by  *)
(* one and none of them twice, until it has as many as were asked for.  If *)
(* it ends before, and the query is one it is exact for, it has found them *)
(* all.  A negative number asks for all.                                   *)
(***************************************************************************)
EXTENDS Integers, Sequences, SequencesExt

VARIABLES
  answers, \* the armor sets that answer the query
  most,    \* how many are asked for
  exact,   \* none of them may be missed
  found,   \* those found so far, in order
  done     \* no search is going on

Init == found = <<>> /\ done = TRUE

Search ==
  /\ done
  /\ found' = <<>>
  /\ done' = FALSE

Find ==
  /\ ~done
  /\ \E answer \in answers \ ToSet(found) : found' = Append(found, answer)
  /\ done' = (most >= 0 /\ Len(found') >= most)
  /\ UNCHANGED <<answers, most, exact>>

Finish ==
  /\ ~done
  /\ exact => answers = ToSet(found)
  /\ done' = TRUE
  /\ UNCHANGED <<answers, most, exact, found>>

Next == Search \/ Find \/ Finish

Spec == Init /\ [][Next]_<<answers, most, exact, found, done>>
=============================================================================
