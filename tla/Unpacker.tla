------------------------------ MODULE Unpacker ------------------------------
(***************************************************************************)
(* class Unpacker of cpp/core/pruners.h: it walks the trees of its source  *)
(* and gives the armor sets they hold one at a time, keeping only a stack  *)
(* of positions between two calls.  The source is the list of the roots    *)
(* of the foundation, in any order (ListIterator).                         *)
(***************************************************************************)
EXTENDS Unpacking

CONSTANT MaxResets \* bound: calls of Reset

VARIABLES
  pool,    \* the node pool
  roots,   \* list_ of the source
  pointer, \* pointer_ of the source: roots it has given
  stack,   \* stack_[0 .. top_]
  given,   \* ghost: the armor sets given since the last Reset, in order
  more,    \* what the last Next returned
  resets   \* calls of Reset so far

vars == <<pool, roots, pointer, stack, given, more, resets>>

Init ==
  /\ \E query \in Queries :
       LET forest == Foundation(Arsenal(query), query)
       IN  /\ pool = forest.pool
           /\ roots \in SetToSeqs(ToSet(forest.forest))
  /\ pointer = 0
  /\ stack = <<>>
  /\ given = <<>>
  /\ more = TRUE
  /\ resets = 0

(* Next, when the current tree has another armor set.                      *)
NextSet ==
  /\ more
  /\ Advance(pool, stack) # <<>>
  /\ stack' = Advance(pool, stack)
  /\ given' = Append(given, RawIds(pool, stack'))
  /\ UNCHANGED <<pool, roots, pointer, more, resets>>

(* Next, when the source has another tree.                                 *)
NextTree ==
  /\ more
  /\ Advance(pool, stack) = <<>>
  /\ pointer < Len(roots)
  /\ pointer' = pointer + 1
  /\ stack' = Descend(pool, roots[pointer'])
  /\ given' = Append(given, RawIds(pool, stack'))
  /\ UNCHANGED <<pool, roots, more, resets>>

(* Next returns false.                                                     *)
NoMore ==
  /\ more
  /\ Advance(pool, stack) = <<>>
  /\ pointer = Len(roots)
  /\ stack' = <<>>
  /\ more' = FALSE
  /\ UNCHANGED <<pool, roots, pointer, given, resets>>

Reset ==
  /\ resets < MaxResets
  /\ pointer' = 0
  /\ stack' = <<>>
  /\ given' = <<>>
  /\ more' = TRUE
  /\ resets' = resets + 1
  /\ UNCHANGED <<pool, roots>>

NextCall == NextSet \/ NextTree \/ NoMore
Next == NextCall \/ Reset

Spec == Init /\ [][Next]_vars /\ WF_vars(NextCall)

-----------------------------------------------------------------------------
Held == UNION { SetsOf(pool, id) : id \in ToSet(roots) }

(* The stack, restored from a position, never shows a set twice and never  *)
(* one the trees do not hold; "no more" comes when all have been shown.    *)
Promise == INSTANCE SetSource WITH
  None <- <<>>,
  all  <- Held,
  left <- Held \ ToSet(given),
  out  <- IF more /\ given # <<>> THEN given[Len(given)] ELSE <<>>

GivesEverySetOnce == Promise!Spec

(* Every set of the forest is given at last, resets or not.                *)
AllGivenAtLast == <>[](~more /\ ToSet(given) = Held)
=============================================================================
