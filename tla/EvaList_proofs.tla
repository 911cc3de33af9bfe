-------------------------- MODULE EvaList_proofs --------------------------
(* Theorems of EvaList: for lists of every length and any number of calls. *)
EXTENDS EvaList, TLAPS

(* The rests that are kept are those the worker has walked over, filled    *)
(* tells how far it is, and the reader stays behind it.                    *)
WorkerAhead ==
  /\ rests = 0..(pointer - 1)
  /\ pointer < length \/ worker \in {"test", "done"}
  /\ worker = "test" => filled = pointer - 1
  /\ worker \in {"step", "cdr"} => filled = pointer
  /\ worker = "done" => pointer = length /\ filled = length + 1

ReaderBehind ==
  /\ reader \in {"idle", "waiting"} => index = current
  /\ reader \in {"step", "cdr"} => index = current + 1 /\ current < pointer

(* Each rest is asked for when the worker walks over it.                   *)
EvalsCount ==
  \A i \in DOMAIN evals :
    evals[i] = IF i < pointer \/ (i = pointer /\ worker = "cdr") THEN 1 ELSE 0

(* What has been returned is what lies before current, and then nil.       *)
ReturnedSoFar ==
  /\ current < length => Len(returned) = current
  /\ Len(returned) >= current
  /\ InOrder

IInv == TypeOK /\ WorkerAhead /\ ReaderBehind /\ EvalsCount /\ ReturnedSoFar

(* The strengthened invariant holds before either thread has run.          *)
LEMMA InitInv == Init => IInv
BY MaxLengthAssumption
   DEF Init, IInv, TypeOK, WorkerAhead, ReaderBehind, EvalsCount, ReturnedSoFar, InOrder, NIL

(* Entering cdr$ at the worker's node counts it; at a node behind it does  *)
(* nothing.                                                                *)
LEMMA EnterCounts ==
  ASSUME TypeOK, NEW node \in 0..(MaxLength - 1), EnterCdr(node)
  PROVE  /\ evals' \in [0..(MaxLength - 1) -> Nat]
         /\ node \in rests => evals' = evals
         /\ node \notin rests =>
              \A i \in 0..(MaxLength - 1) :
                evals'[i] = IF i = node THEN evals[i] + 1 ELSE evals[i]
BY MaxLengthAssumption DEF TypeOK, EnterCdr

(* Every step of the worker, of the reader and of its caller keeps it.     *)
LEMMA StepInv == IInv /\ [Next]_vars => IInv'
<1> SUFFICES ASSUME IInv, [Next]_vars PROVE IInv' OBVIOUS
<1> USE MaxLengthAssumption
<1>1. CASE CountNode
  BY <1>1 DEF CountNode, list, IInv, TypeOK, WorkerAhead, ReaderBehind, EvalsCount, ReturnedSoFar, InOrder
<1>2. CASE WorkerEntersCdr
  <2>1. pointer \in 0..(MaxLength - 1) /\ pointer \notin rests
    BY <1>2 DEF WorkerEntersCdr, IInv, TypeOK, WorkerAhead
  <2>2. /\ evals' \in [0..(MaxLength - 1) -> Nat]
        /\ \A i \in 0..(MaxLength - 1) :
             evals'[i] = IF i = pointer THEN evals[i] + 1 ELSE evals[i]
    BY <1>2, <2>1, EnterCounts DEF WorkerEntersCdr, IInv
  <2>3. EvalsCount'
    BY <1>2, <2>1, <2>2 DEF WorkerEntersCdr, IInv, TypeOK, EvalsCount, EnterCdr
  <2>4. QED
    BY <1>2, <2>2, <2>3 DEF WorkerEntersCdr, EnterCdr, IInv, TypeOK, WorkerAhead, ReaderBehind, ReturnedSoFar, InOrder
<1>3. CASE WorkerLeavesCdr
  BY <1>3 DEF WorkerLeavesCdr, LeaveCdr, IInv, TypeOK, WorkerAhead, ReaderBehind, EvalsCount, ReturnedSoFar, InOrder
<1>4. CASE Exhausted
  BY <1>4 DEF Exhausted, list, IInv, TypeOK, WorkerAhead, ReaderBehind, EvalsCount, ReturnedSoFar, InOrder
<1>5. CASE CallNextEle
  BY <1>5 DEF CallNextEle, list, IInv, TypeOK, WorkerAhead, ReaderBehind, EvalsCount, ReturnedSoFar, InOrder
<1>6. CASE TakeNode
  BY <1>6 DEF TakeNode, list, IInv, TypeOK, WorkerAhead, ReaderBehind, EvalsCount, ReturnedSoFar, InOrder
<1>7. CASE ReturnNil
  <2>1. NIL \in 0..(MaxLength - 1) \union {NIL} OBVIOUS
  <2>2. /\ returned' \in Seq(0..(MaxLength - 1) \union {NIL})
        /\ Len(returned') = Len(returned) + 1
        /\ \A k \in DOMAIN returned' :
             returned'[k] = IF k <= Len(returned) THEN returned[k] ELSE NIL
        /\ DOMAIN returned' = 1..(Len(returned) + 1)
    BY <1>7, <2>1 DEF ReturnNil, IInv, TypeOK
  <2>3. InOrder'
    BY <1>7, <2>2 DEF ReturnNil, list, IInv, TypeOK, ReturnedSoFar, InOrder
  <2>4. QED
    BY <1>7, <2>2, <2>3 DEF ReturnNil, list, IInv, TypeOK, WorkerAhead, ReaderBehind, EvalsCount, ReturnedSoFar
<1>8. CASE ReaderEntersCdr
  <2>1. current \in 0..(MaxLength - 1) /\ current \in rests
    BY <1>8 DEF ReaderEntersCdr, IInv, TypeOK, WorkerAhead, ReaderBehind
  <2>2. evals' = evals
    BY <1>8, <2>1, EnterCounts DEF ReaderEntersCdr, IInv
  <2>3. QED
    BY <1>8, <2>2 DEF ReaderEntersCdr, EnterCdr, IInv, TypeOK, WorkerAhead, ReaderBehind, EvalsCount, ReturnedSoFar, InOrder
<1>9. CASE ReaderLeavesCdr
  <2>1. current \in rests /\ current \in 0..(length - 1) /\ Len(returned) = current
    BY <1>9 DEF ReaderLeavesCdr, IInv, TypeOK, WorkerAhead, ReaderBehind, ReturnedSoFar
  <2>2. rests' = rests /\ length' = length /\ evals' = evals
    BY <1>9, <2>1 DEF ReaderLeavesCdr, LeaveCdr
  <2>3. current \in 0..(MaxLength - 1) \union {NIL}
    BY <2>1 DEF IInv, TypeOK
  <2>4. /\ returned' \in Seq(0..(MaxLength - 1) \union {NIL})
        /\ Len(returned') = Len(returned) + 1
        /\ \A k \in DOMAIN returned' :
             returned'[k] = IF k <= Len(returned) THEN returned[k] ELSE current
        /\ DOMAIN returned' = 1..(Len(returned) + 1)
    BY <1>9, <2>3 DEF ReaderLeavesCdr, HandOver, IInv, TypeOK
  <2>5. InOrder'
    BY <2>1, <2>2, <2>4 DEF IInv, TypeOK, ReturnedSoFar, InOrder
  <2>6. ReturnedSoFar'
    BY <1>9, <2>1, <2>2, <2>4, <2>5 DEF ReaderLeavesCdr, HandOver, ReturnedSoFar, IInv, TypeOK
  <2>7. QED
    BY <1>9, <2>1, <2>2, <2>4, <2>6 DEF ReaderLeavesCdr, HandOver, IInv, TypeOK, WorkerAhead, ReaderBehind, EvalsCount
<1>10. CASE UNCHANGED vars
  BY <1>10 DEF vars, list, IInv, TypeOK, WorkerAhead, ReaderBehind, EvalsCount, ReturnedSoFar, InOrder
<1>11. QED
  BY <1>1, <1>2, <1>3, <1>4, <1>5, <1>6, <1>7, <1>8, <1>9, <1>10 DEF Next, Work, Read

(* The two threads never leave the strengthened invariant.                 *)
LEMMA AlwaysIInv == Spec => []IInv
BY InitInv, StepInv, PTL DEF Spec

(* The counters and pointers stay in their types, for every list.          *)
THEOREM TypeCorrect == Spec => []TypeOK
<1>1. IInv => TypeOK BY DEF IInv
<1> QED BY <1>1, AlwaysIInv, PTL

(* The worker evaluates each rest once and the reader none, for every list *)
(* and however the two threads interleave.                                 *)
THEOREM NothingEvaluatedTwice == Spec => []EvaluatedOnce
<1>1. IInv => EvaluatedOnce
  BY DEF IInv, TypeOK, WorkerAhead, ReaderBehind, EvalsCount, EvaluatedOnce
<1> QED BY <1>1, AlwaysIInv, PTL

(* next-ele hands over the elements in order and then nil, for every list. *)
THEOREM ElementsInOrder == Spec => []InOrder
<1>1. IInv => InOrder BY DEF IInv, ReturnedSoFar
<1> QED BY <1>1, AlwaysIInv, PTL
=============================================================================
