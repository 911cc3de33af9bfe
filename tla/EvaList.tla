------------------------------ MODULE EvaList ------------------------------
(***************************************************************************)
(* src/lisp/engine/eva-list.lisp: a lazy list that a worker thread         *)
(* evaluates ahead of the reader that takes its elements one by one.       *)
(*                                                                         *)
(* Nodes are numbered from 0; node i holds the element i, and the number   *)
(* length stands for nil.  cdr$ is the external macro of the lazy list: it *)
(* evaluates the rest behind a node when nobody has done so yet, keeps it, *)
(* and takes time to do it.  Two threads that both find the rest missing   *)
(* evaluate it twice.                                                      *)
(***************************************************************************)
EXTENDS Integers, Sequences

CONSTANTS
  MaxLength,  \* lists of up to so many nodes are looked at
  ExtraCalls  \* so often the reader asks again after the end

ASSUME MaxLengthAssumption == MaxLength \in Nat
ASSUME ExtraCallsAssumption == ExtraCalls \in Nat

VARIABLES
  length,    \* nodes of the list behind the generator
  rests,     \* the nodes whose rest is evaluated and kept
  evals,     \* how often the rest of a node has been asked of the generator
  pointer,   \* the worker's loop variable
  worker,    \* "test" | "step" | "cdr" | "done"
  filled,    \* (eva-list-filled result)
  current,   \* (eva-list-current eva-list-obj)
  index,     \* (eva-list-index eva-list-obj)
  reader,    \* "idle" | "waiting" | "step" | "cdr"
  returned   \* what the calls of next-ele returned, in order

list == <<length, rests, evals>>
vars == <<list, pointer, worker, filled, current, index, reader, returned>>

NIL == -1

Init ==
  /\ length \in 0..MaxLength
  /\ rests = {}
  /\ evals = [i \in 0..(MaxLength - 1) |-> 0]
  /\ pointer = 0
  /\ worker = "test"
  /\ filled = -1
  /\ current = 0
  /\ index = 0
  /\ reader = "idle"
  /\ returned = << >>

(* cdr$ asks the generator for the rest of a node when nobody has it yet   *)
EnterCdr(node) ==
  /\ evals' = IF node \in rests THEN evals ELSE [evals EXCEPT ![node] = @ + 1]
  /\ UNCHANGED <<length, rests>>

(* and has it when it returns.                                             *)
LeaveCdr(node) ==
  /\ rests' = rests \union {node}
  /\ UNCHANGED <<length, evals>>
-----------------------------------------------------------------------------
(* The worker thread of create-eva-list.                                   *)

(* "until (null pointer) do (incf filled)" at a node.                      *)
CountNode ==
  /\ worker = "test" /\ pointer < length
  /\ filled' = filled + 1
  /\ worker' = "step"
  /\ UNCHANGED <<list, pointer, current, index, reader, returned>>

(* "then (cdr$ pointer)".                                                  *)
WorkerEntersCdr ==
  /\ worker = "step"
  /\ EnterCdr(pointer)
  /\ worker' = "cdr"
  /\ UNCHANGED <<pointer, filled, current, index, reader, returned>>

WorkerLeavesCdr ==
  /\ worker = "cdr"
  /\ LeaveCdr(pointer)
  /\ pointer' = pointer + 1
  /\ worker' = "test"
  /\ UNCHANGED <<filled, current, index, reader, returned>>

(* A mutant: one more is counted, which is the number of nodes.            *)
Exhausted_ByOne ==
  /\ worker = "test" /\ pointer = length
  /\ filled' = filled + 1
  /\ worker' = "done"
  /\ UNCHANGED <<list, pointer, current, index, reader, returned>>

(* The loop has met nil: one more than the number of nodes lets the reader *)
(* see the end.                                                            *)
Exhausted ==
  /\ worker = "test" /\ pointer = length
  /\ filled' = filled + 2
  /\ worker' = "done"
  /\ UNCHANGED <<list, pointer, current, index, reader, returned>>

Work == CountNode \/ WorkerEntersCdr \/ WorkerLeavesCdr \/ Exhausted
-----------------------------------------------------------------------------
(* The thread that calls next-ele; there is one.                           *)

CallNextEle ==
  /\ reader = "idle" /\ Len(returned) < length + ExtraCalls
  /\ reader' = "waiting"
  /\ UNCHANGED <<list, pointer, worker, filled, current, index, returned>>

(* A mutant: the reader goes on at the node the worker is at.              *)
TakeNode_AtFilled ==
  /\ reader = "waiting" /\ index <= filled /\ current # length
  /\ index' = index + 1
  /\ reader' = "step"
  /\ UNCHANGED <<list, pointer, worker, filled, current, returned>>

(* The polling loop ends at a node: index moves on before cdr$ is called.  *)
TakeNode ==
  /\ reader = "waiting" /\ index < filled /\ current # length
  /\ index' = index + 1
  /\ reader' = "step"
  /\ UNCHANGED <<list, pointer, worker, filled, current, returned>>

(* The polling loop ends at nil.                                           *)
ReturnNil ==
  /\ reader = "waiting" /\ index < filled /\ current = length
  /\ returned' = Append(returned, NIL)
  /\ reader' = "idle"
  /\ UNCHANGED <<list, pointer, worker, filled, current, index>>

(* A mutant: the element is read behind the step.                          *)
HandOver_AfterStep ==
  /\ current' = current + 1
  /\ returned' = Append(returned, current')
  /\ reader' = "idle"

(* current := cdr$ of the node, and its car$ is the answer.                *)
HandOver ==
  /\ current' = current + 1
  /\ returned' = Append(returned, current)
  /\ reader' = "idle"

ReaderEntersCdr ==
  /\ reader = "step"
  /\ EnterCdr(current)
  /\ reader' = "cdr"
  /\ UNCHANGED <<pointer, worker, filled, current, index, returned>>

ReaderLeavesCdr ==
  /\ reader = "cdr"
  /\ LeaveCdr(current)
  /\ HandOver
  /\ UNCHANGED <<pointer, worker, filled, index>>

Read == TakeNode \/ ReturnNil \/ ReaderEntersCdr \/ ReaderLeavesCdr

Next == Work \/ CallNextEle \/ Read

(* Both threads run; nobody is obliged to call next-ele.                   *)
Fairness == WF_vars(Work) /\ WF_vars(Read)

Spec == Init /\ [][Next]_vars /\ Fairness
-----------------------------------------------------------------------------
TypeOK ==
  /\ length \in 0..MaxLength
  /\ rests \subseteq 0..(length - 1)
  /\ evals \in [0..(MaxLength - 1) -> Nat]
  /\ pointer \in 0..length /\ current \in 0..length
  /\ worker \in {"test", "step", "cdr", "done"}
  /\ filled \in -1..(length + 1)
  /\ index \in 0..length
  /\ reader \in {"idle", "waiting", "step", "cdr"}
  /\ returned \in Seq(0..(MaxLength - 1) \union {NIL})

(* The reader only ever walks over nodes the worker is done with: no rest  *)
(* is evaluated a second time, and none by the reader.  It is the order of *)
(* "incf filled" before cdr$, of the initial -1 and of "<" that gives it.  *)
EvaluatedOnce ==
  /\ \A i \in DOMAIN evals : evals[i] <= 1
  /\ reader \in {"step", "cdr"} => current \in rests

(* next-ele gives the elements in order, each once, and nil from then on.  *)
InOrder ==
  \A k \in DOMAIN returned :
    returned[k] = IF k <= length THEN k - 1 ELSE NIL

(* A call of next-ele returns, also the ones behind the end of the list.   *)
CallsReturn == reader = "waiting" ~> reader = "idle"
=============================================================================
