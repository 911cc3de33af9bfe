----------------------------- MODULE LispEngine -----------------------------
(***************************************************************************)
(* A search of the Lisp engine, driven from outside: every call of emit    *)
(* runs the bodies as far as the next armor set needs (emitter.lisp,       *)
(* armor-up.lisp), and the emitter may be reset at any time.  One step is  *)
(* one call.                                                               *)
(***************************************************************************)
EXTENDS LispSearch

CONSTANT Queries \* the queries asked

VARIABLES query,   \* what was asked
          emitter, \* the emitter of armor sets
          emitted, \* what it has given since the start or the last reset
          before,  \* what it had given by the last reset, and its status then
          status   \* "going", "ended" when it gave nil, "fault" on an error

vars == <<query, emitter, emitted, before, status>>

-----------------------------------------------------------------------------
Emitted(e, x) == [e |-> e, x |-> x, fault |-> FALSE]

EmitList(e) ==
  IF e.upper = <<>> THEN Emitted(e, <<>>)
  ELSE Emitted([e EXCEPT !.upper = Tail(@)], <<Head(e.upper)>>)

EmitCircular(e) ==
  EmitList(IF e.upper = <<>> THEN [e EXCEPT !.upper = e.input] ELSE e)

(* cons, if both have given an element.                                    *)
Merged(a, b) ==
  IF a = <<>> \/ b = <<>> THEN <<>> ELSE << <<a[1].id>> \o b[1] >>

(* A call of an emitter: the emitter after it and <<>> or the value given. *)
RECURSIVE Emit(_)
Emit(e) ==
  CASE e.kind = "list" -> EmitList(e)
    [] e.kind = "circular" -> EmitCircular(e)
    [] e.kind = "merge" ->
         LET a == Emit(e.upperA)
             b == Emit(e.upperB)
         IN  [e |-> [e EXCEPT !.upperA = a.e, !.upperB = b.e],
              x |-> Merged(a.x, b.x), fault |-> a.fault \/ b.fault]
    [] e.kind = "mapcar" ->
         LET upper == Emit(e.upper)
             next  == [e EXCEPT !.upper = upper.e]
             ran   == RunBody(query, e.body, upper.x[1])
         IN  IF upper.x = <<>> THEN [upper EXCEPT !.e = next]
             ELSE IF ran.x = <<>> /\ ~ran.fault THEN Emit(next)
             ELSE ran @@ [e |-> next]
    [] e.kind = "mapcan" ->
         LET sub   == Emit(e.sub)
             upper == Emit(e.upper)
             next  == [e EXCEPT !.sub = sub.e, !.upper = upper.e]
             ran   == RunBody(query, e.body, upper.x[1])
         IN  IF sub.x # <<>> \/ sub.fault
             THEN [sub EXCEPT !.e = [e EXCEPT !.sub = sub.e]]
             ELSE IF upper.x = <<>> THEN [upper EXCEPT !.e = next]
             ELSE IF ran.fault THEN ran @@ [e |-> next]
             ELSE Emit([next EXCEPT !.sub = ran.x[1]])

-----------------------------------------------------------------------------
None == [sets |-> <<>>, status |-> "none"]

Init ==
  /\ query \in Queries
  /\ emitter = SearchCore(query)
  /\ emitted = <<>>
  /\ before = None
  /\ status = "going"

(* (emit emitter); a caller may go on after nil.                           *)
EmitNext ==
  /\ status # "fault"
  /\ \E call \in {Emit(emitter)} :
         /\ emitter' = call.e
         /\ emitted' = emitted \o call.x
         /\ status' = CASE call.fault -> "fault"
                        [] call.x = <<>> -> "ended"
                        [] OTHER -> "going"
  /\ UNCHANGED <<query, before>>

(* (reset-emitter emitter).  Bound: once.                                  *)
ResetSearch ==
  /\ status # "fault"
  /\ before = None
  /\ emitter' = ResetEmitter(emitter)
  /\ emitted' = <<>>
  /\ before' = [sets |-> emitted, status |-> status]
  /\ status' = "going"
  /\ UNCHANGED query

Next == EmitNext \/ ResetSearch

Spec == Init /\ [][Next]_vars

-----------------------------------------------------------------------------
(* What the answers should be, by the armors chosen for the parts, in the  *)
(* order of the sets shown, and by counts of jewels.                       *)
Chosen == { c \in [DOMAIN Parts -> DOMAIN Armors] :
              \A i \in DOMAIN Parts :
                c[i] \in UsableArmors(Parts[Len(Parts) + 1 - i], query.type) }

SlotsOf(c) ==
  [size \in 1..3 |-> Quantify(DOMAIN c, LAMBDA i : Armors[c[i]].holes = size)]

ArmorPoints(c, effect) ==
  MapThenSumSet(LAMBDA i : Armors[c[i]].points[effect], DOMAIN c)

KeyOf(c) == [holes |-> SlotsOf(c),
             points |-> [i \in DOMAIN query.required |->
                           ArmorPoints(c, query.required[i].effect)]]

JewelPoints(jewels, effect) ==
  MapThenSumSet(LAMBDA j : jewels[j] * Jewels[j].points[effect], DOMAIN Jewels)

Reached(c, jewels, n) ==
  \A i \in 1..n :
    LET asked == query.required[i]
    IN  ArmorPoints(c, asked.effect) + JewelPoints(jewels, asked.effect) >= asked.points

SizesOf(jewels) ==
  [size \in 1..3 |->
     MapThenSumSet(LAMBDA j : IF Jewels[j].holes = size THEN jewels[j] ELSE 0,
                   DOMAIN jewels)]

(* Jewels of use for one of the effects, as many as fit the slots.         *)
Stuffed(slots, effects) ==
  LET useful == { j \in DOMAIN Jewels : \E e \in effects : Jewels[j].points[e] > 0 }
      fitting == { p \in [useful -> 0 .. Holes(slots)] : Fits(SizesOf(p), slots) }
  IN  { [j \in DOMAIN Jewels |-> IF j \in useful THEN p[j] ELSE 0] : p \in fitting }

(* The plans of jewels that the first n effects are reached with.  Jewels  *)
(* for a further effect go into slots that are left, and there are some.   *)
PlansFor(c) ==
  LET size == FoundationSize(query)
      effect(i) == query.required[i].effect
      plans[n \in size .. Width(query)] ==
        IF n = size
        THEN { p \in Stuffed(SlotsOf(c), { effect(i) : i \in 1..size }) :
                 Reached(c, p, n) }
        ELSE LET Rest(p) == Residual(SlotsOf(c), SizesOf(p))
                 More(p) == { [j \in DOMAIN p |-> p[j] + q[j]] :
                                q \in Stuffed(Rest(p), {effect(n)}) }
                 open == { p \in plans[n - 1] : Rest(p) # <<0, 0, 0>> }
             IN  { p \in UNION { More(q) : q \in open } : Reached(c, p, n) }
  IN  plans[Width(query)]

Lists(set) == { set[i] : i \in DOMAIN set }
CountsIn(list) ==
  [j \in DOMAIN Jewels |-> Quantify(DOMAIN list, LAMBDA i : list[i] = j)]

-----------------------------------------------------------------------------
(* What is shown answers the query: a usable armor of each part, their own *)
(* slots and points as the key, and jewel lists that fit the slots and     *)
(* reach every effect asked, though each stage looked at its own effect    *)
(* and at keys alone.                                                      *)
SetsVerify ==
  \A k \in DOMAIN emitted :
    LET set == emitted[k]
    IN  /\ set.armors \in Chosen
        /\ set.key = KeyOf(set.armors)
        /\ set.sets # <<>>
        /\ \A list \in Lists(set.sets) :
             \/ IsProd(list)
             \/ /\ Fits(CountOf(list), SlotsOf(set.armors))
                /\ Reached(set.armors, CountsIn(list), Width(query))

(* At the end of the search some set was shown for every armor set that    *)
(* has an answer, with its slots and points, and with all its plans of     *)
(* jewels: no pruning by maximum or minimum points lost one.  Products too *)
(* long to be made are left out.                                           *)
AnswersAreShown ==
  status = "ended" =>
    \A c \in Chosen :
      LET plans == PlansFor(c)
          shown == { k \in DOMAIN emitted : emitted[k].key = KeyOf(c) }
          lists == UNION { Lists(emitted[k].sets) : k \in shown }
      IN  \/ \E list \in lists : IsProd(list)
          \/ { CountsIn(list) : list \in lists } = plans

(* No armor set is shown twice, though the stages split forests again and  *)
(* again and a tree repeats its left armors in a circle.                   *)
NoSetTwice ==
  \A k, m \in DOMAIN emitted :
    emitted[k].armors = emitted[m].armors => k = m

(* After a reset, at whatever point it came, the emitter gives what it had *)
(* given before, in the same order, and ends where it had ended.           *)
ResetRepeats ==
  before # None =>
    /\ IsPrefix(emitted, before.sets) \/ IsPrefix(before.sets, emitted)
    /\ before.status = "ended" => Len(emitted) <= Len(before.sets)
    /\ status = "ended" => Len(before.sets) <= Len(emitted)
=============================================================================
