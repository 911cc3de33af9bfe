------------------------- MODULE WebSession_proofs -------------------------
(***************************************************************************)
(* Every safety property of WebSession, for all choices, any number of     *)
(* calls, clicks and processes, and all the ways in which calls, timers    *)
(* and processes interleave.                                               *)
(*                                                                         *)
(* IInv says that the state is well typed, that a timer always finds room  *)
(* for its call, and that at most one call is starting a process.  Each    *)
(* property then has an invariant of its own beside it: QueryInv and       *)
(* FilterInv for what a search shows, ProcessInv and ScreenInv for what a  *)
(* screen does.                                                            *)
(***************************************************************************)
EXTENDS WebSession, FiniteSetTheorems, TLAPS

Steps == {"none", "kill", "empty", "search", "write", "truncate",
          "run", "look", "read", "answered"}
Entry == SUBSET (Armors \union Systems)

(* What an action does to the calls: at most the one with id i changes.    *)
Only(i) ==
  /\ calls' \in [CallIds -> CallType]
  /\ \A j \in CallIds \ {i} : calls'[j] = calls[j]

Keeps(i) ==
  /\ calls'[i].kind = calls[i].kind
  /\ calls'[i].query = calls[i].query

(* A call just sent is well typed and has found out nothing yet.           *)
LEMMA CallIsTyped ==
  ASSUME NEW kind \in {"none", "query", "explore"}, NEW q \in Query,
         NEW s \in Steps
  PROVE  /\ Call(kind, q, s) \in CallType
         /\ Call(kind, q, s).kind = kind
         /\ Call(kind, q, s).query = q
         /\ Call(kind, q, s).step = s
         /\ Call(kind, q, s).result = {}
BY ChoicesAssumption, BoundsAssumption DEF Call, CallType, Steps

(* The call that is none is well typed, and at no step.                    *)
LEMMA NoCallIsTyped == NoCall \in CallType /\ NoCall.kind = "none" /\ NoCall.step = "none"
<1>1. NoQuery \in Query
  BY ChoicesAssumption DEF NoQuery, Query
<1> QED BY <1>1, CallIsTyped DEF NoCall, Steps

(* StepTo moves one call to the step and leaves the rest of it alone.      *)
LEMMA StepToFacts ==
  ASSUME calls \in [CallIds -> CallType], NEW i \in CallIds, NEW s \in Steps,
         StepTo(i, s)
  PROVE  /\ Only(i) /\ Keeps(i)
         /\ calls'[i].step = s
         /\ calls'[i].result = calls[i].result
         /\ calls'[i].finished = calls[i].finished
         /\ calls'[i].process = calls[i].process
<1> DEFINE D == [calls[i] EXCEPT !.step = s]
<1>1. /\ D \in CallType
      /\ D.step = s /\ D.kind = calls[i].kind /\ D.query = calls[i].query
      /\ D.result = calls[i].result /\ D.finished = calls[i].finished
      /\ D.process = calls[i].process
  BY DEF CallType, Steps
<1>2. calls' = [calls EXCEPT ![i] = D]
  BY DEF StepTo
<1> HIDE DEF D
<1> QED BY <1>1, <1>2 DEF Only, Keeps

(* The progress bar stays between 0 and 100.                               *)
LEMMA Percents ==
  ASSUME NEW size \in 0..(NSystems - 1)
  PROVE  Percentage(size) \in 0..100
<1> DEFINE b == NSystems - 1
           a == size * 100 + NSystems - 2
           q == a \div b
<1>1. b \in Nat /\ b > 0 /\ a \in Nat /\ a < 101 * b
  BY ChoicesAssumption
<1>2. q \in Int /\ b * q <= a /\ a < b * q + b
  <2> HIDE DEF a, b
  <2> QED BY <1>1
<1>3. q >= 0 /\ q <= 100
  <2> HIDE DEF a, b, q
  <2> QED BY <1>1, <1>2
<1> QED BY <1>3, <1>2 DEF Percentage

(* The three things that happen to the calls: one is sent, goes on to      *)
(* another step, or is answered.                                           *)
Busy == Cardinality(UnderWay)
Free == Busy + timers <= Cardinality(CallIds)

Sent(i, kind, step, q) ==
  /\ calls[i].kind = "none"
  /\ Only(i)
  /\ calls'[i].kind = kind /\ calls'[i].step = step /\ calls'[i].query = q
  /\ calls'[i].result = {}
  /\ Busy' = Busy + 1

Stepped(i, step) ==
  Only(i) /\ Keeps(i) /\ calls'[i].step = step /\ Busy' = Busy

Freed(i) ==
  /\ Only(i)
  /\ calls'[i].kind = "none" /\ calls'[i].step = "none"
  /\ Busy' = Busy - 1

(* The calls under way can be counted; as long as they are fewer than the  *)
(* ids, one is free.                                                       *)
LEMMA UnderWayIsFinite ==
  /\ IsFiniteSet(UnderWay) /\ Busy \in Nat
  /\ Cardinality(CallIds) \in Nat
  /\ Busy < Cardinality(CallIds) => \E i \in CallIds : i \notin UnderWay
<1>1. UnderWay \subseteq CallIds
  BY DEF UnderWay
<1>2. IsFiniteSet(UnderWay) /\ Busy \in Nat /\ Cardinality(CallIds) \in Nat
  BY <1>1, BoundsAssumption, FS_Subset, FS_CardinalityType DEF Busy
<1>3. ASSUME UnderWay = CallIds PROVE ~(Busy < Cardinality(CallIds))
  BY <1>2, <1>3 DEF Busy
<1> QED BY <1>1, <1>2, <1>3

(* Send puts the call under an id that was free.                           *)
LEMMA SendFacts ==
  ASSUME calls \in [CallIds -> CallType], Busy < Cardinality(CallIds),
         NEW call \in CallType, call.kind # "none", call.result = {},
         Send(call)
  PROVE  \E i \in CallIds : Sent(i, call.kind, call.step, call.query)
<1> DEFINE i == CHOOSE i \in CallIds : i \notin UnderWay
<1>1. i \in CallIds /\ i \notin UnderWay
  BY UnderWayIsFinite
<1>2. calls' = [calls EXCEPT ![i] = call]
  BY DEF Send
<1> HIDE DEF i
<1>3. calls[i].kind = "none"
  BY <1>1 DEF UnderWay
<1>4. Only(i) /\ calls'[i] = call
  BY <1>1, <1>2 DEF Only
<1>5. UnderWay' = UnderWay \union {i}
  BY <1>1, <1>4 DEF UnderWay, Only
<1>6. Busy' = Busy + 1
  BY <1>1, <1>5, UnderWayIsFinite, FS_AddElement DEF Busy
<1> QED BY <1>1, <1>3, <1>4, <1>6 DEF Sent

(* An answered call frees its id.                                          *)
LEMMA FreeFacts ==
  ASSUME calls \in [CallIds -> CallType], NEW i \in CallIds,
         calls[i].kind # "none", calls' = [calls EXCEPT ![i] = NoCall]
  PROVE  Freed(i)
<1>1. Only(i) /\ calls'[i] = NoCall
  BY NoCallIsTyped DEF Only
<1>2. i \in UnderWay /\ UnderWay' = UnderWay \ {i}
  BY <1>1, NoCallIsTyped DEF UnderWay, Only
<1>3. Busy' = Busy - 1
  BY <1>2, UnderWayIsFinite, FS_RemoveElement DEF Busy
<1> QED BY <1>1, <1>3, NoCallIsTyped DEF Freed

(* A call that goes on to another step neither takes nor frees an id.      *)
LEMMA StepFacts ==
  ASSUME NEW i \in CallIds, NEW s \in Steps, Only(i), Keeps(i), calls'[i].step = s
  PROVE  Stepped(i, s)
<1>1. UnderWay' = UnderWay
  BY DEF UnderWay, Only, Keeps
<1> QED BY <1>1 DEF Stepped, Busy

(* What ReadOutput does to its call.                                       *)
LEMMA AnswerQueryFacts ==
  ASSUME TypeOK, NEW i \in CallIds, ReadOutput(i)
  PROVE  /\ Only(i) /\ Keeps(i)
         /\ calls'[i].step = "answered"
         /\ calls'[i].result = output
<1> DEFINE D == [calls[i] EXCEPT !.step = "answered", !.result = output]
<1>1. calls[i] \in CallType /\ output \in Entry
  BY DEF TypeOK, Entry
<1>2. /\ D \in CallType
      /\ D.step = "answered" /\ D.kind = calls[i].kind
      /\ D.query = calls[i].query /\ D.result = output
  BY <1>1 DEF CallType, Entry
<1>3. calls' = [calls EXCEPT ![i] = D]
  BY DEF ReadOutput
<1> HIDE DEF D
<1> QED BY <1>2, <1>3 DEF Only, Keeps, TypeOK

(* What LookAtProcess does to its call.                                    *)
LEMMA LookFacts ==
  ASSUME TypeOK, NEW i \in CallIds, LookAtProcess(i)
  PROVE  /\ Only(i) /\ Keeps(i)
         /\ calls'[i].step = "read"
         /\ calls'[i].process = explore_process
         /\ calls'[i].finished = (explore_process \notin alive)
<1> DEFINE f == explore_process \notin alive
           D == [calls[i] EXCEPT !.step = "read", !.process = explore_process,
                                 !.finished = f]
<1>1. calls[i] \in CallType /\ explore_process \in 0..MaxScreens /\ f \in BOOLEAN
  BY BoundsAssumption DEF TypeOK
<1>2. calls' = [calls EXCEPT ![i] = D]
  BY DEF LookAtProcess
<1>3. /\ D \in CallType
      /\ D.step = "read" /\ D.kind = calls[i].kind /\ D.query = calls[i].query
      /\ D.process = explore_process /\ D.finished = f
  <2> HIDE DEF f
  <2> QED BY <1>1 DEF CallType
<1> HIDE DEF D
<1> QED BY <1>2, <1>3 DEF Only, Keeps, TypeOK

(* What ReadEntries does to its call, once there is a file of entries.     *)
LEMMA ReadFacts ==
  ASSUME TypeOK, emptied \in 1..MaxScreens, NEW i \in CallIds, ReadEntries(i)
  PROVE  /\ Only(i) /\ Keeps(i)
         /\ calls'[i].step = "answered"
         /\ calls'[i].result = Passing(screened[emptied], written[emptied])
         /\ calls'[i].process = calls[i].process
         /\ calls'[i].finished = calls[i].finished
<1> DEFINE r == Passing(screened[emptied], written[emptied])
           n == written[emptied]
           D == [calls[i] EXCEPT !.step = "answered", !.result = r, !.size = n]
<1>1. calls[i] \in CallType /\ n \in 0..(NSystems - 1)
  BY DEF TypeOK
<1>2. r \in Entry
  <2>1. screened[emptied] \in Choices
    BY DEF TypeOK
  <2>2. Reachable[screened[emptied]] \subseteq 1..(NSystems - 1)
    BY <2>1, ChoicesAssumption
  <2>3. 1..(NSystems - 1) \subseteq Systems
    BY ChoicesAssumption DEF Systems
  <2> QED BY <2>2, <2>3 DEF Passing, Entry
<1>3. calls' = [calls EXCEPT ![i] = D]
  BY DEF ReadEntries
<1>4. /\ D \in CallType
      /\ D.step = "answered" /\ D.kind = calls[i].kind /\ D.query = calls[i].query
      /\ D.result = r /\ D.process = calls[i].process
      /\ D.finished = calls[i].finished
  <2> HIDE DEF r, n
  <2> QED BY <1>1, <1>2 DEF CallType, Entry
<1> HIDE DEF D, r
<1>5. Only(i) /\ Keeps(i) /\ calls'[i] = D
  BY <1>3, <1>4 DEF Only, Keeps, TypeOK
<1> QED BY <1>4, <1>5 DEF r

(* The steps of a call that starts a process, and of one that looks at it. *)
Starting == {"write", "truncate", "run"}
Looking == {"look", "read", "answered"}

(* What a call brings is of its own kind.                                  *)
KindsInv ==
  \A i \in CallIds :
    /\ calls[i].kind = "query" => calls[i].result \subseteq Armors
    /\ calls[i].kind = "explore" => calls[i].result \subseteq Systems
    /\ calls[i].kind = "none" => calls[i].step = "none"

(* At most one call is starting a process, and the session knows a process *)
(* whenever one is looked for.                                             *)
StartInv ==
  /\ emptied <= screens
  /\ alive \subseteq 1..explore_process /\ killed \subseteq 1..explore_process
  /\ \A i, j \in CallIds :
       calls[i].step \in Starting /\ calls[j].step \in Starting => i = j
  /\ \A i \in CallIds : calls[i].step \in {"write", "truncate"} => emptied < screens
  /\ \A i \in CallIds : calls[i].step = "run" => explore_process < emptied
  /\ timers > 0 => explore_process > 0
  /\ \A i \in CallIds :
       calls[i].kind = "explore" /\ calls[i].step \in Looking => explore_process > 0

IInv == TypeOK /\ Free /\ KindsInv /\ StartInv

(* A search sends one call for the query asked, whose bans are the         *)
(* blacklist that is left.                                                 *)
LEMMA HandleQueryFacts ==
  ASSUME IInv, MaySearch, NEW f \in BOOLEAN, NEW list \in SUBSET Armors,
         HandleQuery(f, list)
  PROVE  /\ asked' \in Query /\ blacklist' \subseteq Armors
         /\ searches' \in 0..MaxSearches
         /\ in_progress' = TRUE /\ query_result' = {}
         /\ \E i \in CallIds : Sent(i, "query", "kill", asked')
         /\ blacklist' = IF f THEN list ELSE {}
         /\ asked'.bans = blacklist'
<1>1. PICK choice \in Choices :
        LET query == ConstructQuery(choice, f, list) IN
        /\ blacklist' = BlacklistAfter(f, list)
        /\ in_progress' = TRUE /\ query_result' = {}
        /\ Send(Call("query", query, "kill"))
        /\ searches' = searches + 1 /\ asked' = query
  BY DEF HandleQuery
<1> DEFINE q == ConstructQuery(choice, f, list)
<1>2. q \in Query /\ q.bans = BlacklistAfter(f, list)
  BY DEF ConstructQuery, BlacklistAfter, Query
<1>3. blacklist' \subseteq Armors /\ asked' = q
  BY <1>1 DEF BlacklistAfter
<1>4. searches' \in 0..MaxSearches
  <2>1. Within(screens, searches + 1) /\ searches \in 0..MaxSearches
    BY DEF MaySearch, IInv, TypeOK
  <2> QED BY <1>1, <2>1, BoundsAssumption DEF Within
<1>5. Busy < Cardinality(CallIds) /\ calls \in [CallIds -> CallType]
  BY UnderWayIsFinite DEF MaySearch, RoomForCall, Busy, IInv, TypeOK
<1>6. \E i \in CallIds : Sent(i, "query", "kill", q)
  <2> HIDE DEF q
  <2>1. Send(Call("query", q, "kill"))
    BY <1>1 DEF q
  <2> QED BY <2>1, <1>2, <1>5, CallIsTyped, SendFacts DEF Steps
<1> QED BY <1>1, <1>2, <1>3, <1>4, <1>6 DEF BlacklistAfter

(* A screen or a poll sends one call and empties the blacklist.            *)
LEMMA HandleExploreFacts ==
  ASSUME IInv, Busy < Cardinality(CallIds), NEW choice \in Choices,
         NEW init \in BOOLEAN, HandleExplore(choice, init)
  PROVE  /\ blacklist' = {} /\ polled' = TRUE
         /\ explore_progress' \in -1..100
         /\ \E i \in CallIds, q \in Query :
              /\ Sent(i, "explore", IF init THEN "write" ELSE "look", q)
              /\ q.choice = choice
<1> DEFINE q == ConstructQuery(choice, FALSE, blacklist)
           s == IF init THEN "write" ELSE "look"
<1>1. q \in Query /\ q.choice = choice
  BY DEF ConstructQuery, Query
<1>2. s \in Steps
  BY DEF Steps
<1>3. Send(Call("explore", q, s))
  BY DEF HandleExplore
<1>4. \E i \in CallIds : Sent(i, "explore", s, q)
  <2> HIDE DEF q, s
  <2> QED BY <1>1, <1>2, <1>3, CallIsTyped, SendFacts DEF IInv, TypeOK
<1>5. blacklist' = {} /\ polled' = TRUE
  BY DEF HandleExplore, BlacklistAfter
<1>6. explore_progress' \in -1..100
  BY DEF HandleExplore, IInv, TypeOK
<1>7. \E i \in CallIds, p \in Query : Sent(i, "explore", s, p) /\ p.choice = choice
  BY <1>1, <1>4
<1> QED BY <1>5, <1>6, <1>7

(* The invariant holds initially.                                          *)
LEMMA IInvHolds == Init => IInv
<1> SUFFICES ASSUME Init PROVE IInv
  OBVIOUS
<1>1. TypeOK
  <2>1. calls \in [CallIds -> CallType]
    BY NoCallIsTyped DEF Init
  <2>2. NoQuery \in Query
    BY ChoicesAssumption DEF NoQuery, Query
  <2>3. /\ screening \in Choices /\ explore_query_cache \in Choices
        /\ screened \in [1..MaxScreens -> Choices]
    BY ChoicesAssumption DEF Init
  <2>4. written \in [1..MaxScreens -> 0..(NSystems - 1)]
    BY ChoicesAssumption DEF Init
  <2>5. emptied \in 0..MaxScreens /\ screens \in 0..MaxScreens /\ searches \in 0..MaxSearches
    BY BoundsAssumption DEF Init
  <2>6. /\ explore_progress \in -1..100 /\ achievable_ids \subseteq Systems
        /\ explore_process \in 0..emptied /\ timers \in Nat
        /\ query_cache \in Query /\ asked \in Query
    BY <2>2 DEF Init, NoQuery
  <2> QED BY <2>1, <2>3, <2>4, <2>5, <2>6 DEF Init, TypeOK
<1>2. UnderWay = {}
  BY NoCallIsTyped DEF Init, UnderWay
<1>3. Free
  BY <1>2, FS_EmptySet, UnderWayIsFinite DEF Init, Free, Busy
<1>4. KindsInv /\ StartInv
  BY NoCallIsTyped DEF Init, KindsInv, StartInv, Starting, Looking
<1> QED BY <1>1, <1>3, <1>4 DEF IInv

(* Sending a search keeps the invariant.                                   *)
LEMMA QueryKeepsInv ==
  ASSUME IInv, MaySearch, NEW i \in CallIds, Sent(i, "query", "kill", asked'), TypeOK',
         UNCHANGED <<timers, emptied, explore_process, alive, killed, screens>>
  PROVE  IInv'
<1>1. Free'
  BY UnderWayIsFinite DEF IInv, TypeOK, MaySearch, RoomForCall, Free, Busy, Sent
<1>2. KindsInv'
  BY DEF IInv, KindsInv, Sent, Only
<1>3. StartInv'
  BY DEF IInv, StartInv, Starting, Looking, Sent, Only
<1> QED BY <1>1, <1>2, <1>3 DEF IInv

(* The clicks keep the invariant.                                          *)
LEMMA IInvClicks == IInv /\ Click => IInv'
<1> SUFFICES ASSUME IInv, Click PROVE IInv'
  OBVIOUS
<1> USE DEF IInv
<1>1. CASE ClickSearch
  <2>1. {} \in SUBSET Armors /\ blacklist \in SUBSET Armors /\ MaySearch
    BY <1>1 DEF ClickSearch, TypeOK
  <2>2. HandleQuery(FALSE, blacklist)
    BY <1>1 DEF ClickSearch
  <2>3. PICK i \in CallIds : Sent(i, "query", "kill", asked')
    BY <2>1, <2>2, HandleQueryFacts
  <2>4. asked' \in Query /\ blacklist' \subseteq Armors /\ searches' \in 0..MaxSearches
        /\ in_progress' = TRUE /\ query_result' = {}
    BY <2>1, <2>2, HandleQueryFacts
  <2>5. TypeOK'
    BY <1>1, <2>3, <2>4 DEF ClickSearch, TypeOK, Sent, Only, files, processes
  <2> QED BY <1>1, <2>3, <2>5, QueryKeepsInv DEF ClickSearch, files, processes
<1>2. CASE ClickFilter
  <2>1. PICK armor \in query_result :
          HandleQuery(TRUE, AppendBlacklist(armor)) /\ filtered' = filtered \union {armor}
    BY <1>2 DEF ClickFilter
  <2>2. AppendBlacklist(armor) \in SUBSET Armors /\ MaySearch /\ armor \in Armors
    BY <1>2 DEF ClickFilter, AppendBlacklist, TypeOK
  <2>3. PICK i \in CallIds : Sent(i, "query", "kill", asked')
    BY <2>1, <2>2, HandleQueryFacts
  <2>4. asked' \in Query /\ blacklist' \subseteq Armors /\ searches' \in 0..MaxSearches
        /\ in_progress' = TRUE /\ query_result' = {}
    BY <2>1, <2>2, HandleQueryFacts
  <2>5. TypeOK'
    BY <1>2, <2>1, <2>2, <2>3, <2>4 DEF ClickFilter, TypeOK, Sent, Only, files, processes
  <2> QED BY <1>2, <2>3, <2>5, QueryKeepsInv DEF ClickFilter, files, processes
<1>3. CASE ClickScreen
  <2>1. PICK choice \in Choices :
          HandleExplore(choice, TRUE) /\ screening' = choice
    BY <1>3 DEF ClickScreen
  <2>2. Busy < Cardinality(CallIds)
    BY <1>3, UnderWayIsFinite DEF ClickScreen, MayScreen, RoomForCall, TypeOK, Busy
  <2>3. PICK i \in CallIds, q \in Query : Sent(i, "explore", "write", q)
    BY <2>1, <2>2, HandleExploreFacts
  <2>4. blacklist' = {} /\ polled' = TRUE /\ explore_progress' \in -1..100
    BY <2>1, <2>2, HandleExploreFacts
  <2>5. screens' \in 0..MaxScreens /\ screens' = screens + 1
    BY <1>3, BoundsAssumption DEF ClickScreen, MayScreen, Within, TypeOK
  <2>6. disturbed' \in BOOLEAN
    BY <1>3 DEF ClickScreen
  <2>7. TypeOK'
    BY <1>3, <2>1, <2>3, <2>4, <2>5, <2>6
    DEF ClickScreen, TypeOK, Sent, Only, files, processes
  <2>8. StartInv'
    BY <1>3, <2>3, <2>5
    DEF ClickScreen, NothingStarting, TypeOK, StartInv, Starting, Looking,
        Sent, Only, files, processes
  <2>9. KindsInv'
    BY <2>3 DEF KindsInv, Sent, Only
  <2>10. Free'
    BY <1>3, <2>3, UnderWayIsFinite
    DEF ClickScreen, MayScreen, RoomForCall, TypeOK, Free, Busy, Sent
  <2> QED BY <2>7, <2>8, <2>9, <2>10
<1>4. CASE ClickStop
  BY <1>4 DEF ClickStop, TypeOK, Free, Busy, UnderWay, KindsInv, StartInv, files, processes, history
<1>5. CASE ClickReset
  BY <1>5 DEF ClickReset, TypeOK, Free, Busy, UnderWay, KindsInv, StartInv, files, processes, history
<1> QED BY <1>1, <1>2, <1>3, <1>4, <1>5 DEF Click

(* StepToFacts and StepFacts in one, in a reachable state.                 *)
LEMMA StepsFacts ==
  ASSUME IInv, NEW i \in CallIds, NEW s \in Steps, StepTo(i, s)
  PROVE  /\ Only(i) /\ Keeps(i) /\ Stepped(i, s)
         /\ calls'[i].kind = calls[i].kind /\ calls'[i].query = calls[i].query
         /\ calls'[i].step = s
         /\ calls'[i].result = calls[i].result
         /\ calls'[i].finished = calls[i].finished
         /\ calls'[i].process = calls[i].process
BY StepToFacts, StepFacts DEF IInv, TypeOK, Keeps

(* A search finds armors.                                                  *)
LEMMA SolutionsAreArmors ==
  ASSUME NEW q \in Query
  PROVE  Solutions(q) \subseteq Armors
BY ChoicesAssumption DEF Solutions, Query

(* The threads of the calls keep the invariant.                            *)
LEMMA IInvAnswers ==
  ASSUME IInv, NEW i \in CallIds, AnswerQuery(i) \/ AnswerExplore(i)
  PROVE  IInv'
<1> USE DEF IInv
<1>s. {"empty", "search", "read", "answered", "truncate", "run", "look"} \subseteq Steps
  BY DEF Steps
<1>1. CASE KillExplore(i)
  <2>1. /\ Only(i) /\ Stepped(i, "empty") /\ calls'[i].kind = calls[i].kind
        /\ calls'[i].result = calls[i].result
    BY <1>1, <1>s, StepsFacts DEF KillExplore
  <2>2. TypeOK'
    BY <1>1, <2>1 DEF KillExplore, At, Only, TypeOK, StartInv, widget, files, processes, history
  <2>3. KindsInv' /\ Free'
    BY <1>1, <2>1 DEF KillExplore, At, Only, Stepped, KindsInv, Free, widget, files, processes, history
  <2>4. StartInv'
    BY <1>1, <2>1 DEF KillExplore, At, Only, Stepped, TypeOK, StartInv, Starting, Looking, widget, files, processes, history
  <2> QED BY <2>2, <2>3, <2>4
<1>2. CASE EmptyOutput(i)
  <2>1. /\ Only(i) /\ Stepped(i, "search") /\ calls'[i].kind = calls[i].kind
        /\ calls'[i].result = calls[i].result
    BY <1>2, <1>s, StepsFacts DEF EmptyOutput
  <2>2. TypeOK'
    BY <1>2, <2>1 DEF EmptyOutput, CallType, At, Only, TypeOK, StartInv, widget, files, processes, history
  <2>3. KindsInv' /\ Free'
    BY <1>2, <2>1 DEF EmptyOutput, At, Only, Stepped, KindsInv, Free, widget, files, processes, history
  <2>4. StartInv'
    BY <1>2, <2>1 DEF EmptyOutput, At, Only, Stepped, TypeOK, StartInv, Starting, Looking, widget, files, processes, history
  <2> QED BY <2>2, <2>3, <2>4
<1>3. CASE RunSearch(i)
  <2>1. /\ Only(i) /\ Stepped(i, "read") /\ calls'[i].kind = calls[i].kind
        /\ calls'[i].result = calls[i].result
    BY <1>3, <1>s, StepsFacts DEF RunSearch
  <2>2. TypeOK'
    BY <1>3, <2>1, SolutionsAreArmors DEF RunSearch, At, Only, TypeOK, StartInv, widget, files, processes, history
  <2>3. KindsInv' /\ Free'
    BY <1>3, <2>1 DEF RunSearch, At, Only, Stepped, KindsInv, Free, widget, files, processes, history
  <2>4. StartInv'
    BY <1>3, <2>1 DEF RunSearch, At, Only, Stepped, TypeOK, StartInv, Starting, Looking, widget, files, processes, history
  <2> QED BY <2>2, <2>3, <2>4
<1>4. CASE ReadOutput(i)
  <2>1. /\ Only(i) /\ Stepped(i, "answered") /\ calls'[i].kind = calls[i].kind
        /\ calls'[i].result = output
    BY <1>4, <1>s, AnswerQueryFacts, StepFacts DEF Keeps
  <2>2. TypeOK'
    BY <1>4, <2>1 DEF ReadOutput, At, Only, TypeOK, widget, files, processes, history
  <2>3. KindsInv' /\ Free'
    BY <1>4, <2>1 DEF ReadOutput, At, TypeOK, Only, Stepped, KindsInv, Free, widget, files, processes, history
  <2>4. StartInv'
    BY <1>4, <2>1 DEF ReadOutput, At, Only, Stepped, TypeOK, StartInv, Starting, Looking, widget, files, processes, history
  <2> QED BY <2>2, <2>3, <2>4
<1>5. CASE WriteExploreQuery(i)
  <2>1. /\ Only(i) /\ Stepped(i, "truncate") /\ calls'[i].kind = calls[i].kind
        /\ calls'[i].result = calls[i].result
    BY <1>5, <1>s, StepsFacts DEF WriteExploreQuery
  <2>2. TypeOK'
    BY <1>5, <2>1 DEF WriteExploreQuery, CallType, Query, At, Only, TypeOK, StartInv, widget, files, processes, history
  <2>3. KindsInv' /\ Free'
    BY <1>5, <2>1 DEF WriteExploreQuery, At, Only, Stepped, KindsInv, Free, widget, files, processes, history
  <2>4. StartInv'
    BY <1>5, <2>1 DEF WriteExploreQuery, At, Only, Stepped, TypeOK, StartInv, Starting, Looking, widget, files, processes, history
  <2> QED BY <2>2, <2>3, <2>4
<1>6. CASE EmptyExploreOutput(i)
  <2>1. /\ Only(i) /\ Stepped(i, "run") /\ calls'[i].kind = calls[i].kind
        /\ calls'[i].result = calls[i].result
    BY <1>6, <1>s, StepsFacts DEF EmptyExploreOutput
  <2>2. TypeOK'
    <3>1. emptied \in 0..MaxScreens /\ emptied < screens /\ screens \in 0..MaxScreens
      BY <1>6 DEF EmptyExploreOutput, At, TypeOK, StartInv
    <3>2. emptied' \in 0..MaxScreens /\ emptied' = emptied + 1
      BY <1>6, <3>1, BoundsAssumption DEF EmptyExploreOutput
    <3>3. explore_process' \in 0..emptied' /\ alive' \subseteq 1..emptied' /\ killed' \subseteq 1..emptied'
      BY <1>6, <3>1, <3>2 DEF EmptyExploreOutput, TypeOK, processes
    <3> QED BY <1>6, <2>1, <3>2, <3>3
            DEF EmptyExploreOutput, Only, TypeOK, widget, processes, history
  <2>3. KindsInv' /\ Free'
    BY <1>6, <2>1 DEF EmptyExploreOutput, At, Only, Stepped, KindsInv, Free, widget, files, processes, history
  <2>4. StartInv'
    BY <1>6, <2>1 DEF EmptyExploreOutput, At, Only, Stepped, TypeOK, StartInv, Starting, Looking, widget, files, processes, history
  <2> QED BY <2>2, <2>3, <2>4
<1>7. CASE RunExplore(i)
  <2>1. /\ Only(i) /\ Stepped(i, "look") /\ calls'[i].kind = calls[i].kind
        /\ calls'[i].result = calls[i].result
    BY <1>7, <1>s, StepsFacts DEF RunExplore
  <2>2. TypeOK'
    BY <1>7, <2>1 DEF RunExplore, StoreProcess, At, Only, TypeOK, StartInv, widget, files, processes, history
  <2>3. KindsInv' /\ Free'
    BY <1>7, <2>1 DEF RunExplore, At, Only, Stepped, KindsInv, Free, widget, files, processes, history
  <2>4. StartInv'
    BY <1>7, <2>1 DEF RunExplore, StoreProcess, At, Only, Stepped, TypeOK, StartInv, Starting, Looking, widget, files, processes, history
  <2> QED BY <2>2, <2>3, <2>4
<1>8. CASE LookAtProcess(i)
  <2>1. /\ Only(i) /\ Stepped(i, "read") /\ calls'[i].kind = calls[i].kind
    BY <1>8, <1>s, LookFacts, StepFacts DEF Keeps
  <2>2. calls'[i].result = calls[i].result
    BY <1>8 DEF LookAtProcess, TypeOK, CallType
  <2>3. TypeOK'
    BY <1>8, <2>1 DEF LookAtProcess, At, Only, TypeOK, widget, files, processes, history
  <2>4. KindsInv' /\ Free'
    BY <1>8, <2>1, <2>2 DEF LookAtProcess, At, TypeOK, Only, Stepped, KindsInv, Free, widget, files, processes, history
  <2>5. StartInv'
    BY <1>8, <2>1 DEF LookAtProcess, At, Only, Stepped, TypeOK, StartInv, Starting, Looking, widget, files, processes, history
  <2> QED BY <2>3, <2>4, <2>5
<1>9. CASE ReadEntries(i)
  <2>1. emptied \in 1..MaxScreens
    BY <1>9, BoundsAssumption DEF ReadEntries, At, TypeOK, StartInv, Looking
  <2>2. /\ Only(i) /\ Stepped(i, "answered") /\ calls'[i].kind = calls[i].kind
        /\ calls'[i].result = Passing(screened[emptied], written[emptied])
    BY <1>9, <2>1, <1>s, ReadFacts, StepFacts DEF Keeps
  <2>3. calls'[i].result \subseteq Systems
    <3>1. screened[emptied] \in Choices
      BY <2>1 DEF TypeOK
    <3> QED BY <2>2, <3>1, ChoicesAssumption DEF Passing, Systems
  <2>4. TypeOK'
    BY <1>9, <2>2 DEF ReadEntries, At, Only, TypeOK, widget, files, processes, history
  <2>5. KindsInv' /\ Free'
    BY <1>9, <2>2, <2>3 DEF ReadEntries, At, TypeOK, Only, Stepped, KindsInv, Free, widget, files, processes, history
  <2>6. StartInv'
    BY <1>9, <2>2 DEF ReadEntries, At, Only, Stepped, TypeOK, StartInv, Starting, Looking, widget, files, processes, history
  <2> QED BY <2>4, <2>5, <2>6
<1> QED BY <1>1, <1>2, <1>3, <1>4, <1>5, <1>6, <1>7, <1>8, <1>9
        DEF AnswerQuery, AnswerExplore

(* The answers keep the invariant.                                         *)
LEMMA IInvDeliver ==
  ASSUME IInv, NEW i \in CallIds, Deliver(i)
  PROVE  IInv'
<1> USE DEF IInv
<1>1. Freed(i)
  BY FreeFacts DEF Deliver, ShowResult, ShowProgress, TypeOK
<1>2. StartInv'
  BY <1>1 DEF Deliver, ShowResult, ShowProgress, TakeAnswer, TypeOK, StartInv, Starting, Looking,
              Freed, Only, widget, files, processes, history
<1>3. KindsInv'
  BY <1>1 DEF KindsInv, Freed, Only
<1>4. Free'
  BY <1>1, UnderWayIsFinite
  DEF Deliver, ShowResult, ShowProgress, TakeAnswer, TypeOK, Free, Freed, widget, files, processes, history
<1>5. TypeOK'
  <2>1. CASE ShowResult(i)
    BY <1>1, <2>1 DEF ShowResult, TypeOK, KindsInv, Freed, Only, widget, files, processes, history
  <2>2. CASE ShowProgress(i)
    <3>1. Percentage(calls[i].size) \in 0..100
      BY Percents DEF TypeOK, CallType
    <3>2. calls[i].finished \in BOOLEAN
      BY DEF TypeOK, CallType
    <3>3. calls[i].result \subseteq Systems
      BY <2>2 DEF ShowProgress, KindsInv
    <3>4. explore_progress' \in -1..100 /\ achievable_ids' \subseteq Systems /\ timers' \in Nat
      <4> DEFINE n == Percentage(calls[i].size)
                 e == calls[i]
      <4>1. TakeAnswer(e)
        BY <2>2 DEF ShowProgress
      <4>2. n \in -1..100 /\ -1 \in -1..100
        BY <3>1
      <4>3. CASE explore_progress < 0
        BY <4>1, <4>3 DEF TakeAnswer, TypeOK
      <4>4. CASE ~(explore_progress < 0)
        <5>1. /\ achievable_ids' = e.result
              /\ explore_progress' = IF e.finished THEN -1 ELSE n
              /\ timers' = IF e.finished THEN timers ELSE timers + 1
          BY <4>1, <4>4 DEF TakeAnswer
        <5> HIDE DEF n
        <5> QED BY <5>1, <3>2, <3>3, <4>2 DEF TypeOK
      <4> QED BY <4>3, <4>4
    <3> QED BY <1>1, <2>2, <3>4
            DEF ShowProgress, TypeOK, Freed, Only, files, processes, history
  <2> QED BY <2>1, <2>2 DEF Deliver
<1> QED BY <1>2, <1>3, <1>4, <1>5

(* The timers and the explore processes keep the invariant.                *)
LEMMA IInvOthers ==
  ASSUME IInv, TimerFires \/ \E p \in 1..MaxScreens : Explore(p)
  PROVE  IInv'
<1> USE DEF IInv
<1>1. CASE TimerFires
  <2>1. Busy < Cardinality(CallIds) /\ FirstChoice \in Choices
    BY <1>1, UnderWayIsFinite, ChoicesAssumption DEF TimerFires, Free, TypeOK
  <2>2. HandleExplore(FirstChoice, FALSE)
    BY <1>1 DEF TimerFires
  <2>3. PICK i \in CallIds, q \in Query : Sent(i, "explore", "look", q)
    BY <2>1, <2>2, HandleExploreFacts
  <2>4. blacklist' = {} /\ polled' = TRUE /\ explore_progress' \in -1..100
    BY <2>1, <2>2, HandleExploreFacts
  <2>5. TypeOK'
    BY <1>1, <2>3, <2>4 DEF TimerFires, TypeOK, Sent, Only, files, processes
  <2>6. KindsInv' /\ Free'
    BY <1>1, <2>3, UnderWayIsFinite
    DEF TimerFires, Sent, Only, KindsInv, Free, TypeOK
  <2>7. StartInv'
    BY <1>1, <2>3
    DEF TimerFires, Sent, Only, TypeOK, StartInv, Starting, Looking, files, processes
  <2> QED BY <2>5, <2>6, <2>7
<1>2. ASSUME NEW p \in 1..MaxScreens, Explore(p) PROVE IInv'
  <2>1. UNCHANGED <<calls, timers, emptied, explore_process, screens, killed>>
    BY <1>2 DEF Explore, WriteEntry, EndProcess, files, processes, history
  <2>2. alive' \subseteq alive
    BY <1>2 DEF Explore, WriteEntry, EndProcess
  <2>3. KindsInv' /\ Free'
    BY <2>1 DEF KindsInv, Free, Busy, UnderWay
  <2>4. StartInv'
    BY <2>1, <2>2 DEF StartInv
  <2>5. written' \in [1..MaxScreens -> 0..(NSystems - 1)]
    BY <1>2, ChoicesAssumption
    DEF Explore, WriteEntry, EndProcess, Entries, TypeOK
  <2>6. TypeOK'
    BY <1>2, <2>2, <2>5
    DEF Explore, WriteEntry, EndProcess, TypeOK, widget, files, processes, history
  <2> QED BY <2>3, <2>4, <2>6
<1> QED BY <1>1, <1>2

(* IInv holds in every reachable state.                                    *)
THEOREM InvariantHolds == Spec => []IInv
<1>1. IInv /\ UNCHANGED vars => IInv'
  BY DEF IInv, TypeOK, Free, Busy, UnderWay, KindsInv, StartInv,
         vars, widget, files, processes, history
<1>2. IInv /\ [Next]_vars => IInv'
  BY <1>1, IInvClicks, IInvAnswers, IInvDeliver, IInvOthers DEF Next
<1> QED BY IInvHolds, <1>2, PTL DEF Spec

(* What a click on Search and one on a filter link have in common.         *)
LEMMA ClicksSendQueries ==
  ASSUME IInv, ClickSearch \/ ClickFilter
  PROVE  /\ \E i \in CallIds : Sent(i, "query", "kill", asked')
         /\ ~in_progress /\ in_progress' = TRUE /\ query_result' = {}
         /\ asked'.bans = blacklist' /\ searches' > 0
         /\ filtered' = {} \/ (filtered' \subseteq filtered \union blacklist'
                              /\ blacklist \subseteq blacklist' /\ polled' = polled)
<1>1. CASE ClickSearch
  <2>1. HandleQuery(FALSE, blacklist) /\ blacklist \in SUBSET Armors /\ MaySearch
    BY <1>1 DEF ClickSearch, IInv, TypeOK
  <2>2. searches' > 0
    BY <2>1 DEF HandleQuery, IInv, TypeOK
  <2> QED BY <1>1, <2>1, <2>2, HandleQueryFacts DEF ClickSearch, SearchEnabled
<1>2. CASE ClickFilter
  <2>1. PICK armor \in query_result :
          HandleQuery(TRUE, AppendBlacklist(armor)) /\ filtered' = filtered \union {armor}
    BY <1>2 DEF ClickFilter
  <2>2. AppendBlacklist(armor) \in SUBSET Armors /\ MaySearch
    BY <1>2 DEF ClickFilter, AppendBlacklist, IInv, TypeOK
  <2>3. searches' > 0
    BY <2>1 DEF HandleQuery, IInv, TypeOK
  <2>4. blacklist' = blacklist \union {armor}
    BY <2>1, <2>2, HandleQueryFacts DEF AppendBlacklist
  <2> QED BY <1>2, <2>1, <2>2, <2>3, <2>4, HandleQueryFacts DEF ClickFilter
<1> QED BY <1>1, <1>2

(* What a click on Screen and a timer have in common.                      *)
LEMMA PollsSendCalls ==
  ASSUME IInv, ClickScreen \/ TimerFires
  PROVE  /\ \E i \in CallIds, q \in Query, s \in {"write", "look"} : Sent(i, "explore", s, q)
         /\ blacklist' = {} /\ polled' = TRUE
<1>1. CASE ClickScreen
  <2>1. PICK choice \in Choices : HandleExplore(choice, TRUE)
    BY <1>1 DEF ClickScreen
  <2>2. Busy < Cardinality(CallIds)
    BY <1>1, UnderWayIsFinite DEF ClickScreen, MayScreen, RoomForCall, IInv, TypeOK, Busy
  <2> QED BY <2>1, <2>2, HandleExploreFacts
<1>2. CASE TimerFires
  <2>1. Busy < Cardinality(CallIds) /\ FirstChoice \in Choices
    BY <1>2, UnderWayIsFinite, ChoicesAssumption DEF TimerFires, IInv, Free, TypeOK
  <2>2. HandleExplore(FirstChoice, FALSE)
    BY <1>2 DEF TimerFires
  <2> QED BY <2>1, <2>2, HandleExploreFacts
<1> QED BY <1>1, <1>2

(* A thread changes its own call only, and neither its kind nor its query. *)
LEMMA AnswersStep ==
  ASSUME IInv, NEW i \in CallIds, AnswerQuery(i) \/ AnswerExplore(i)
  PROVE  Only(i) /\ Keeps(i)
<1> USE DEF IInv
<1>1. {"empty", "search", "read", "answered", "truncate", "run", "look"} \subseteq Steps
  BY DEF Steps
<1>2. CASE ReadEntries(i)
  <2>1. emptied \in 1..MaxScreens
    BY <1>2, BoundsAssumption DEF ReadEntries, At, TypeOK, StartInv, Looking
  <2> QED BY <1>2, <2>1, ReadFacts
<1> QED BY <1>1, <1>2, StepsFacts, AnswerQueryFacts, LookFacts
        DEF AnswerQuery, AnswerExplore, KillExplore, EmptyOutput, RunSearch,
            WriteExploreQuery, EmptyExploreOutput, RunExplore

(* Every variable of the page and its session keeps its type; in           *)
(* particular, no more processes are started than there were clicks on     *)
(* Screen.                                                                 *)
THEOREM TypeCorrect == Spec => []TypeOK
BY InvariantHolds, PTL DEF IInv

(* No step leaves the progress bar shown and nobody to move it.            *)
LEMMA PollingStep == IInv /\ ScreenIsPolled /\ [Next]_vars => ScreenIsPolled'
<1> SUFFICES ASSUME IInv, ScreenIsPolled, [Next]_vars PROVE ScreenIsPolled'
  OBVIOUS
<1> USE DEF ScreenIsPolled, ExploreCalls
<1>1. CASE ClickSearch \/ ClickFilter
  <2>1. PICK i \in CallIds : Sent(i, "query", "kill", asked')
    BY <1>1, ClicksSendQueries
  <2>2. UNCHANGED <<explore_progress, timers>>
    BY <1>1 DEF ClickSearch, ClickFilter
  <2> QED BY <2>1, <2>2 DEF Sent, Only
<1>2. CASE ClickScreen \/ TimerFires
  BY <1>2, PollsSendCalls DEF Sent
<1>3. CASE ClickStop
  BY <1>3 DEF ClickStop
<1>4. CASE ClickReset \/ UNCHANGED vars
  BY <1>4 DEF ClickReset, vars, widget
<1>5. ASSUME NEW i \in CallIds, AnswerQuery(i) \/ AnswerExplore(i)
      PROVE  ScreenIsPolled'
  <2>1. Only(i) /\ Keeps(i)
    BY <1>5, AnswersStep
  <2>2. UNCHANGED <<explore_progress, timers>>
    BY <1>5 DEF AnswerQuery, AnswerExplore, KillExplore, EmptyOutput, RunSearch, ReadOutput,
                WriteExploreQuery, EmptyExploreOutput, RunExplore, LookAtProcess, ReadEntries,
                widget
  <2> QED BY <2>1, <2>2 DEF Only, Keeps
<1>6. ASSUME NEW i \in CallIds, ShowResult(i) PROVE ScreenIsPolled'
  <2>1. Freed(i)
    BY <1>6, FreeFacts DEF ShowResult, IInv, TypeOK
  <2> QED BY <1>6, <2>1 DEF ShowResult, Freed, Only
<1>7. ASSUME NEW i \in CallIds, ShowProgress(i) PROVE ScreenIsPolled'
  <2>1. TakeAnswer(calls[i]) /\ Freed(i)
    BY <1>7, FreeFacts DEF ShowProgress, IInv, TypeOK
  <2>2. CASE explore_progress < 0
    BY <2>1, <2>2 DEF TakeAnswer, IInv, TypeOK
  <2>3. CASE explore_progress >= 0 /\ calls[i].finished
    BY <2>1, <2>3 DEF TakeAnswer, IInv, TypeOK
  <2>4. CASE explore_progress >= 0 /\ ~calls[i].finished
    <3>1. timers' = timers + 1
      BY <2>1, <2>4 DEF TakeAnswer, IInv, TypeOK
    <3> QED BY <3>1 DEF IInv, TypeOK
  <2>5. explore_progress < 0 \/ explore_progress >= 0
    BY DEF IInv, TypeOK
  <2> QED BY <2>2, <2>3, <2>4, <2>5
<1>8. ASSUME NEW p \in 1..MaxScreens, Explore(p) PROVE ScreenIsPolled'
  BY <1>8 DEF Explore, WriteEntry, EndProcess, widget
<1> QED BY <1>1, <1>2, <1>3, <1>4, <1>5, <1>6, <1>7, <1>8 DEF Next, Click, Deliver

(* While the progress bar of handle-explore is shown, a call of it is      *)
(* under way or a timer will send one.                                     *)
THEOREM AlwaysPolled == Spec => []ScreenIsPolled
<1>1. Init => ScreenIsPolled
  BY DEF Init, ScreenIsPolled
<1> QED BY <1>1, InvariantHolds, PollingStep, PTL DEF Spec

(* There is one search at a time, and at each step of its call the files   *)
(* hold what the query last asked made of them.                            *)
QueryInv ==
  /\ \A i, j \in CallIds :
       calls[i].kind = "query" /\ calls[j].kind = "query" => i = j
  /\ \A i \in CallIds : calls[i].kind = "query" =>
       /\ in_progress /\ searches > 0 /\ calls[i].query = asked
       /\ calls[i].step = "search" => query_cache = asked /\ output = {}
       /\ calls[i].step = "read" => output = Solutions(asked)
       /\ calls[i].step = "answered" => calls[i].result = Solutions(asked)
  /\ ResultIsOfTheQuery

(* After the output is emptied, what the search program leaves in it is    *)
(* what it finds, whether it aborts or not.                                *)
LEMMA SearchFinds ==
  ASSUME NEW i \in CallIds, RunSearch(i), query_cache \in Query, output = {}
  PROVE  output' = Solutions(query_cache)
BY ChoicesAssumption DEF RunSearch, Solutions, Query

(* What the answers to explore calls leave alone.                          *)
LEMMA ExploreLeavesQueries ==
  ASSUME IInv, NEW i \in CallIds, AnswerExplore(i)
  PROVE  /\ UNCHANGED <<in_progress, query_result, query_fail, asked, searches, query_cache,
                        output, blacklist, filtered, polled>>
         /\ calls[i].kind = "explore"
BY DEF AnswerExplore, WriteExploreQuery, EmptyExploreOutput, RunExplore, LookAtProcess,
       ReadEntries, At, widget, files, history

(* No step lets two searches share the files, or shows the results of      *)
(* another query.                                                          *)
LEMMA QueryStep == IInv /\ QueryInv /\ [Next]_vars => QueryInv'
<1> SUFFICES ASSUME IInv, QueryInv, [Next]_vars PROVE QueryInv'
  OBVIOUS
<1>1. CASE ClickSearch \/ ClickFilter
  <2>1. PICK i \in CallIds : Sent(i, "query", "kill", asked')
    BY <1>1, ClicksSendQueries
  <2>2. ~in_progress /\ in_progress' = TRUE /\ searches' > 0
    BY <1>1, ClicksSendQueries
  <2>3. \A j \in CallIds : calls'[j].kind = "query" => j = i
    BY <2>1, <2>2 DEF QueryInv, Sent, Only
  <2> QED BY <2>1, <2>2, <2>3 DEF QueryInv, ResultIsOfTheQuery, Sent
<1>2. CASE ClickScreen \/ TimerFires
  <2>1. PICK i \in CallIds, q \in Query, s \in {"write", "look"} : Sent(i, "explore", s, q)
    BY <1>2, PollsSendCalls
  <2>2. UNCHANGED <<in_progress, query_result, query_fail, asked, searches, query_cache, output>>
    BY <1>2 DEF ClickScreen, TimerFires, files
  <2> QED BY <2>1, <2>2 DEF QueryInv, ResultIsOfTheQuery, Solutions, Sent, Only
<1>3. CASE ClickStop \/ ClickReset \/ UNCHANGED vars
  <2>1. UNCHANGED <<calls, in_progress, query_result, query_fail, asked, searches,
                    query_cache, output>>
    BY <1>3 DEF ClickStop, ClickReset, vars, widget, files, history
  <2> QED BY <2>1 DEF QueryInv, ResultIsOfTheQuery, Solutions
<1>4. ASSUME NEW i \in CallIds, AnswerQuery(i) PROVE QueryInv'
  <2>1. Only(i) /\ Keeps(i)
    BY <1>4, AnswersStep
  <2>2. /\ UNCHANGED <<in_progress, query_result, query_fail, asked, searches>>
        /\ calls[i].kind = "query" /\ calls[i].query = asked
    BY <1>4 DEF AnswerQuery, KillExplore, EmptyOutput, RunSearch, ReadOutput, At, QueryInv,
                widget, history
  <2>3. \A j \in CallIds : calls'[j].kind = "query" => j = i
    BY <2>1, <2>2 DEF QueryInv, Only, Keeps
  <2>4. /\ calls'[i].step = "search" => query_cache' = asked /\ output' = {}
        /\ calls'[i].step = "read" => output' = Solutions(asked)
        /\ calls'[i].step = "answered" => calls'[i].result = Solutions(asked)
    <3>1. CASE KillExplore(i)
      <4>1. calls'[i].step = "empty"
        BY <3>1, StepsFacts DEF KillExplore, Steps
      <4> QED BY <4>1
    <3>2. CASE EmptyOutput(i)
      <4>1. calls'[i].step = "search"
        BY <3>2, StepsFacts DEF EmptyOutput, Steps
      <4> QED BY <3>2, <4>1, <2>2 DEF EmptyOutput
    <3>3. CASE RunSearch(i)
      <4>1. calls'[i].step = "read"
        BY <3>3, StepsFacts DEF RunSearch, Steps
      <4>2. query_cache = asked /\ output = {} /\ query_cache \in Query
        BY <3>3, <2>2 DEF RunSearch, At, QueryInv, IInv, TypeOK
      <4> QED BY <3>3, <4>1, <4>2, SearchFinds
    <3>4. CASE ReadOutput(i)
      <4>1. calls'[i].step = "answered" /\ calls'[i].result = output
        BY <3>4, AnswerQueryFacts DEF IInv
      <4> QED BY <3>4, <4>1, <2>2 DEF ReadOutput, At, QueryInv
    <3> QED BY <1>4, <3>1, <3>2, <3>3, <3>4 DEF AnswerQuery
  <2>5. ResultIsOfTheQuery'
    BY <2>2 DEF QueryInv, ResultIsOfTheQuery, Solutions
  <2>6. in_progress' /\ searches' > 0 /\ calls'[i].query = asked'
    BY <2>1, <2>2 DEF QueryInv, Keeps
  <2>7. Solutions(asked)' = Solutions(asked) /\ asked' = asked
    BY <2>2 DEF Solutions
  <2> QED BY <2>3, <2>4, <2>5, <2>6, <2>7 DEF QueryInv, Solutions
<1>5. ASSUME NEW i \in CallIds, AnswerExplore(i) PROVE QueryInv'
  <2>1. Only(i) /\ Keeps(i)
    BY <1>5, AnswersStep
  <2> QED BY <1>5, <2>1, ExploreLeavesQueries
          DEF QueryInv, ResultIsOfTheQuery, Solutions, Only, Keeps
<1>6. ASSUME NEW i \in CallIds, ShowResult(i) PROVE QueryInv'
  <2>1. Freed(i)
    BY <1>6, FreeFacts DEF ShowResult, IInv, TypeOK
  <2>2. \A j \in CallIds : calls'[j].kind # "query"
    BY <1>6, <2>1 DEF ShowResult, QueryInv, Freed, Only
  <2>3. query_result' = Solutions(asked) /\ asked' = asked
    BY <1>6 DEF ShowResult, QueryInv, history
  <2>4. query_fail' = (query_result' = {})
    BY <1>6 DEF ShowResult
  <2> QED BY <2>2, <2>3, <2>4 DEF QueryInv, ResultIsOfTheQuery, Solutions
<1>7. ASSUME NEW i \in CallIds, ShowProgress(i) PROVE QueryInv'
  <2>1. Freed(i)
    BY <1>7, FreeFacts DEF ShowProgress, IInv, TypeOK
  <2>2. UNCHANGED <<in_progress, query_result, query_fail, asked, searches, query_cache, output>>
    BY <1>7 DEF ShowProgress, files, history
  <2> QED BY <2>1, <2>2 DEF QueryInv, ResultIsOfTheQuery, Solutions, Freed, Only
<1>8. ASSUME NEW p \in 1..MaxScreens, Explore(p) PROVE QueryInv'
  <2>1. UNCHANGED <<calls, in_progress, query_result, query_fail, asked, searches,
                    query_cache, output>>
    BY <1>8 DEF Explore, WriteEntry, EndProcess, widget, files, history
  <2> QED BY <2>1 DEF QueryInv, ResultIsOfTheQuery, Solutions
<1> QED BY <1>1, <1>2, <1>3, <1>4, <1>5, <1>6, <1>7, <1>8 DEF Next, Click, Deliver

(* The results that handle-query shows are those of the query asked last.  *)
THEOREM ResultsBelong == Spec => []ResultIsOfTheQuery
<1>1. Init => QueryInv
  BY NoCallIsTyped DEF Init, QueryInv, ResultIsOfTheQuery
<1>2. QueryInv => ResultIsOfTheQuery
  BY DEF QueryInv
<1> QED BY <1>1, <1>2, InvariantHolds, QueryStep, PTL DEF Spec

(* The blacklist and the query last asked contain what was filtered, and   *)
(* results are shown only after a search.                                  *)
FilterInv ==
  /\ ~polled => filtered \subseteq blacklist /\ filtered \subseteq asked.bans
  /\ query_result # {} => ~in_progress /\ searches > 0

(* The blacklist and the query asked last keep what was filtered, until a  *)
(* poll.                                                                   *)
LEMMA FilterStep == IInv /\ QueryInv /\ FilterInv /\ [Next]_vars => FilterInv'
<1> SUFFICES ASSUME IInv, QueryInv, FilterInv, [Next]_vars PROVE FilterInv'
  OBVIOUS
<1>1. CASE ClickSearch \/ ClickFilter
  BY <1>1, ClicksSendQueries DEF FilterInv
<1>2. CASE ClickScreen \/ TimerFires
  <2>1. UNCHANGED <<in_progress, query_result, searches>>
    BY <1>2 DEF ClickScreen, TimerFires
  <2> QED BY <1>2, <2>1, PollsSendCalls DEF FilterInv
<1>3. ASSUME NEW i \in CallIds, ShowResult(i) PROVE FilterInv'
  <2>1. PICK j \in CallIds : calls[j].kind = "query"
    BY <1>3 DEF ShowResult
  <2>2. searches > 0
    BY <2>1 DEF QueryInv
  <2> QED BY <1>3, <2>2 DEF ShowResult, FilterInv, history
<1>4. ASSUME UNCHANGED <<blacklist, filtered, polled, asked, in_progress, query_result,
                         searches>>
      PROVE  FilterInv'
  BY <1>4 DEF FilterInv
<1>5. ASSUME NEW i \in CallIds, AnswerQuery(i) \/ AnswerExplore(i) \/ ShowProgress(i)
      PROVE  FilterInv'
  BY <1>4, <1>5, ExploreLeavesQueries
  DEF AnswerQuery, KillExplore, EmptyOutput, RunSearch, ReadOutput, ShowProgress, widget, history
<1>6. CASE \/ ClickStop \/ ClickReset \/ UNCHANGED vars
           \/ \E p \in 1..MaxScreens : Explore(p)
  BY <1>4, <1>6 DEF ClickStop, ClickReset, Explore, WriteEntry, EndProcess, vars, widget, history
<1> QED BY <1>1, <1>2, <1>3, <1>5, <1>6 DEF Next, Click, Deliver

(* Until a screen polls, no armor that append-blacklist has put on the     *)
(* list is shown again.                                                    *)
THEOREM FilteredStay == Spec => []FilteredStaysOut
<1>1. Init => QueryInv /\ FilterInv
  BY NoCallIsTyped DEF Init, QueryInv, FilterInv, ResultIsOfTheQuery
<1>2. QueryInv /\ FilterInv => FilteredStaysOut
  BY DEF QueryInv, FilterInv, FilteredStaysOut, ResultIsOfTheQuery, Solutions
<1> QED BY <1>1, <1>2, InvariantHolds, QueryStep, FilterStep, PTL DEF Spec

(* A process that is over and was not killed has written all its entries,  *)
(* and a call that found its process finished did not find it too early.   *)
ProcessInv ==
  /\ emptied <= explore_process + 1
  /\ emptied > explore_process => \E i \in CallIds : calls[i].step = "run"
  /\ \A p \in 1..explore_process :
       p \notin alive /\ p \notin killed => written[p] = Entries(p)
  /\ \A i \in CallIds : calls[i].kind = "explore" /\ calls[i].step \in {"read", "answered"} =>
       /\ calls[i].process \in 1..explore_process
       /\ calls[i].finished => calls[i].process \notin alive
  /\ FinishedMeansComplete

(* What a process has found once it has written all its entries.           *)
LEMMA AllEntriesPass ==
  ASSUME NEW p, screened[p] \in Choices
  PROVE  Passing(screened[p], Entries(p)) = Reachable[screened[p]]
<1>1. Reachable[screened[p]] \subseteq 1..(NSystems - 1)
  BY ChoicesAssumption
<1>2. CASE screened[p] \in Unreadable
  BY <1>2, ChoicesAssumption DEF Passing, Entries
<1>3. CASE screened[p] \notin Unreadable
  BY <1>1, <1>3 DEF Passing, Entries
<1> QED BY <1>2, <1>3

(* The invariant survives a step that leaves the processes and their file  *)
(* alone and brings no call to where it has looked at its process.         *)
LEMMA ProcessFrame ==
  ASSUME ProcessInv, NEW i \in CallIds, Only(i), calls[i].step # "run",
         calls'[i].kind # "explore" \/ calls'[i].step \notin {"read", "answered"},
         UNCHANGED <<emptied, explore_process, screened, written, alive, killed>>
  PROVE  ProcessInv'
<1>1. \A j \in CallIds : j # i => calls'[j] = calls[j]
  BY DEF Only
<1>2. emptied' > explore_process' => \E j \in CallIds : calls'[j].step = "run"
  BY <1>1 DEF ProcessInv
<1>3. FinishedMeansComplete'
  BY <1>1 DEF ProcessInv, FinishedMeansComplete, ExploreCalls
<1> QED BY <1>1, <1>2, <1>3 DEF ProcessInv, Entries

(* No step ends a process before its entries are written, or lets a call   *)
(* find it finished too early.                                             *)
LEMMA ProcessesStep == IInv /\ ProcessInv /\ [Next]_vars => ProcessInv'
<1> SUFFICES ASSUME IInv, ProcessInv, [Next]_vars PROVE ProcessInv'
  OBVIOUS
<1>s. {"empty", "search", "read", "answered", "truncate", "run", "look"} \subseteq Steps
  BY DEF Steps
<1>1. CASE ClickSearch \/ ClickFilter
  <2>1. PICK i \in CallIds : Sent(i, "query", "kill", asked')
    BY <1>1, ClicksSendQueries
  <2>2. UNCHANGED <<emptied, explore_process, screened, written, alive, killed>>
    BY <1>1 DEF ClickSearch, ClickFilter, files, processes
  <2>3. calls[i].step # "run"
    BY <2>1 DEF Sent, IInv, KindsInv
  <2> QED BY <2>1, <2>2, <2>3, ProcessFrame DEF Sent
<1>2. CASE ClickScreen \/ TimerFires
  <2>1. PICK i \in CallIds, q \in Query, s \in {"write", "look"} : Sent(i, "explore", s, q)
    BY <1>2, PollsSendCalls
  <2>2. UNCHANGED <<emptied, explore_process, screened, written, alive, killed>>
    BY <1>2 DEF ClickScreen, TimerFires, files, processes
  <2>3. calls[i].step # "run"
    BY <2>1 DEF Sent, IInv, KindsInv
  <2> QED BY <2>1, <2>2, <2>3, ProcessFrame DEF Sent
<1>3. CASE ClickStop \/ ClickReset \/ UNCHANGED vars
  <2>1. UNCHANGED <<calls, emptied, explore_process, screened, written, alive, killed>>
    BY <1>3 DEF ClickStop, ClickReset, vars, files, processes
  <2> QED BY <2>1 DEF ProcessInv, FinishedMeansComplete, ExploreCalls, Entries
<1>4. ASSUME NEW i \in CallIds, Deliver(i) PROVE ProcessInv'
  <2>1. Freed(i)
    BY <1>4, FreeFacts DEF Deliver, ShowResult, ShowProgress, IInv, TypeOK
  <2>2. UNCHANGED <<emptied, explore_process, screened, written, alive, killed>>
    BY <1>4 DEF Deliver, ShowResult, ShowProgress, files, processes
  <2>3. calls[i].step # "run"
    BY <1>4 DEF Deliver, ShowResult, ShowProgress
  <2> QED BY <2>1, <2>2, <2>3, ProcessFrame DEF Freed
<1>5. ASSUME NEW i \in CallIds, EmptyOutput(i) \/ RunSearch(i) \/ ReadOutput(i)
                                \/ WriteExploreQuery(i)
      PROVE  ProcessInv'
  <2>1. /\ Only(i) /\ calls'[i].kind = calls[i].kind
        /\ calls[i].kind = "query" \/ calls'[i].step = "truncate"
        /\ calls[i].step # "run"
    BY <1>5, <1>s, StepsFacts, AnswersStep
    DEF AnswerQuery, AnswerExplore, EmptyOutput, RunSearch, ReadOutput, WriteExploreQuery,
        At, Keeps
  <2>2. UNCHANGED <<emptied, explore_process, screened, written, alive, killed>>
    BY <1>5 DEF EmptyOutput, RunSearch, ReadOutput, WriteExploreQuery, files, processes
  <2> QED BY <2>1, <2>2, ProcessFrame
<1>6. ASSUME NEW i \in CallIds, KillExplore(i) PROVE ProcessInv'
  <2>1. Only(i) /\ calls'[i].kind = "query" /\ calls[i].step = "kill"
    BY <1>6, <1>s, StepsFacts DEF KillExplore, At
  <2>2. /\ UNCHANGED <<emptied, explore_process, screened, written>>
        /\ alive' = alive \ {explore_process}
        /\ killed' = killed \union (alive \intersect {explore_process})
    BY <1>6 DEF KillExplore, files
  <2>3. FinishedMeansComplete'
    BY <2>1, <2>2 DEF ProcessInv, FinishedMeansComplete, ExploreCalls, Only
  <2>4. emptied > explore_process => \E j \in CallIds : calls'[j].step = "run"
    BY <2>1 DEF ProcessInv, Only
  <2> QED BY <2>1, <2>2, <2>3, <2>4 DEF ProcessInv, Entries, Only
<1>7. ASSUME NEW i \in CallIds, EmptyExploreOutput(i) PROVE ProcessInv'
  <2>1. Only(i) /\ calls'[i].step = "run" /\ calls[i].step = "truncate"
    BY <1>7, <1>s, StepsFacts DEF EmptyExploreOutput, At
  <2>2. UNCHANGED <<explore_process, screened, written, alive, killed>> /\ emptied' = emptied + 1
    BY <1>7 DEF EmptyExploreOutput, processes
  <2>3. emptied = explore_process
    BY <2>1 DEF ProcessInv, IInv, TypeOK, StartInv, Starting
  <2>4. FinishedMeansComplete'
    BY <2>1, <2>2, <2>3 DEF ProcessInv, FinishedMeansComplete, ExploreCalls, Only, IInv, TypeOK
  <2> QED BY <2>1, <2>2, <2>3, <2>4 DEF ProcessInv, Entries, Only, IInv, TypeOK
<1>8. ASSUME NEW i \in CallIds, RunExplore(i) PROVE ProcessInv'
  <2>1. Only(i) /\ calls'[i].step = "look" /\ calls[i].step = "run"
    BY <1>8, <1>s, StepsFacts DEF RunExplore, At
  <2>2. /\ UNCHANGED <<emptied, written, killed>> /\ explore_process' = emptied
        /\ alive' = alive \union {emptied}
        /\ screened' = [screened EXCEPT ![emptied] = explore_query_cache]
    BY <1>8 DEF RunExplore, StoreProcess, history
  <2>3. emptied = explore_process + 1 /\ explore_process \in Nat
    BY <2>1 DEF ProcessInv, IInv, TypeOK, StartInv
  <2>4. \A p \in 1..explore_process : screened'[p] = screened[p]
    BY <2>2, <2>3, BoundsAssumption DEF IInv, TypeOK
  <2>5. \A p \in 1..explore_process' :
          p \notin alive' /\ p \notin killed' => written'[p] = Entries(p)'
    BY <2>2, <2>3, <2>4 DEF ProcessInv, Entries
  <2>6. \A j \in CallIds : calls'[j].kind = "explore" /\ calls'[j].step \in {"read", "answered"} =>
          /\ calls'[j] = calls[j] /\ calls[j].process \in 1..explore_process
          /\ calls[j].finished => calls[j].process \notin alive
    BY <2>1 DEF ProcessInv, Only
  <2>7. FinishedMeansComplete'
    BY <2>2, <2>3, <2>6 DEF FinishedMeansComplete, ExploreCalls
  <2> QED BY <2>2, <2>3, <2>5, <2>6, <2>7 DEF ProcessInv
<1>9. ASSUME NEW i \in CallIds, LookAtProcess(i) PROVE ProcessInv'
  <2>1. /\ Only(i) /\ calls'[i].step = "read" /\ calls[i].step = "look"
        /\ calls'[i].process = explore_process
        /\ calls'[i].finished = (explore_process \notin alive)
    BY <1>9, LookFacts DEF LookAtProcess, At, IInv
  <2>2. UNCHANGED <<emptied, explore_process, screened, written, alive, killed>>
    BY <1>9 DEF LookAtProcess, files, processes
  <2>3. explore_process \in 1..explore_process
    BY <1>9 DEF LookAtProcess, At, IInv, TypeOK, StartInv, Looking
  <2>4. emptied > explore_process => \E j \in CallIds : calls'[j].step = "run"
    BY <2>1 DEF ProcessInv, Only
  <2>5. FinishedMeansComplete'
    BY <2>1, <2>2 DEF ProcessInv, FinishedMeansComplete, ExploreCalls, Only
  <2> QED BY <2>1, <2>2, <2>3, <2>4, <2>5 DEF ProcessInv, Entries, Only
<1>10. ASSUME NEW i \in CallIds, ReadEntries(i) PROVE ProcessInv'
  <2>1. emptied \in 1..MaxScreens
    BY <1>10, BoundsAssumption DEF ReadEntries, At, IInv, TypeOK, StartInv, Looking
  <2>2. /\ Only(i) /\ calls'[i].step = "answered" /\ calls[i].step = "read"
        /\ calls[i].kind = "explore"
        /\ calls'[i].result = Passing(screened[emptied], written[emptied])
        /\ calls'[i].process = calls[i].process
        /\ calls'[i].finished = calls[i].finished
    BY <1>10, <2>1, ReadFacts DEF ReadEntries, At, IInv
  <2>3. UNCHANGED <<emptied, explore_process, screened, written, alive, killed>>
    BY <1>10 DEF ReadEntries, files, processes
  <2>4. /\ calls[i].process \in 1..explore_process
        /\ calls[i].finished => calls[i].process \notin alive
    BY <2>2 DEF ProcessInv
  <2>5. ASSUME calls[i].finished, calls[i].process = emptied, emptied \notin killed
        PROVE  calls'[i].result = Reachable[screened[emptied]]
    <3>1. written[emptied] = Entries(emptied)
      BY <2>4, <2>5 DEF ProcessInv
    <3>2. screened[emptied] \in Choices
      BY <2>1 DEF IInv, TypeOK
    <3> QED BY <2>2, <3>1, <3>2, AllEntriesPass
  <2>6. FinishedMeansComplete'
    BY <2>2, <2>3, <2>5 DEF ProcessInv, FinishedMeansComplete, ExploreCalls, Only
  <2>7. emptied > explore_process => \E j \in CallIds : calls'[j].step = "run"
    BY <2>2 DEF ProcessInv, Only
  <2> QED BY <2>2, <2>3, <2>4, <2>6, <2>7 DEF ProcessInv, Entries, Only
<1>11. ASSUME NEW p \in 1..MaxScreens, Explore(p) PROVE ProcessInv'
  <2>1. UNCHANGED <<calls, emptied, explore_process, screened, killed>>
    BY <1>11 DEF Explore, WriteEntry, EndProcess, files, history
  <2>2. FinishedMeansComplete'
    BY <2>1 DEF ProcessInv, FinishedMeansComplete, ExploreCalls
  <2>3. alive' \subseteq alive
    BY <1>11 DEF Explore, WriteEntry, EndProcess
  <2>4. \A r \in 1..explore_process :
          r \notin alive' /\ r \notin killed => written'[r] = Entries(r)
    <3>1. CASE WriteEntry(p)
      BY <3>1 DEF WriteEntry, ProcessInv, IInv, TypeOK
    <3>2. CASE EndProcess(p)
      BY <3>2 DEF EndProcess, ProcessInv
    <3> QED BY <1>11, <3>1, <3>2 DEF Explore
  <2> QED BY <2>1, <2>2, <2>3, <2>4 DEF ProcessInv, Entries
<1> QED BY <1>1, <1>2, <1>3, <1>4, <1>5, <1>6, <1>7, <1>8, <1>9, <1>10, <1>11
        DEF Next, Click, AnswerQuery, AnswerExplore

(* When answer-explore says "finished" of a process that was not killed    *)
(* and whose file is still the one of the session, its answer is complete. *)
THEOREM FinishedIsComplete == Spec => []FinishedMeansComplete
<1>1. Init => ProcessInv
  BY NoCallIsTyped DEF Init, ProcessInv, FinishedMeansComplete, ExploreCalls
<1>2. ProcessInv => FinishedMeansComplete
  BY DEF ProcessInv
<1> QED BY <1>1, <1>2, InvariantHolds, ProcessesStep, PTL DEF Spec

(* While a screen that nothing has disturbed is under way, one call or one *)
(* timer is about it, and what they look at is its own process.            *)
Screened ==
  /\ emptied = explore_process /\ emptied \notin killed
  /\ screened[emptied] = screening

ScreenInv ==
  explore_progress >= 0 /\ ~disturbed =>
    /\ \A i, j \in ExploreCalls : i = j
    /\ timers > 0 => ExploreCalls = {} /\ Screened
    /\ timers <= 1
    /\ \A i \in ExploreCalls :
         /\ calls[i].step = "write" => calls[i].query.choice = screening
         /\ calls[i].step \in {"truncate", "run"} => explore_query_cache = screening
         /\ calls[i].step \in Looking => Screened
         /\ calls[i].step \in {"read", "answered"} => calls[i].process = emptied

(* A step that leaves the screen, its files and its processes alone.       *)
LEMMA ScreenFrame ==
  ASSUME ScreenInv, NEW i \in CallIds, Only(i),
         calls[i].kind # "explore", calls'[i].kind # "explore",
         disturbed => disturbed', killed' = killed \/ disturbed',
         UNCHANGED <<explore_progress, timers, screening, explore_query_cache,
                     emptied, explore_process, screened>>
  PROVE  ScreenInv'
<1>1. ExploreCalls' = ExploreCalls
  BY DEF ExploreCalls, Only
<1>2. \A j \in ExploreCalls : calls'[j] = calls[j]
  BY DEF ExploreCalls, Only
<1>3. CASE killed' = killed
  <2>1. Screened' = Screened
    BY <1>3 DEF Screened
  <2> QED BY <1>1, <1>2, <2>1 DEF ScreenInv
<1> QED BY <1>3 DEF ScreenInv

(* No step brings a second call into a screen that nothing disturbs, or    *)
(* makes its call look at another process.                                 *)
LEMMA ScreenStep == IInv /\ ScreenInv /\ [Next]_vars => ScreenInv'
<1> SUFFICES ASSUME IInv, ScreenInv, [Next]_vars PROVE ScreenInv'
  OBVIOUS
<1>s. {"empty", "search", "read", "answered", "truncate", "run", "look"} \subseteq Steps
  BY DEF Steps
<1>1. CASE ClickSearch \/ ClickFilter
  <2>1. PICK i \in CallIds : Sent(i, "query", "kill", asked')
    BY <1>1, ClicksSendQueries
  <2>2. UNCHANGED <<explore_progress, timers, screening, explore_query_cache, disturbed,
                    emptied, explore_process, screened, killed>>
    BY <1>1 DEF ClickSearch, ClickFilter, files, processes
  <2> QED BY <2>1, <2>2, ScreenFrame DEF Sent
<1>2. CASE ClickScreen
  <2>1. PICK choice \in Choices : HandleExplore(choice, TRUE) /\ screening' = choice
    BY <1>2 DEF ClickScreen
  <2>2. Busy < Cardinality(CallIds)
    BY <1>2, UnderWayIsFinite DEF ClickScreen, MayScreen, RoomForCall, IInv, TypeOK, Busy
  <2>3. PICK i \in CallIds, q \in Query : Sent(i, "explore", "write", q) /\ q.choice = choice
    BY <2>1, <2>2, HandleExploreFacts
  <2>4. ~disturbed' => ExploreCalls = {} /\ timers' = 0
    <3>1. disturbed' = (ExploreCalls # {} \/ timers > 0)
      BY <1>2 DEF ClickScreen
    <3>2. ~disturbed' => ExploreCalls = {} /\ ~(timers > 0)
      BY <3>1, Zenon
    <3>3. timers' = timers /\ timers \in Nat
      BY <1>2 DEF ClickScreen, IInv, TypeOK
    <3> QED BY <3>2, <3>3
  <2>5. ~disturbed' => \A j \in ExploreCalls' : j = i
    BY <2>3, <2>4 DEF ExploreCalls, Sent, Only
  <2> QED BY <2>1, <2>3, <2>4, <2>5 DEF ScreenInv, Sent, Looking
<1>3. CASE TimerFires
  <2>1. Busy < Cardinality(CallIds) /\ FirstChoice \in Choices
    BY <1>3, UnderWayIsFinite, ChoicesAssumption DEF TimerFires, IInv, Free, TypeOK
  <2>2. HandleExplore(FirstChoice, FALSE)
    BY <1>3 DEF TimerFires
  <2>3. PICK i \in CallIds, q \in Query : Sent(i, "explore", "look", q)
    BY <2>1, <2>2, HandleExploreFacts
  <2>4. UNCHANGED <<explore_progress, screening, disturbed, emptied, explore_process,
                    screened, killed>>
    BY <1>3, <2>2 DEF TimerFires, HandleExplore, files, processes
  <2>5. timers > 0 /\ timers' = timers - 1 /\ timers \in Nat
    BY <1>3 DEF TimerFires, IInv, TypeOK
  <2>6. ASSUME explore_progress >= 0, ~disturbed
        PROVE  timers' = 0 /\ Screened /\ \A j \in ExploreCalls' : j = i
    BY <2>3, <2>5, <2>6 DEF ScreenInv, ExploreCalls, Sent, Only
  <2>7. Screened' = Screened
    BY <2>4 DEF Screened
  <2> QED BY <2>3, <2>4, <2>6, <2>7 DEF ScreenInv, Sent
<1>4. CASE ClickStop
  BY <1>4 DEF ClickStop, ScreenInv
<1>5. CASE ClickReset \/ UNCHANGED vars
  <2>1. UNCHANGED <<calls, explore_progress, timers, screening, explore_query_cache, disturbed,
                    emptied, explore_process, screened, killed>>
    BY <1>5 DEF ClickReset, vars, widget, files, processes, history
  <2> QED BY <2>1 DEF ScreenInv, Screened, ExploreCalls
<1>6. ASSUME NEW p \in 1..MaxScreens, Explore(p) PROVE ScreenInv'
  <2>1. UNCHANGED <<calls, explore_progress, timers, screening, explore_query_cache, disturbed,
                    emptied, explore_process, screened, killed>>
    BY <1>6 DEF Explore, WriteEntry, EndProcess, widget, files, history
  <2> QED BY <2>1 DEF ScreenInv, Screened, ExploreCalls
<1>7. ASSUME NEW i \in CallIds, AnswerQuery(i) PROVE ScreenInv'
  <2>1. Only(i) /\ calls[i].kind = "query" /\ calls'[i].kind = "query"
    BY <1>7, AnswersStep DEF AnswerQuery, KillExplore, EmptyOutput, RunSearch, ReadOutput, At, Keeps
  <2>2. UNCHANGED <<explore_progress, timers, screening, explore_query_cache,
                    emptied, explore_process, screened>>
    BY <1>7 DEF AnswerQuery, KillExplore, EmptyOutput, RunSearch, ReadOutput,
                widget, files, processes, history
  <2>3. (disturbed => disturbed') /\ (killed' = killed \/ disturbed')
    <3>1. CASE KillExplore(i)
      <4>1. /\ disturbed' = (disturbed \/ explore_process \in alive)
            /\ killed' = killed \union (alive \intersect {explore_process})
        BY <3>1 DEF KillExplore
      <4>2. (disturbed => disturbed') /\ (explore_process \in alive => disturbed')
        BY <4>1, Zenon
      <4>3. explore_process \notin alive => killed' = killed
        BY <4>1
      <4> QED BY <4>2, <4>3
    <3>2. CASE EmptyOutput(i) \/ RunSearch(i) \/ ReadOutput(i)
      BY <3>2 DEF EmptyOutput, RunSearch, ReadOutput, processes, history
    <3> QED BY <1>7, <3>1, <3>2 DEF AnswerQuery
  <2> QED BY <2>1, <2>2, <2>3, ScreenFrame
<1>8. ASSUME NEW i \in CallIds, ShowResult(i) PROVE ScreenInv'
  <2>1. Freed(i) /\ calls[i].kind = "query"
    BY <1>8, FreeFacts DEF ShowResult, IInv, TypeOK
  <2>2. UNCHANGED <<explore_progress, timers, screening, explore_query_cache, disturbed,
                    emptied, explore_process, screened, killed>>
    BY <1>8 DEF ShowResult, files, processes, history
  <2> QED BY <2>1, <2>2, ScreenFrame DEF Freed
<1>9. ASSUME NEW i \in CallIds, ShowProgress(i) PROVE ScreenInv'
  <2>1. Freed(i) /\ TakeAnswer(calls[i]) /\ calls[i].step = "answered" /\ i \in ExploreCalls
    BY <1>9, FreeFacts DEF ShowProgress, ExploreCalls, IInv, TypeOK
  <2>2. UNCHANGED <<screening, disturbed, emptied, explore_process, screened, killed>>
    BY <1>9 DEF ShowProgress, files, processes, history
  <2>3. ASSUME explore_progress' >= 0, ~disturbed'
        PROVE  explore_progress >= 0 /\ ~disturbed /\ timers' = timers + 1
    <3>1. disturbed' = disturbed
      BY <2>2
    <3>2. explore_progress >= 0
      <4>1. explore_progress \in Int
        BY DEF IInv, TypeOK
      <4>2. ASSUME explore_progress < 0 PROVE FALSE
        <5>1. explore_progress' = explore_progress
          BY <2>1, <4>2 DEF TakeAnswer
        <5> QED BY <2>3, <4>1, <4>2, <5>1
      <4> QED BY <4>1, <4>2
    <3>3. ~(explore_progress < 0)
      BY <3>2 DEF IInv, TypeOK
    <3>4. ~calls[i].finished
      <4>1. ASSUME calls[i].finished PROVE explore_progress' = -1
        BY <2>1, <3>3, <4>1 DEF TakeAnswer
      <4> QED BY <2>3, <4>1
    <3>5. timers' = timers + 1
      BY <2>1, <3>3, <3>4 DEF TakeAnswer
    <3> QED BY <2>3, <3>1, <3>2, <3>5
  <2>4. ASSUME explore_progress >= 0, ~disturbed
        PROVE  timers = 0 /\ ExploreCalls' = {} /\ Screened
    BY <2>1, <2>4 DEF ScreenInv, ExploreCalls, Freed, Only, Looking, IInv, TypeOK
  <2>5. Screened' = Screened
    BY <2>2 DEF Screened
  <2> QED BY <2>3, <2>4, <2>5 DEF ScreenInv
<1>10. ASSUME NEW i \in CallIds, AnswerExplore(i) PROVE ScreenInv'
  <2> SUFFICES ASSUME explore_progress' >= 0, ~disturbed' PROVE ScreenInv'
    BY DEF ScreenInv
  <2>1. /\ Only(i) /\ calls[i].kind = "explore" /\ calls'[i].kind = "explore"
        /\ calls'[i].query = calls[i].query
    BY <1>10, AnswersStep, ExploreLeavesQueries DEF Keeps
  <2>2. UNCHANGED <<explore_progress, timers, screening, disturbed, killed>>
    BY <1>10 DEF AnswerExplore, WriteExploreQuery, EmptyExploreOutput, RunExplore,
                 LookAtProcess, ReadEntries, widget, processes, history
  <2>3. i \in ExploreCalls /\ timers = 0 /\ \A j \in ExploreCalls' : j = i
    BY <2>1, <2>2 DEF ScreenInv, ExploreCalls, Only, IInv, TypeOK
  <2>4. SUFFICES
          /\ calls'[i].step = "write" => calls'[i].query.choice = screening
          /\ calls'[i].step \in {"truncate", "run"} => explore_query_cache' = screening
          /\ calls'[i].step \in Looking => Screened'
          /\ calls'[i].step \in {"read", "answered"} => calls'[i].process = emptied'
    BY <2>2, <2>3 DEF ScreenInv
  <2>5. CASE WriteExploreQuery(i)
    <3>1. calls'[i].step = "truncate" /\ explore_query_cache' = screening
      BY <2>2, <2>3, <2>5, <1>s, StepsFacts DEF WriteExploreQuery, At, ScreenInv
    <3> QED BY <3>1 DEF Looking
  <2>6. CASE EmptyExploreOutput(i)
    <3>1. calls'[i].step = "run" /\ explore_query_cache' = screening
      BY <2>2, <2>3, <2>6, <1>s, StepsFacts DEF EmptyExploreOutput, At, ScreenInv
    <3> QED BY <3>1 DEF Looking
  <2>7. CASE RunExplore(i)
    <3>1. calls'[i].step = "look" /\ explore_query_cache = screening /\ calls[i].step = "run"
      BY <2>2, <2>3, <2>7, <1>s, StepsFacts DEF RunExplore, At, ScreenInv
    <3>2. explore_process < emptied /\ explore_process \in Nat /\ emptied \in 1..MaxScreens
      BY <3>1, BoundsAssumption DEF IInv, TypeOK, StartInv
    <3>3. emptied \notin killed
      BY <3>2 DEF IInv, StartInv
    <3>4. Screened'
      BY <2>2, <2>7, <3>1, <3>2, <3>3 DEF RunExplore, StoreProcess, Screened, IInv, TypeOK
    <3> QED BY <3>1, <3>4
  <2>8. CASE LookAtProcess(i)
    <3>1. calls[i].step = "look" /\ calls'[i].step = "read" /\ calls'[i].process = explore_process
      BY <2>8, LookFacts DEF LookAtProcess, At, IInv
    <3>2. Screened
      BY <2>2, <2>3, <3>1 DEF ScreenInv, Looking
    <3>3. UNCHANGED <<emptied, explore_process, screened>>
      BY <2>8 DEF LookAtProcess, files, processes
    <3> QED BY <2>2, <3>1, <3>2, <3>3 DEF Screened
  <2>9. CASE ReadEntries(i)
    <3>1. emptied \in 1..MaxScreens
      BY <2>9, BoundsAssumption DEF ReadEntries, At, IInv, TypeOK, StartInv, Looking
    <3>2. /\ calls[i].step = "read" /\ calls'[i].step = "answered"
          /\ calls'[i].process = calls[i].process
      BY <2>9, <3>1, ReadFacts DEF ReadEntries, At, IInv
    <3>3. Screened /\ calls[i].process = emptied
      BY <2>2, <2>3, <3>2 DEF ScreenInv, Looking
    <3>4. UNCHANGED <<emptied, explore_process, screened>>
      BY <2>9 DEF ReadEntries, files, processes
    <3> QED BY <2>2, <3>2, <3>3, <3>4 DEF Screened
  <2> QED BY <1>10, <2>5, <2>6, <2>7, <2>8, <2>9 DEF AnswerExplore
<1> QED BY <1>1, <1>2, <1>3, <1>4, <1>5, <1>6, <1>7, <1>8, <1>9, <1>10
        DEF Next, Click, Deliver

(* ScreenIsExact, of one step.                                             *)
ScreenEnds ==
  explore_progress >= 0 /\ explore_progress' < 0 /\ calls' # calls /\ ~disturbed
    => achievable_ids' = Reachable[screening]

(* The answer that ends such a screen is the whole of what is achievable.  *)
LEMMA ExactStep == IInv /\ ProcessInv /\ ScreenInv /\ [Next]_vars => ScreenEnds
<1> SUFFICES ASSUME IInv, ProcessInv, ScreenInv, [Next]_vars,
                    explore_progress >= 0, explore_progress' < 0, calls' # calls, ~disturbed
             PROVE  achievable_ids' = Reachable[screening]
  BY DEF ScreenEnds
<1>1. explore_progress' # explore_progress /\ explore_progress' # 0
  BY DEF IInv, TypeOK
<1>2. PICK i \in CallIds : ShowProgress(i)
  BY <1>1 DEF Next, Click, ClickSearch, ClickFilter, ClickScreen, ClickStop, ClickReset,
              TimerFires, HandleExplore, AnswerQuery, KillExplore, EmptyOutput, RunSearch,
              ReadOutput, AnswerExplore, WriteExploreQuery, EmptyExploreOutput, RunExplore,
              LookAtProcess, ReadEntries, Deliver, ShowResult, Explore, WriteEntry,
              EndProcess, widget, vars
<1>3. calls[i].kind = "explore" /\ calls[i].step = "answered" /\ TakeAnswer(calls[i])
  BY <1>2 DEF ShowProgress
<1>4. Screened /\ calls[i].process = emptied
  BY <1>3 DEF ScreenInv, ExploreCalls, Looking
<1>5. calls[i].finished /\ achievable_ids' = calls[i].result
  <2>1. Percentage(calls[i].size) \in 0..100
    BY Percents DEF IInv, TypeOK, CallType
  <2>2. /\ achievable_ids' = calls[i].result
        /\ explore_progress' = IF calls[i].finished THEN -1 ELSE Percentage(calls[i].size)
    BY <1>3 DEF TakeAnswer, IInv, TypeOK
  <2> QED BY <2>1, <2>2
<1>6. calls[i].result = Reachable[screened[calls[i].process]]
  BY <1>3, <1>4, <1>5 DEF ProcessInv, FinishedMeansComplete, ExploreCalls, Screened
<1> QED BY <1>4, <1>5, <1>6 DEF Screened

(* A screen that neither another screen nor a search has interfered with   *)
(* ends with exactly the skills achievable for its choice.                 *)
THEOREM ScreensAreExact == Spec => ScreenIsExact
<1>1. Init => ProcessInv /\ ScreenInv
  BY NoCallIsTyped DEF Init, ProcessInv, ScreenInv, FinishedMeansComplete, ExploreCalls
<1>2. ScreenEnds => [explore_progress >= 0 /\ explore_progress' < 0 /\ calls' # calls /\ ~disturbed
                       => achievable_ids' = Reachable[screening]]_vars
  BY DEF ScreenEnds
<1> QED BY <1>1, <1>2, InvariantHolds, ProcessesStep, ScreenStep, ExactStep, PTL DEF Spec, ScreenIsExact
=============================================================================
