----------------------------- MODULE WebSession -----------------------------
(***************************************************************************)
(* One browser page of the web interface and the server side of its        *)
(* session: src/lisp/ui/widgets/app-view.lisp (the handlers and the        *)
(* buttons that call them), src/lisp/ui/backend.lisp (the two remote       *)
(* procedures, one thread per call) and the programs they run.             *)
(*                                                                         *)
(* A search is one call; a screen of the skill systems is a call that      *)
(* starts a process, followed by polls until one of them reports that the  *)
(* process has ended.  The calls share the files and the process of the    *)
(* session.                                                                *)
(***************************************************************************)
EXTENDS Integers, FiniteSets

CONSTANTS
  Choices,     \* what the page may be set to: skills, amulets, parameters
  Screenable,  \* the choices with at least one skill
  Unreadable,  \* the choices whose query the programs abort on
  FirstChoice, \* the settings of a page just opened
  NSystems,    \* (length skill-systems); 0 is torso-up, which is not screened
  Reachable,   \* choice -> the skill systems the program finds achievable
  Armors,      \* armors a result may contain, one for each armor set
  Found,       \* choice -> the armors of the results without a blacklist
  CallIds,     \* at most so many calls are under way at a time
  MaxScreens,  \* the Screen button is clicked at most so often
  MaxSearches, \* searches are started at most so often
  MaxBoth      \* pairs: with so many screens at most so many searches

Systems == 0..(NSystems - 1)

ASSUME ChoicesAssumption ==
  /\ Screenable \subseteq Choices /\ Unreadable \subseteq Choices
  /\ FirstChoice \in Choices
  /\ NSystems \in Nat /\ NSystems > 1
  /\ Reachable \in [Choices -> SUBSET (1..(NSystems - 1))]
  /\ Found \in [Choices -> SUBSET Armors]
  /\ \A c \in Unreadable : Reachable[c] = {} /\ Found[c] = {}
ASSUME BoundsAssumption ==
  /\ IsFiniteSet(CallIds)
  /\ MaxScreens \in Nat /\ MaxSearches \in Nat
  /\ MaxBoth \subseteq (0..MaxScreens) \X (0..MaxSearches)

VARIABLES
  \* the state of the app-view widget (see the note on clicks below)
  blacklist, explore_progress, achievable_ids, in_progress,
  query_result, query_fail,
  \* the browser: set-timeout callbacks that have not run, calls under way
  timers, calls,
  \* the files of the session and its value :explore-process
  query_cache, output, explore_query_cache, emptied, explore_process,
  \* the explore processes, numbered in the order they are started
  screened, written, alive, killed,
  \* what the properties speak of: clicks so far, the query last asked, the
  \* armors filtered since the last search without a blacklist, whether a
  \* screen has polled since, the choice last screened, and whether that
  \* screen met calls or timers of another or a search stopped its process
  screens, searches, asked, filtered, polled, screening, disturbed

widget == <<blacklist, explore_progress, achievable_ids, in_progress,
            query_result, query_fail>>
files == <<query_cache, output, explore_query_cache, emptied, explore_process>>
processes == <<screened, written, alive, killed>>
history == <<screens, searches, asked, filtered, polled, screening, disturbed>>
vars == <<widget, timers, calls, files, processes, history>>

Query == [choice : Choices, bans : SUBSET Armors]
NoQuery == [choice |-> FirstChoice, bans |-> {}]

(* What the search program finds for a query, and what the explore program *)
(* finds with its first n entries; an entry marked :fail is left out.      *)
Solutions(query) == Found[query.choice] \ query.bans
Passing(c, n) == Reachable[c] \intersect 1..n

(* A mutant: torso-up is taken off twice.                                  *)
Percentage_ByTheRest(size) == (size * 100 + NSystems - 3) \div (NSystems - 2)

(* The share of the skill systems that have an entry, rounded up.          *)
Percentage(size) == (size * 100 + NSystems - 2) \div (NSystems - 1)

(* A call: which of the two, the query text, the step its thread takes     *)
(* next, and what it has found out so far.                                 *)
Call(kind, query, step) ==
  [kind |-> kind, query |-> query, step |-> step,
   result |-> {}, finished |-> FALSE, size |-> 0, process |-> 0]
NoCall == Call("none", NoQuery, "none")

Init ==
  /\ blacklist = {} /\ explore_progress = -1
  /\ achievable_ids = Systems /\ in_progress = FALSE
  /\ query_result = {} /\ query_fail = FALSE
  /\ timers = 0 /\ calls = [i \in CallIds |-> NoCall]
  /\ query_cache = NoQuery /\ output = {} /\ explore_query_cache = FirstChoice
  /\ emptied = 0 /\ explore_process = 0
  /\ screened = [p \in 1..MaxScreens |-> FirstChoice]
  /\ written = [p \in 1..MaxScreens |-> 0]
  /\ alive = {} /\ killed = {}
  /\ screens = 0 /\ searches = 0 /\ asked = NoQuery /\ filtered = {}
  /\ polled = FALSE /\ screening = FirstChoice /\ disturbed = FALSE

UnderWay == {i \in CallIds : calls[i].kind # "none"}
ExploreCalls == {i \in CallIds : calls[i].kind = "explore"}

(* A click needs a call id that no pending poll will need.                 *)
RoomForCall == Cardinality(UnderWay) + timers < Cardinality(CallIds)
Within(s, q) == \E most \in MaxBoth : s <= most[1] /\ q <= most[2]
MaySearch == RoomForCall /\ Within(screens, searches + 1)
MayScreen == RoomForCall /\ Within(screens + 1, searches)

(* The page sends a call; which of the free ids it gets is of no account.  *)
Send(call) ==
  calls' = [calls EXCEPT ![CHOOSE i \in CallIds : i \notin UnderWay] = call]
-----------------------------------------------------------------------------
(* The page.  A handler runs to its end before the next one; inside one,   *)
(* set-state takes effect when it returns, and (local-state ...) reads     *)
(* what was there before.                                                  *)
(*                                                                         *)
(* Clicks: the tabs (switch-page) and the panels of the search page        *)
(* (update-parameters, update-amulets, update-effects) can be used between *)
(* any two others, so a click finds the page it is on shown and any choice *)
(* set; the two are not kept as variables.                                 *)

(* construct-query: the blacklist is part of a filter query only, and      *)
(* any other query empties it.                                             *)
ConstructQuery(choice, is_filter, list) ==
  [choice |-> choice, bans |-> IF is_filter THEN list ELSE {}]
BlacklistAfter(is_filter, list) == IF is_filter THEN list ELSE {}

HandleQuery(is_filter, list) ==
  \E choice \in Choices :
    LET query == ConstructQuery(choice, is_filter, list) IN
    /\ blacklist' = BlacklistAfter(is_filter, list)
    /\ in_progress' = TRUE /\ query_result' = {}
    /\ Send(Call("query", query, "kill"))
    /\ searches' = searches + 1 /\ asked' = query

(* A mutant: the button is not disabled.                                   *)
SearchEnabled_Always == TRUE

SearchEnabled == ~in_progress

ClickSearch ==
  /\ SearchEnabled /\ MaySearch
  /\ HandleQuery(FALSE, blacklist)
  /\ filtered' = {} /\ polled' = FALSE
  /\ UNCHANGED <<explore_progress, achievable_ids, query_fail, timers,
                 files, processes, screens, screening, disturbed>>

(* A mutant: the array is copied first.                                    *)
AppendBlacklist_OnACopy(armor) == blacklist

(* append-blacklist pushes onto the array in the state itself, so that the *)
(* query constructed by the same click contains the armor.                 *)
AppendBlacklist(armor) == blacklist \union {armor}

(* The results, and with them the filter links, are shown after a search   *)
(* that found something and before the next.                               *)
ClickFilter ==
  /\ ~query_fail /\ ~in_progress /\ MaySearch
  /\ \E armor \in query_result :
       /\ HandleQuery(TRUE, AppendBlacklist(armor))
       /\ filtered' = filtered \union {armor}
  /\ UNCHANGED <<explore_progress, achievable_ids, query_fail, timers,
                 files, processes, screens, polled, screening, disturbed>>

(* The answer to answer-query.                                             *)
ShowResult(i) ==
  /\ calls[i].kind = "query" /\ calls[i].step = "answered"
  /\ query_result' = calls[i].result
  /\ query_fail' = (calls[i].result = {})
  /\ in_progress' = FALSE
  /\ calls' = [calls EXCEPT ![i] = NoCall]
  /\ UNCHANGED <<blacklist, explore_progress, achievable_ids, timers,
                 files, processes, history>>

(* handle-explore, from the button and from a timer.                       *)
HandleExplore(choice, init) ==
  /\ blacklist' = BlacklistAfter(FALSE, blacklist)
  /\ explore_progress' = IF init THEN 0 ELSE explore_progress
  /\ Send(Call("explore", ConstructQuery(choice, FALSE, blacklist),
               IF init THEN "write" ELSE "look"))
  /\ polled' = TRUE

ScreenEnabled(choice) == choice \in Screenable /\ explore_progress < 0

(* A call that has not got past its three quick file operations is not     *)
(* overtaken by a person who clicks Stop and Screen again.                 *)
NothingStarting == \A i \in CallIds : calls[i].step \notin {"write", "truncate", "run"}

ClickScreen ==
  /\ NothingStarting /\ MayScreen
  /\ \E choice \in Choices :
       /\ ScreenEnabled(choice)
       /\ HandleExplore(choice, TRUE)
       /\ screening' = choice
  /\ screens' = screens + 1
  /\ disturbed' = (ExploreCalls # {} \/ timers > 0)
  /\ UNCHANGED <<achievable_ids, in_progress, query_result, query_fail, timers,
                 files, processes, searches, asked, filtered>>

(* The query of a poll is never looked at.                                 *)
TimerFires ==
  /\ timers > 0
  /\ timers' = timers - 1
  /\ HandleExplore(FirstChoice, FALSE)
  /\ UNCHANGED <<achievable_ids, in_progress, query_result, query_fail, files,
                 processes, screens, searches, asked, filtered, screening, disturbed>>

(* A mutant: a poll that finds no entries is the last one.                 *)
TakeAnswer_NoTimerAtZero(answer) ==
  IF explore_progress < 0
  THEN UNCHANGED <<explore_progress, achievable_ids, timers>>
  ELSE /\ achievable_ids' = answer.result
       /\ explore_progress' = IF answer.finished THEN -1 ELSE Percentage(answer.size)
       /\ timers' = IF answer.finished \/ answer.size = 0 THEN timers ELSE timers + 1

(* The answer to answer-explore; nothing is done with it after a Stop.     *)
TakeAnswer(answer) ==
  IF explore_progress < 0
  THEN UNCHANGED <<explore_progress, achievable_ids, timers>>
  ELSE /\ achievable_ids' = answer.result
       /\ explore_progress' = IF answer.finished THEN -1 ELSE Percentage(answer.size)
       /\ timers' = IF answer.finished THEN timers ELSE timers + 1

ShowProgress(i) ==
  /\ calls[i].kind = "explore" /\ calls[i].step = "answered"
  /\ TakeAnswer(calls[i])
  /\ calls' = [calls EXCEPT ![i] = NoCall]
  /\ UNCHANGED <<blacklist, in_progress, query_result, query_fail,
                 files, processes, history>>

ClickStop ==
  /\ explore_progress >= 0
  /\ explore_progress' = -1
  /\ UNCHANGED <<blacklist, achievable_ids, in_progress, query_result, query_fail,
                 timers, calls, files, processes, history>>

(* reset-skill-input; its button is shown while something is left out.     *)
ClickReset ==
  /\ explore_progress < 0 /\ achievable_ids # Systems
  /\ achievable_ids' = Systems
  /\ UNCHANGED <<blacklist, explore_progress, in_progress, query_result, query_fail,
                 timers, calls, files, processes, history>>
-----------------------------------------------------------------------------
(* answer-query, a thread for each call.                                   *)

At(i, kind, step) == calls[i].kind = kind /\ calls[i].step = step
StepTo(i, step) == calls' = [calls EXCEPT ![i].step = step]

KillExplore(i) ==
  /\ At(i, "query", "kill")
  /\ StepTo(i, "empty")
  /\ alive' = alive \ {explore_process}
  /\ killed' = killed \union (alive \intersect {explore_process})
  /\ disturbed' = (disturbed \/ explore_process \in alive)
  /\ UNCHANGED <<widget, timers, files, screened, written,
                 screens, searches, asked, filtered, polled, screening>>

(* The output is emptied and the query written.                            *)
EmptyOutput(i) ==
  /\ At(i, "query", "empty")
  /\ StepTo(i, "search")
  /\ output' = {}
  /\ query_cache' = calls[i].query
  /\ UNCHANGED <<widget, timers, explore_query_cache, emptied, explore_process,
                 processes, history>>

(* run-program :wait t: the program reads the query file and writes its    *)
(* results, or aborts before it writes.                                    *)
RunSearch(i) ==
  /\ At(i, "query", "search")
  /\ StepTo(i, "read")
  /\ output' = IF query_cache.choice \in Unreadable THEN output ELSE Solutions(query_cache)
  /\ UNCHANGED <<widget, timers, query_cache, explore_query_cache, emptied,
                 explore_process, processes, history>>

ReadOutput(i) ==
  /\ At(i, "query", "read")
  /\ calls' = [calls EXCEPT ![i].step = "answered", ![i].result = output]
  /\ UNCHANGED <<widget, timers, files, processes, history>>
-----------------------------------------------------------------------------
(* answer-explore, a thread for each call.                                 *)

WriteExploreQuery(i) ==
  /\ At(i, "explore", "write")
  /\ StepTo(i, "truncate")
  /\ explore_query_cache' = calls[i].query.choice
  /\ UNCHANGED <<widget, timers, query_cache, output, emptied, explore_process,
                 processes, history>>

(* :supersede makes a new file; a process that has the old one open goes   *)
(* on writing to that one.                                                 *)
EmptyExploreOutput(i) ==
  /\ At(i, "explore", "truncate")
  /\ StepTo(i, "run")
  /\ emptied' = emptied + 1
  /\ UNCHANGED <<widget, timers, query_cache, output, explore_query_cache,
                 explore_process, processes, history>>

(* A mutant: the process is stored in a new session only.                  *)
StoreProcess_Once == explore_process' = IF explore_process = 0 THEN emptied ELSE explore_process

(* run-program :wait nil; the process reads its query and opens its output *)
(* while the call sleeps.                                                  *)
StoreProcess == explore_process' = emptied

RunExplore(i) ==
  /\ At(i, "explore", "run")
  /\ StepTo(i, "look")
  /\ StoreProcess
  /\ alive' = alive \union {emptied}
  /\ screened' = [screened EXCEPT ![emptied] = explore_query_cache]
  /\ UNCHANGED <<widget, timers, query_cache, output, explore_query_cache,
                 emptied, written, killed, history>>

(* "finished" is looked up before the file is read.                        *)
LookAtProcess(i) ==
  /\ At(i, "explore", "look")
  /\ calls' = [calls EXCEPT ![i].step = "read",
                            ![i].process = explore_process,
                            ![i].finished = explore_process \notin alive]
  /\ UNCHANGED <<widget, timers, files, processes, history>>

ReadEntries(i) ==
  /\ At(i, "explore", "read")
  /\ calls' = [calls EXCEPT ![i].step = "answered",
                            ![i].result = Passing(screened[emptied], written[emptied]),
                            ![i].size = written[emptied]]
  /\ UNCHANGED <<widget, timers, files, processes, history>>

(* An explore process writes one entry for each skill system and ends, or  *)
(* aborts on the query.                                                    *)
Entries(p) == IF screened[p] \in Unreadable THEN 0 ELSE NSystems - 1

WriteEntry(p) ==
  /\ p \in alive /\ written[p] < Entries(p)
  /\ written' = [written EXCEPT ![p] = @ + 1]
  /\ UNCHANGED <<widget, timers, calls, files, screened, alive, killed, history>>

EndProcess(p) ==
  /\ p \in alive /\ written[p] = Entries(p)
  /\ alive' = alive \ {p}
  /\ UNCHANGED <<widget, timers, calls, files, screened, written, killed, history>>
-----------------------------------------------------------------------------
Click ==
  \/ ClickSearch \/ ClickFilter \/ ClickScreen \/ ClickStop \/ ClickReset

AnswerQuery(i) ==
  KillExplore(i) \/ EmptyOutput(i) \/ RunSearch(i) \/ ReadOutput(i)

(* A mutant, of three definitions: the file is read before the process is  *)
(* looked at.                                                              *)
ReadFirst(i) ==
  /\ At(i, "explore", "look")
  /\ calls' = [calls EXCEPT ![i].step = "read",
                            ![i].process = explore_process,
                            ![i].result = Passing(screened[emptied], written[emptied]),
                            ![i].size = written[emptied]]
  /\ UNCHANGED <<widget, timers, files, processes, history>>

LookAfter(i) ==
  /\ At(i, "explore", "read")
  /\ calls' = [calls EXCEPT ![i].step = "answered",
                            ![i].finished = explore_process \notin alive]
  /\ UNCHANGED <<widget, timers, files, processes, history>>

AnswerExplore_ReadsFirst(i) ==
  \/ WriteExploreQuery(i) \/ EmptyExploreOutput(i) \/ RunExplore(i)
  \/ ReadFirst(i) \/ LookAfter(i)

AnswerExplore(i) ==
  \/ WriteExploreQuery(i) \/ EmptyExploreOutput(i) \/ RunExplore(i)
  \/ LookAtProcess(i) \/ ReadEntries(i)

Deliver(i) == ShowResult(i) \/ ShowProgress(i)

Explore(p) == WriteEntry(p) \/ EndProcess(p)

Next ==
  \/ Click
  \/ TimerFires
  \/ \E i \in CallIds : AnswerQuery(i) \/ AnswerExplore(i) \/ Deliver(i)
  \/ \E p \in 1..MaxScreens : Explore(p)

(* Threads and programs run, answers arrive and timers fire; nobody is     *)
(* obliged to click.                                                       *)
Fairness ==
  /\ WF_vars(TimerFires)
  /\ WF_vars(\E i \in CallIds : AnswerQuery(i) \/ AnswerExplore(i) \/ Deliver(i))
  /\ WF_vars(\E p \in 1..MaxScreens : Explore(p))

Spec == Init /\ [][Next]_vars /\ Fairness
-----------------------------------------------------------------------------
CallType ==
  [kind : {"none", "query", "explore"}, query : Query,
   step : {"none", "kill", "empty", "search", "write", "truncate",
           "run", "look", "read", "answered"},
   result : SUBSET (Armors \union Systems), finished : BOOLEAN,
   size : 0..(NSystems - 1), process : 0..MaxScreens]

TypeOK ==
  /\ screening \in Choices
  /\ blacklist \subseteq Armors /\ filtered \subseteq Armors
  /\ explore_progress \in -1..100
  /\ achievable_ids \subseteq Systems
  /\ in_progress \in BOOLEAN /\ query_fail \in BOOLEAN
  /\ polled \in BOOLEAN /\ disturbed \in BOOLEAN
  /\ query_result \subseteq Armors /\ output \subseteq Armors
  /\ timers \in Nat
  /\ calls \in [CallIds -> CallType]
  /\ query_cache \in Query /\ asked \in Query
  /\ explore_query_cache \in Choices
  /\ emptied \in 0..MaxScreens /\ explore_process \in 0..emptied
  /\ screened \in [1..MaxScreens -> Choices]
  /\ written \in [1..MaxScreens -> 0..(NSystems - 1)]
  /\ alive \subseteq 1..emptied /\ killed \subseteq 1..emptied
  /\ screens \in 0..MaxScreens /\ searches \in 0..MaxSearches

(* The progress bar never stands still for ever: while it is shown, a poll *)
(* is under way or a timer will send one.                                  *)
ScreenIsPolled == explore_progress >= 0 => ExploreCalls # {} \/ timers > 0

(* The results shown are those of the query asked last: no two searches    *)
(* ever share the session's files.                                         *)
ResultIsOfTheQuery ==
  ~in_progress /\ searches > 0 =>
    query_result = Solutions(asked) /\ query_fail = (query_result = {})

(* An armor the user has filtered out does not come back when another is   *)
(* filtered, unless a screen has polled in between (which empties the      *)
(* blacklist).                                                             *)
FilteredStaysOut == ~polled => query_result \intersect filtered = {}

(* "finished" comes with everything the process has found, unless it was   *)
(* killed or the next screen has replaced its file.                        *)
FinishedMeansComplete ==
  \A i \in ExploreCalls :
    LET call == calls[i] IN
    call.step = "answered" /\ call.finished /\ call.process = emptied
      /\ call.process \notin killed
    => call.result = Reachable[screened[call.process]]

(* A screen that no earlier screen and no search has interfered with ends  *)
(* with all the skills achievable for the choice it was started with.      *)
ScreenIsExact ==
  [][explore_progress >= 0 /\ explore_progress' < 0 /\ calls' # calls /\ ~disturbed
     => achievable_ids' = Reachable[screening]]_vars

(* Every screen and every search of the page comes to its end.             *)
PageComesToRest ==
  /\ explore_progress >= 0 ~> explore_progress < 0
  /\ in_progress ~> ~in_progress
=============================================================================
