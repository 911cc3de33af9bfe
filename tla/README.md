# Armor Up in TLA+

Armor Up (`src/`) searches for armor sets in Monster Hunter: given the skills
a hunter wants, it finds six or seven pieces (head, hands, waist, legs, gear,
amulet, body) and the jewels to put into their slots, so that every skill
reaches its points.  A back end in C++ does the search, in one thread, over a
compact forest of partial sets; around it are a parser of queries, an HTTP
server, a Windows binding, a web session in Common Lisp and the engine's
predecessor, also in Lisp.

This directory holds the TLA+ modules of the search, of the ways a query takes to
it (reader, HTTP server, Windows binding, web page) and of the Lisp engine with its
lazy streams and its lazy list, the TLC configurations that check them on small data, and TLAPS
proofs: of the slot arithmetic that everything else relies on, of the forest and its keys
by which a search judges sets it does not look at, of what the chain of pruners and splitters
may say of a tree, of what one query can leave behind for the next, and of the parts in which several threads or
processes work on shared state, the web session and the lazy list.  Paths below
are relative to `src/cpp/` unless they start with `src/`.

    tlc -config MCArmorSearch.cfg MCArmorSearch     # one run
    tlapm ArmorSearch_proofs.tla                    # one proof module


## 1. The system

### Components, state, operations

| component | source | state it keeps | operations | what is hard about it |
|---|---|---|---|---|
| Dataset | `dataset/dataset.h`, `dataset/core/armor_set.h`, `utils/filter.h` | armors, jewels, skills (static); amulets of the current query | look up, filter, sum up an armor set | ids of custom amulets are reused by the next query |
| Signature | `utils/signature.h` | none: a 16-byte key (slots, body slots, multiplier, 8 signed point bytes) | make, add, refactor for the body, compare with a target | fields share words; points change meaning at the body |
| Jewel query | `utils/jewels_query.h` | two memo buffers; stacks of the assigner | `Query`, `GetResidual`, `Solve`, `Pop` | memoised recursion over hand-computed strides; greedy placement |
| Forest | `core/or_and_tree.h`, `utils/tiny_map.h` | pool of OR and AND nodes that only grows | classify, merge, split, maximum | the pool grows while iterators upstream hold its ids |
| Iterators and pruners | `iterators/base.h`, `core/pruners.h` | one buffer per stage; the stack of the Unpacker; raw set and keys of the Finalizer | `Next`, `Get`, `Reset` | seven kinds of stage pull on each other, each resumable in the middle of a walk |
| ArmorUp | `core/armor_up.h` | data, pool and iterators, over many searches | `Search` | sound and complete pruning; state left over from the last search |
| Verifier | `testing/verifier.h` | none | is a result right? | is the definition of soundness here |
| Query reader | `utils/query.h`, `lisp/parser.h`, `lisp/reader.h` | position in the text; the Query object | `Parse` | error paths; members that are not reset |
| HTTP server | `server/micro_http_server.h`, `server/armor_up_server.cc` | one record per POST, one handler per request | pieces of a body, answer, completion | a body arrives in pieces of any length |
| Formatter | `utils/formatter.h` | none | write the results as Lisp, JSON or for the binding | read back by hand-written readers |
| Windows binding | `winbind/winbind/dllmain.cpp`, `src/csharp` | an `ArmorUp`, a text and a formatter for the whole process | `Initialize`, `DoSearch`, `Wrapper.Search` | results live until the next call; a text is written in C++ and read in C# |
| Loaders | `dataset/data_service.cc`, `dataset/loader`, `dataset/base/reindexed_table.h` | rows and id maps | load, forward and backward map | internal ids are positions |
| Web session | `src/lisp/ui/widgets/app-view.lisp`, `src/lisp/ui/backend.lisp` | widget state, timers, calls; session files, the explore process | search, filter, screen, poll, stop | threads, timers and processes share files with no lock |
| Explore | `core/explore.h`, `serve_explore.cc` | none | which skills are achievable | is run, polled and killed as a process |
| Evaluation list | `src/lisp/engine/eva-list.lisp` | a lazy list, `filled`, `current`, `index` | `create-eva-list`, `next-ele` | a worker and a reader force the same list |
| Lisp engine | `src/lisp/engine/armor-up.lisp`, `jewels.lisp`, `encoding.lisp`, `emitter.lisp` | emitters: closures over lists, trees and other emitters | `search-core`, `emit`, `reset-emitter` | everything is computed when it is asked for; keys have six bits for each skill |
| UI widgets, React | `src/lisp/ui/widgets`, `src/assets/lib/react` | state of menus | — | drawing |
| Crawlers, converters | `src/lisp/crawler`, `src/lisp/converter` | data files | — | text and I/O |

### How they interact

`ArmorUp::Search` is a chain of iterators.  With N effects in the query, of
which the first F (at most `FOUNDATION_NUM`) shape the forest:

    roots of the forest            ListIterator           stage 0
      -> JewelPruner per effect of the foundation         stages 1 .. F
      -> SkillSplitPruner per remaining effect            stages F+1 .. N
      -> Unpacker -> DefensePruner -> Finalizer           stages N+1 .. N+3
      -> the loop of Search, up to max_results            stage N+4

Each stage holds the trees it has not given yet.  A pruner of the middle
group splits a tree, which appends nodes to the pool that all stages share.
Every pruner asks a slot client which jewels of its effect fit the slots that
the jewels chosen so far leave (`GetResidual`), and passes the tree on with
the new jewel keys.  A key is only a sum; at the end the Finalizer finds
jewels with that sum (`JewelSolver`) and puts them into slots
(`JewelAssigner`).  So the hard questions are whether *local* judgements are
right: a tree is judged by the key of its root, the slots left by a subtraction,
and the placement by a greedy rule, and nothing later goes back.

A query reaches the search in three ways: posted to the HTTP server, read from
files by the regression driver, or through the Windows binding.  All of them
call `Query::Parse`, which clears the Query object and then reads commands one
by one into it; an error leaves the object as far as it was filled.  The server
has one thread, that of libmicrohttpd, which calls `EntryPoint` for its
connections in any order, so several requests are under way at once, each with
a record of its own behind `con_cls`; a body arrives in pieces, and a search runs
to its end inside the last call of its request.  A failed `CHECK` in the parser
ends the process and with it every request.

The Windows binding is called from C#: `DoSearch` parses, searches and writes the
results into a process-wide text, `Wrapper.Search` copies the text and reads it.  On
the way, ids of the dataset file become positions in tables and ids again.

The web page sends two kinds of remote calls.  `answer-query` empties the session's
output file, writes the query, runs the search program and waits for it, and reads
the output.  `answer-explore` empties a file and starts a process that writes one
entry for each skill system; it and each poll after it read how far the file has
got, and the page sets a timer for the next poll until one is told that the process
has ended.  Each call is a thread of its own; all of one session share the files and
the session's one explore process, and a search kills that process.

`eva-list` is the one place in which two threads share memory: a worker
forces a lazy list to its end, counting, and a reader polls the counter before it
forces the next rest itself.

### What makes each component correct

- **Signature, forest:** the key of a node tells exactly the slots and points of
  each armor set below it; the forest holds each admitted set once; splitting
  partitions what reaches the minimum.
- **Jewel query:** an answer is exactly the set of sums that fit, whatever was asked
  before; jewels chosen over all stages fit the slots of the tree; the assigner
  places every jewel.
- **Unpacker:** every set once, then "no more", across resets.
- **ArmorUp:** what is shown satisfies the verifier; nothing is shown twice; the
  process does not abort; the search ends; nothing is missed.
- **Query reader:** what is searched is what the text says and nothing of an earlier
  text; of a query cut short, what is read is a front of it, but for the digits of one number.
- **HTTP server:** an answer belongs to its own request whatever the interleaving; it
  stays in memory until it is sent; every record is freed.
- **Windows binding, loaders, formatter:** ids lead to their rows and back; the caller
  gets all the sets this call found, in order, with the amulets of its own query.
- **Web session:** results shown are those of the query asked last; what was filtered
  out stays out; a screen is polled until it ends and ends with all its process has
  found; every search and screen ends.
- **Lisp engine:** what is emitted answers the query; every key with an answer is emitted,
  with all its jewel plans; nothing twice; a reset starts again.
- **Evaluation list:** nothing is evaluated twice; elements come in order; a call returns.

The hazards behind these properties, line by line, are in `PROJECT.json`
under "hazards".


## 2. The modules

| module | models | in the code |
|---|---|---|
| `Dataset` | data, filters, statistics of an armor set, the verifier | `dataset/dataset.cc`, `utils/filter.h`, `testing/verifier.h` |
| `Signature` | the key as a record of its fields and every operation on it | `utils/signature.h` |
| `Slots` | `GetResidual`, and what "fits" means | `utils/jewels_query.h:67-151` |
| `Stuffings` | the promise of a slot client: all sums that fit | `JewelsQuery`'s constructors; `docs/jewel-query` |
| `SlotClient` | the memoised recursion on the two flat buffers | `SlotClient::Query` and below |
| `JewelStuffing` | one tree's slots along the pruners | the calls of `GetResidual` in `pruners.h` |
| `Assigning`, `JewelAssigner` | the greedy placement; driven as the Finalizer drives it | `class JewelAssigner` |
| `JewelPlacing` | the two composed: jewels chosen by the pruners, placed by the Finalizer | `Finalizer::Next` in `pruners.h` |
| `JewelSolver` | jewels with a given sum | `class JewelSolver` |
| `Forest`, `ForestGrowth` | pool, classification, merging, splitting; the life of the pool in a search | `core/or_and_tree.h`, `ArmorUp::Foundation` |
| `Unpacking`, `Unpacker` | descent and advance of the stack; the iterator | `class Unpacker` |
| `SetSource` | abstract: a source that gives each set once | — |
| `ArmorSearch` | the whole chain, several searches in a row | `core/armor_up.h`, `core/pruners.h` |
| `SearchPromise` | abstract: enumerate the answers, up to a limit | — |
| `Lexing` | tokens, lists of numbers, and what a cut makes of a text | `lisp/parser.h` |
| `QueryReader` | `Query::Parse`, every command and error path | `utils/query.h` |
| `Regression` | one Query object for many files | `testing/regression.cc` |
| `PostServer` | requests, pieces of bodies, handlers, answers | `server/micro_http_server.h`, `server/armor_up_server.cc` |
| `ReindexedTable` | rows and the two maps of ids | `dataset/base/reindexed_table.h`, `loader/binary_loader.cc` |
| `DexText` | the text of `DexFormatter` as tokens, and its reader | `utils/formatter.h`, `parser.cs`, `armor_up_wrapper.cs` |
| `WinBinding` | `Initialize`, `DoSearch`, `Wrapper.Search` | `winbind/winbind/dllmain.cpp`, `armor_up_wrapper.cs` |
| `WebSession` | one page, its calls, the files and processes of its session | `app-view.lisp`, `backend.lisp` |
| `LispJewels` | keys, jewel sets with the product cut off, jewel queries | `src/lisp/engine/encoding.lisp`, `jewels.lisp` |
| `LispSearch` | emitters as values; foundation, filter, stages, and the bodies of the emitters | `src/lisp/engine/armor-up.lisp` |
| `LispEngine` | the search driven by `emit` and `reset-emitter` | `src/lisp/engine/emitter.lisp`, `armor-up.lisp` |
| `EvaList` | the lazy list, its worker and its reader | `src/lisp/engine/eva-list.lisp` |
| `*_proofs`, `RecursionLemmas` | the theorems | — |
| `MC*` | small data for TLC | — |

The modules build on each other in the order of the table: `ArmorSearch`
extends `Unpacking` (hence `Forest`, `Signature`, `Dataset`), `JewelSolver`
(hence `Stuffings`, `Slots`) and `Assigning`; `Regression` and `PostServer` both
extend `QueryReader`, which extends `Lexing`; `WinBinding` extends `DexText` and
`ReindexedTable`; `LispEngine` extends `LispSearch`, which extends `LispJewels` (hence
`Slots`: both engines compute the residual in the same way).
`WebSession` and `EvaList` stand alone.

### State and actions

`ArmorSearch` makes the call stack of the chain explicit: `at` is the stage
that runs, `msg` is what has just happened to it (`"ask"`: its `Next` was
called; `"yes"`/`"no"`: the stage below answered; `"solve"`: the Finalizer has a
set to solve).  One action is the code of one stage between two calls:
`ListNext`, `JewelTry`, `SplitNext`, `SplitTry`, `UnpackNext`, `UnpackTree`,
`DefenseTry`, `FinalNext`, `NextRaw`, `FinalTry`, `Collect`; `PassDown` and
`PassUp` are the loops that ask again and the early returns.  `FinalFault` is
`jewel_keys_.back()` of an empty vector, to which a query without an effect leads.  `SearchCore` is the start of a search
on the same object, with the arsenal, pool and stages of the last one dropped as
the code drops them.

`SlotClient` keeps `fixed_buffer` and `buffer` as the code does, at the same flat
indices; a whole `Query` is one action because the search has one thread and no
callback, and the nested calls are functions of the buffers: `FillOnes`, `FillTwos` and
`FillThrees` are the three overloads of `Calculate`, recursive functions of the number of
slots, whose values map the buffers before the call to those after it.

`JewelAssigner` has one action per method (`AddPart`, `AddJewel`, `Pop`), in the
order the Finalizer calls them, and relies on jewels that fit; `JewelPlacing` conjoins
its actions with those of `JewelStuffing` and drops that precondition (`PushJewel`): what is
handed over is what the pruners chose for the tree; `ForestGrowth` one per phase of `Foundation` and
one per `Split`, with *any* tree and *any* minimum, which is more than a search
does; `Unpacker` one per way its `Next` can end, and `Reset`.

`Regression` has one action per query file and one per round of the loop of
`Parse` (`ParseOne`), so that properties see every moment of a parse; beside
`reader` the ghost `fresh` reads the same file into a new object.  In `PostServer`
one action is one call that libmicrohttpd makes: `Begin` (the first call of
`EntryPoint`), `PostData` (a piece), `PostEnd` or `PostAborts` (the body is complete; the
latter ends the process, at a text the parser aborts on or a query without an effect),
`Complete` (`RequestComplete`, after the answer or when the client is gone).
`Connect` is the client.  The parser of the `QueryReader` is an operator there.  What
libmicrohttpd does, it does as its documentation has it and the code relies on:
calls for one connection in order, one completion per request, no further
key-value pair once the iterator has returned `MHD_NO`.

In `WebSession` a handler of the page is one action (`ClickSearch`, `ClickFilter`,
`ClickScreen`, `ClickStop`, `ClickReset`, `TimerFires`, `ShowResult`, `ShowProgress`):
the browser runs it to its end.  A call is a record that walks through the steps of its
thread, one action for each access to a file or a process: `KillExplore`,
`EmptyOutput`, `RunSearch`, `ReadOutput` for a search; `WriteExploreQuery`,
`EmptyExploreOutput`, `RunExplore`, `LookAtProcess`, `ReadEntries` for a screen, of which
a poll has the last two.  A process is a number, the number of the file it has
open: `WriteEntry` and `EndProcess`.  `asked`, `filtered`, `polled`, `screening`,
`disturbed` and the counts of clicks are history variables that no other variable
depends on except through the bounds.

`LispEngine` has one action per call from outside: `EmitNext` (`emit`) and `ResetSearch`
(`reset-emitter`).  An emitter is a record of the variables its closure has captured and
the name of its body; `Emit` runs it, and the emitters it draws from, as far as the next
armor set needs, so `emitter` is the whole lazy state of a search: which lists are used up to
where on each level, and which preliminary each stage is at.  `status` is `"fault"` after an
error in a body.

`EvaList` has one action for each access to what the two threads share: the worker counts a
node, enters `cdr$`, leaves it; the reader finds the counter far enough, enters
`cdr$`, leaves it.  Since forcing takes time, entering and leaving are two actions.

`WinBinding` has one action per call into the library (`Initialize`, `DoSearch`, or
its abort) and one per instruction the C# reader takes from the text (`OpenSet`,
`ReadPart`, `CompleteSet`, `StopReading`); `UseResult` is the caller.

### What is abstracted

- Armor, jewel and skill are ids; names and other columns are left out.
  Internal ids start at 1.
- The points in a key are one byte per effect *of the query*; the rest of the
  eight bytes is zero in the code and absent here.
- An `unordered_set` of jewel keys is a set.  Where the code takes "the last of
  them" (`NextRaw`) any key may be last.  The order of the groups that a node's
  daughters come from is that of insertion, the order of the roots is any in
  `Unpacker`.
- A query text is a sequence of lexemes; characters appear only where a cut within
  a lexeme makes other ones of it (`Cuts`): a number, of either sign, loses any number of
  its last digits, down to a sign alone, a word or `NIL` its end.
- In `WebSession` a query is a choice (whatever the panels are set to) and the armors
  filtered out; what the programs find for a choice is a constant.  An entry of an
  explore process appears in its file whole.  The process opens its query and its
  output while the call that started it sleeps, and a person does not click Stop and
  Screen within the three file operations of a call that is starting a process
  (`NothingStarting`).  Calls do not fail; the page is not reloaded and its session
  is not used from another tab while a search runs.  Choice and tab shown are not variables:
  panels and tabs can be used between any two clicks, so a click finds any of them.
- In the Lisp engine a hash table or points map is a list of keyed sets; the order of its keys
  is some order, the same each time.  The memo tables of a jewel query are filled when the
  query is made, not when they are asked.  What is in a product that was not made is left
  out.  Whether `maximize` of nothing is an error or 0, which the standard leaves open, is
  a choice made once for a search (`strict`).
- In `WinBinding` one thread calls and `Initialize` is called once, as `Program.cs` does;
  the sets a search finds are *any* sets made of the data.  Names are left out.
- Statistics, logging and the timing of a search are left out, and with them
  `OptimizeQuery`, whose call is commented out.


## 3. The runs

| run | states | what it shows |
|---|---|---|
| `jewel_placing` | 1 111 382 | the jewels that three stages choose from residuals always fit the tree (`NeverOverstuffed`); a residual never has a negative count and has exactly the holes left (`ResidualIsReal`); the assigner then never runs out of slots (`RestAlwaysFits`), uses none twice (`PartsKeepTheirSlots`), and shows exactly the jewels chosen (`ShownAsChosen`) |
| `slot_client` | 5 208 | the client answers with exactly the sums that fit (`AnswerIsEveryStuffing`); no entry is shared or half computed (`EntriesComplete`) |
| `forest_growth` | 12 640 | keys are exact (`KeysTellTheSets`), the forest holds each admitted set once (`FoundationHoldsEverySet`), splits are exact (`SplitIsExact`), the maximum used to reject trees is attained (`MaxIsReached`) |
| `unpacker` | 1 248 | the Unpacker implements `SetSource` (`GivesEverySetOnce`) and gives everything at last (`AllGivenAtLast`) |
| `armor_search` | 17 294 | results satisfy the verifier (`ResultsVerify`) and wear exactly the jewels that the skills were counted with, each in a slot of the armor (`JewelsFitArmors`); keys reach their targets at every stage (`KeysReachTargets`); no abort (`NeverCrashes`); the search ends (`SearchEnds`); the chain implements `SearchPromise` (`FindsAnswers`): every result is an answer given once, and for plain queries no answer is missed |
| `query_reuse` | 117 | of the files read before, nothing but `avoid_negative` is left at any moment of a parse (`OnlyAvoidNegativeStays`) |
| `post_server` | 217 143 | however requests interleave, an answer is for the first piece of its own query (`AnswerIsItsOwn`), is held (`ResponseIsHeld`), comes of a front of that query, complete but for the last digits of one number (`CutQueryIsAFront`); records are freed (`RecordsAreFreed`) |
| `web_session` | 339 079 | results belong to the query asked last (`ResultIsOfTheQuery`), what is filtered out stays out (`FilteredStaysOut`), "finished" comes with everything (`FinishedMeansComplete`), an undisturbed screen ends with exactly what is achievable (`ScreenIsExact`), somebody always polls (`ScreenIsPolled`), every search and screen ends (`PageComesToRest`) |
| `win_binding` | 20 891 | ids lead to their rows and back (`IdsMeanTheirRows`); what C# returns is what was found (`CallerSeesWhatWasFound`) |
| `lisp_engine` | 3 674 | every set emitted has its key and jewel plans that fit and reach all effects (`SetsVerify`); at the end each key with an answer was shown with exactly its plans (`AnswersAreShown`); none twice (`NoSetTwice`); after a reset at any moment the same again (`ResetRepeats`) |
| `eva_list` | 679 | nothing is evaluated twice (`EvaluatedOnce`), elements come in order (`InOrder`), calls return, also behind the end (`CallsReturn`) |
| `negative_points` | violation | an answer *is* missed when armors have negative points of a later effect |

### Bounds, and why they are enough

- `jewel_placing`: up to two slots of each size in at most four parts, body of 0 to 3 holes, three stages.
  `AfterOnes` and `AfterTwos` have a branch for each way a smaller jewel breaks
  into a larger slot, with remainders modulo 2 and 3; two slots of each size
  reach all of them, and a third stage starts from a residual of a residual.
  The theorems remove the bound.
- `slot_client`: four holes (all ways to break a 3-slot and a 2-slot beside one
  another) in at most two slots larger than one hole (`SlotsLimit`), multiplier 2, two
  calls: a call can only be wrong because of what
  earlier calls left, and `EntriesComplete` looks at *every* entry they left.  The
  theorems remove the bounds.
  The strides are those of a buffer just large enough, where an index error would
  collide; `StridesAssumption` is the relation the code's constants have to
  the slots of seven parts.
- `forest_growth`: three parts with a torso-up piece, one effect in the
  foundation and two to split by, three splits in any order.  The theorems remove the bounds.
- `unpacker`: four parts, so that frames in the middle of the stack move while
  those above are rebuilt; two nodes with several armors; a Reset anywhere.
- `armor_search`: eight queries with 0, 1, 2 and 3 effects, so that there are
  searches with no pruner, with one jewel pruner, and with one or two split
  pruners behind it; positive and negative points, torso-up, jewels of sizes 1
  and 2, a jewel blacklist, defense, `max_results` of -1, 1 and 2,
  `avoid_negative`; any two of them one after the other.  Three of them are
  `Plain`: no armor has negative points of what they ask, and the jewels have
  1-slots, so that `FindsAnswers` obliges the chain to give every answer.  Both
  restrictions are needed: see below, the first two of the disagreements and limits.
- `query_reuse`: sequences of three files out of five: with and without
  `:avoid-negative`, with either value of it, with lists and amulets, and one that is
  corrupted.  Proved for all texts and any number of files.
- `post_server`: two connections and three requests, so that two interleave and one
  of them is followed by another on its connection; bodies whole or cut in two at every
  place of three queries, among them numbers of three digits and negative ones, and lists
  and bounds as the last thing read; a query that is
  corrupted, an empty one, one without an effect, and a body without one.  More pieces add nothing: all
  but the first are ignored, and if they were not, the second would show it.  The safety
  properties are proved for all texts, cut between lexemes or in one, and any connections.
- `web_session`: two choices, of which the programs abort on one; two skill systems to
  screen, so that a poll can come before, between and after the entries; two armors, so that
  one can be filtered after another; two calls under way, a search beside a screen or
  two polls; two screens with one search or one screen with three searches, enough for a screen to meet
  the calls and the timer of an earlier one, and for a search after a filter after a search.
  All safety properties are proved without the bounds.
- `win_binding`: three skill systems, two jewels and six armors, two of one part, with ids
  in no order; two amulets of two and three effects beside none; up to two
  sets of any armors and jewels, or of one weapon; two calls, of which the
  second finds what the first left in the buffers.  The theorems remove the bounds.
- `lisp_engine`: five queries of one to three effects, both weapon types, both readings of
  `maximize`, with the cut-off of the code (20), which this data does not reach, and with
  1, which it does; a reset (one) before or after any set.  Three parts give trees in trees; two heads
  and two bodies share a key of two effects and differ in the third, so a stage splits on
  two levels; a tree has two left armors, so they go round.  Jewels of all
  sizes break up all slots, and two take a point away that an earlier effect may need.
  `AnswersAreShown` compares with plans defined without keys or trees, over all
  choices of armors and all counts of jewels.
- `eva_list`: lists of up to six nodes, the reader asking twice behind the end: the counter
  and the index differ by at most two, and the worker can be ahead, level, or done.
  The safety properties are proved for every length.

### Fairness

The search is a sequential loop in one thread that nothing interrupts, so while
it runs it takes its next step: weak fairness of `Step`.  `ArmorSearch` writes
this out, `[]<>~Running \/ []<><<Step>>_vars`: a step is possible exactly while
`Running`.  No fairness is assumed of `SearchCore`: nobody has to ask.
`Unpacker` has weak fairness of `NextCall`, for the loop above it calls `Next`
until it returns false; `Reset` is bounded and not fair.

`PostServer` has weak fairness of `Serve(c)` for each connection and of `Complete(c)`
once the answer is queued or refused: the daemon's thread serves every
connection that is ready, and `PostData` is ready when the client sends on, so
liveness is claimed for clients that do; one that goes away is completed too,
at any moment, but nothing makes it go.

`WebSession` has weak fairness of `TimerFires` (a browser fires its timers), of the
threads and answers together and of the processes together (the server and the
operating system run what is ready; nothing says they are fair to each).  A click is never
obliged to happen.  `EvaList` has weak fairness of `Work` and of `Read`: both are threads of
a preemptive system; the reader's polling loop sleeps between its looks.  The caller is
not obliged to call.  `Regression`, `WinBinding` and `LispEngine`, where nobody has to
call, have no liveness property.

### Where code and documentation disagree, and known limits

Found while modelling; the first is a run, the others bound what the properties claim.

- **A query without an effect** has no jewel keys, and the Finalizer reads the last of them
  (`core/pruners.h:392`) as soon as an armor set comes to it: undefined behaviour that ends the
  process.  `ArmorSearch` has it as `FinalFault`, and `NeverCrashes` leaves such queries out.
  `PostServer` and `Regression`, in which the search is not spelled out, allow either outcome:
  there is no set and the answer is empty, or the process ends (`SearchFaults`), at the server with
  all requests under way.  A body whose first piece ends before the first `:skill` is such a query.
- **A query cut short is searched** if the cut is at the end of a command or in its last number, whose
  closing parenthesis `Query::Parse` does not ask for.  `CutQueryIsAFront` says what can be made of it: what
  the first commands make, of which the very last number read may have lost digits.  This does change the
  answer: commands behind the cut are not asked, and `:max-rare 10` read as 1 excludes armors.
- **A later effect's negative points** (`negative_points`).  `Satisfy` compares
  every effect byte, including those whose jewels are chosen by later stages
  and which stand at the armors' own points, so a tree is dropped although
  `pruners.h:202-203` says trees are given up only when there is no valid
  jewel key.  The order in which the skills are asked decides whether the
  answer is found.
- **The residual is not unique.**  Two 1-jewels in two 3-slots
  leave `(0,2,0)` or `(1,0,1)`; `GetResidual` reports one of them,
  and jewels that would fit beside the stuffed ones may not fit the one reported.
  Its comment (`jewels_query.h:70-71`) speaks of *the* residual.  What it reports
  is always sound, which is what the theorems say.
- **A query may inherit `avoid_negative`.**  `Query::Clear` gives every
  member its default again except `avoid_negative`, whose default is in the
  constructor (`utils/query.h:47-51`).  The regression driver reads all its files
  into one object (`testing/regression.cc:91-94`), and
  `testing/queries/mh4g/test.sh` passes it `negative-skill.lisp`
  before `simple.lisp`.  The server takes a new object for each request.
- **A search ends a running screen.**  `answer-query` kills the explore process
  (`backend.lisp:73-77`); the next poll finds it gone, answers "finished", and the page
  shows the skills found so far as if they were all.  `FinishedMeansComplete` leaves killed
  processes out and `ScreenIsExact` disturbed screens.
- **An answer of an earlier screen is taken for one of the present.**  After Stop and
  Screen, a poll sent before counts as one of the new screen (`app-view.lisp:153`), may show
  old entries and starts a second chain of timers.  The process forgotten by the
  session runs on to its end.
- **A poll empties the blacklist.**  Each query that is not a filter does
  (`app-view.lisp:122`), so that an armor filtered out comes back when another is filtered
  after a screen; `FilteredStaysOut` speaks of filters with no poll in between.
- **`:weapon-holes`** is sent by the page (`app-view.lisp:99`) and by `Program.cs:22`, but is no
  command of `Query::Parse` (`utils/query.h:334-347`), which aborts on it.  `Unreadable` choices
  stand for such queries, and for those without an effect; the page then shows that nothing was found.
- **The Lisp engine passes over full jewel lists** (`src/lisp/engine/armor-up.lisp:354`): a list that
  fills every slot goes no further, even if the armors alone reach the next effect.  An
  armor set without slots has only the empty list, which fills them, and is never shown for
  three effects or more.  `PlansFor` has this condition, so `AnswersAreShown` is about the
  other sets.  When no candidate is left, `maximize` is taken of nothing (line 388).
- **A product that was not made is taken for a list** (`src/lisp/engine/jewels.lisp:59`): with one or two
  effects it is shown as jewels, and a further stage looks `:prod` up as the id of one.
- **Sets that share a tree are shown in step, not all of them**: `emitter-from-tree` joins left and
  right pairwise: each right set is seen once, with the left armors in turn.
  `AnswersAreShown` therefore speaks of keys.
- **The table of points** (`utils/tiny_map.h:98-110`) has entries for keys from -25 to 38 and no check.
  `Push` is a list without this limit, so what is said of splits holds of the code as long as no
  armor and no partial set has points of a later effect outside it: `TableAssumption`.
- **Multiplier 6.**  The flat buffer of the slot client is made for multipliers up to 5
  (`utils/jewels_query.h:306`).  Four torso-up parts and an amulet that is one, which the query reader
  accepts, make 6, and its entries are behind the end of the buffer: `MultiplierDecides`.
- **Six bits** hold -32 to 31 for a skill; a sum beyond wraps around (`Chunk`).  The data of
  the run stays within.


## 4. The proofs

**`ArmorSearch_proofs`, first part**: jewels and slots, the modules `JewelStuffing`,
`JewelAssigner` and `JewelPlacing`.  The pruners.  For every bound on slots and every number of stages:

- `SlotsNeverOverstuffed`: `StuffSpec => []NeverOverstuffed`
- `ResidualAlwaysReal`: `StuffSpec => []ResidualIsReal`

The inductive invariant is `StuffTypeOK /\ NeverOverstuffed`.  A stage chooses from the
residual, not from the slots, so the step needs `ResidualSound`: what fits the
residual of `stuffed` fits the slots together with `stuffed`.  That follows from
`ResidualLemma`, which is put together from one lemma per stage of
`GetResidual` (`ThreesLemma`, `TwosLemma`, `OnesLemma`): the holes decrease by
exactly what was put in, and the number of slots of size at least 2, and of
size 3, does not grow.  The rounded divisions are `HalvesLemma` and
`ThirdsLemma`.  `ResidualIsReal` is a consequence of the invariant and
`ResidualLemma`.  Assumed: `BoundsAssumption`, that the bounds are naturals.

The assigner.  For every number of parts and every plan that fits:

- `GreedyNeverStuck`: `Spec => []RestAlwaysFits`
- `EveryJewelPlaced`: `Spec => []NoJewelDropped`
- `SlotsAreKept`: `Spec => []PartsKeepTheirSlots`

`NoJewelDropped` is not inductive: that `Pop` stops with no jewel left needs that
the remaining jewels always fit (`RestAlwaysFits`), and that `slots_`, which only
goes down, has not passed a size with jewels left (`LargerSizesPlaced`); `IInv`
adds both, with the values of `slots_` and `slots_jewel_` before the first `Pop`.  The
core is `PopKeepsFitting`: taking the largest jewel and the smallest slot that
holds it keeps the fit, by cases on the size (`PopThree`, `PopTwo`, `PopOne`),
stated in numbers (`FitsInNumbers`) so that the solver meets no sequences.  For
`SlotsAreKept` a part must be on at most one stack, and there once (`Once`); `TakeSlotMoves`
says what a `Pop` does to who is on which stack.  Assumed: `PartsAreCounted`.

Both together.  For every tree, any number of effects and parts:

- `FinalizerKeepsToAssigner`: `PlacingSpec => Spec`
- `ShownIsChosen`: `PlacingSpec => []ShownAsChosen`
- `PlanAlwaysFits`, `SlotsUsedOnce`, `ChosenAlwaysFit`, `ResidualStaysReal`: the
  properties above, of the composition

The guard of `AddJewel`, on which the assigner relies, is discharged here: the composition
implements the assigner's specification *with* the guard (`AssignerStep`), because the parts
have the slots of the tree, the jewels handed over are among those chosen, what was chosen
fits (`NeverOverstuffed`), and a part of what fits fits (`FewerFit`).  `Linked` is the invariant
that ties the two halves; while `Pop` runs it says, for each size, that the jewels placed
and those still to place make up those chosen.  Assumed: the assumptions of both.

**`ForestGrowth_proofs`**, with `RecursionLemmas`.  For all armors and queries that
`QueriesAssumption` and `TableAssumption` admit, two to seven parts, and any number of splits of any
trees, by any minimum:

- `FoundationHolds`: `GrowthSpec => []FoundationHoldsEverySet`
- `SplitExact`: `GrowthSpec => []SplitIsExact`
- `KeysTell`: `GrowthSpec => []KeysTellTheSets`
- `MaxReached`: `GrowthSpec => []MaxIsReached`

None of the four is inductive: the keys of the roots say nothing of the keys they were made
from, and the nodes below a tree are not trees.  `GrowthInv` has, for the parts merged so far, that
the current forest holds exactly the sets of those parts (`PartialSets`), each below one root,
and that the key of a root tells of each set below it (`PoolHolds`); that each node of the pool
lists something, nothing twice, and valid armors only (`Sound`); and once all parts are merged,
that each tree has full sets below it, of which its key tells and whose multiplier it has
(`TreeHolds`), and what the last split did (`SplitHolds`).

Nodes are added, never changed, and a node is above earlier ones only, so what is below a
node stays as it was (`SetsStay`).  Therefore loops can be followed one step at a time:
`Made(p, acc, K, D, tell, A)` says that a loop that started from the pool p has so far made AND
nodes that hold the sets of D, each below one of them, grouped by what `tell` relates to them;
each step adds to D the sets of one pair of nodes (`JoinMore` for a merge, `PairMore` for a
split), which are apart from D because either the armors in front or the sets behind are.  At the
end there is an OR node for each group (`NodesHold`).  That `Push` lists each node once under one key is `PushLists`.

The keys: `PartTells` gives each byte of a key of parts as a number of slots or of torso-ups or
as points, `BodyTells` the same of a body.  A sum of keys has the sums of the bytes if none
wraps around (`KeysAdd`), and none does: n parts have at most n slots and torso-ups together, and
18 points each but for the torso-ups (`PartBounds`), and of a body that counts up to seven
times the points stay below 127 (`BodyBytesFit`, `ProductFits`).  For that the order matters: the
body is merged last, when its multiplier is known (`BodyJoins`).

`SplitOr` asks the right of an AND node for less than the minimum, by the most points on
the left, and leaves out groups that cannot reach it with the most points on the right.
`EnoughOfPairs` and `NoneEnough` say that neither loses a set.  Its recursion is over nodes
and calls (a pool that has grown, and a minimum); it is shown to be defined because the split of a node depends
on earlier nodes only (`SplitsExist`), and to be right by induction over the nodes
(`SplitsAreGood`).  That the multiplier of a tree is that of each of its sets is what makes the
points the splitter counts the points of the sets (`TreePoints`).  `MaxOr` is followed in the same way
(`MaxIsRight`); that its -1000 stands for no points needs the bound on points as well (`NotLow`).

Assumed: `QueriesAssumption`, which the data of the game satisfies and no check of the code
enforces: at most 18 points of a skill asked for on an armor, at most three slots, no body
that is a torso-up, no query for the skill torso-up; seven parts (`PART_NUM`), or as few
as two.  Without the bound on points the theorem would be false: a byte would wrap around.
And `TableAssumption`: what an armor (of a body, times its multiplier), and what the parts of a set merged
up to some part, have of an effect behind the foundation is from -25 to 38.  These are the keys that
`SkillSplitter` hands to `CompositeListMap::Push`.  The proofs do not need it, for the list of the model has
no end; the code does, so it bounds what they say of the code.

**`ArmorSearch_proofs`, second part**: the chain of iterators, which uses the lemmas of the first
part and of `ForestGrowth_proofs`.  For all armors, jewels and queries that `QueriesAssumption`, `TableAssumption` and
`BytesAssumption` admit, and any number of searches on one `ArmorUp`:

- `KeysAlwaysReach`: `SearchSpec => []KeysReachTargets`

The jewels are not counted here as in `JewelPlacing` but added up in the bytes of a key, and read
back from it by shifts and masks.  `Counted(n, key, c, d, m)` says that a key is the sum of jewels
of which c counts those in slots that are worn once, and d those of a body worn m times;
`SumCounted` and `BodyStuffedCounted` that the sums a slot client makes are such keys, and
`CountedTells` that `Ones`, `Twos`, `Threes` and `BodySlotSum` give back c and d.  This holds only
as long as no field runs over into the next, that is for counts that are `Roomy`; those that
fit a tree are (`FitsAreRoomy`), because a tree has seven parts (`SetRoom`).  Therefore what the client
puts into the residual fits next to what was there: `MoreStuffs`, which is `ResidualLemma` for keys.

`TreeAt(q, pool, k, tree)` is what a tree that has passed stage k has: below it full sets only, of which
its key tells the points of the effects it is split by (`TreeHolds`, with `Staged` for how many these
are); and jewel keys (`JewelsGood`), none before the first stage, at least one after it, each of which
fits and reaches the targets.  A `JewelPruner` keeps this (`PrunedHolds`).
A `SkillSplitPruner` is the hard case (`SplitTryHolds`): it looks for jewels that would do for the best set of
the tree, by `MaxPoints`, then splits the tree by the least that any of them leaves to ask for, and keeps
for each new tree those that do for *its* points.  That no new tree is left without jewels is
`KeptIs`: the jewels that asked for the minimum do for every tree that reaches it (`SubMinIs`).  That
there is a new tree, so that the stage does not answer from an empty buffer, is that the best set reaches the
minimum (`BeforeSplit`, from `TreeMax` and `TreeIsSplit`, the lemmas behind `MaxReached` and `SplitExact`).
`Satisfy` compares bytes; `SatisfyIs` and `SumFits` say that it compares the sums it means.

The invariant `SearchInv` says that every buffer holds trees that have passed its stage
(`Buffered`), that the roots are trees (`RootsHold`, which `FoundationPool` gives), and that a stage
whose source has just answered finds a tree there (`Answered`), as the code's `Get()` assumes.  A split adds
nodes to the pool, and the trees in the other buffers stay what they are (`TreeAtStays`).
`KeysReachTargets` says less than the invariant, which is why it could not be shown by itself.

Assumed besides `QueriesAssumption`: `BytesAssumption`.  The targets of a query are within a byte, a jewel changes
a skill by at most two points for each hole it fills, and a set that the query's filter admits has
between -85 and 85 points of a skill asked for.  The data of the game is far from these bounds and no code checks
them.  85 is what is left of 127 when the jewels of seven parts, at most 21 holes,
are subtracted: beyond it a sum of armors and jewels could wrap around in a byte.

**`QueryReader_proofs`**, the two programs that read query after query.  First `Regression`: for
all texts, any number of files and all id tables:

- `NothingElseStays`: `RegressionSpec => []OnlyAvoidNegativeStays`

The invariant is `Twins(reader, fresh)`: the two readers are the same records up to
`query.avoid_negative`.  Each primitive of the parser (`TwinsMove`, `TwinsStore`,
`TwinsList`) takes twins to twins because `TwinsLook` says that no test of it
looks at that member; one lemma per command, then `TwinsCommand`, `TwinsReadOne` and the
driver.  The only place where it could be lost is `Clear`, and the proof shows that
what `Clear` keeps is `avoid_negative` and nothing else.  Nothing is assumed.

Then `PostServer`: for any connections, any number of requests and any bodies:

- `TypeCorrect`: `Spec => []TypeOK`
- `AnswersAreTheirOwn`: `Spec => []AnswerIsItsOwn`
- `ResponsesAreHeld`: `Spec => []ResponseIsHeld`
- `NoRecordIsLeftBehind`: `Spec => []RecordsHaveRequests`
- `CutQueriesAreFronts`: `Spec => []CutQueryIsAFront`

The invariant `IInv` says of each connection what its record has got so far (`RecordOK`): the
first piece of a body whose key is `query`, nothing of any other, and the response made of
exactly that.  A body is cut into at most two pieces (`CutsAreTwo`) and no piece is empty
(`ArrivalsArePieces`), which is what the iterator of the code relies on.  A step of one
connection leaves the others alone (`OthersStay`).  Assumed: `BodiesAssumption`.

`AnswersAreTheirOwn` is about requests that are answered; one whose query the parser aborts on, or
that has no effect, may end the server instead, and all requests with it.

For `CutQueriesAreFronts` the first piece that arrives has to be the front of the body, whatever is
under way on other connections: `ArriveInOrder`, on top of `IInv`.  The rest is about `Parse`, for all
texts and all places to cut them (`PieceIsAFront`).  One reader is given the piece, one the whole text.  They are a
`Pair`, the same but for their texts, until the piece ends or its last lexeme was cut from a longer one
(`FrontOf`, `CutAs`; numbers are `Shorter` by up to nine digits).  There the reader of the piece fails (`Lost`), or has
nothing more to read and is `Behind`: after the command that is read just then, the query of the other is its own but for
one number.  A cut can be passed over only where an int
is the last thing a command reads, since `Query::Parse` ignores the last `ExpectCloseParen`.
`Follows` says that each command and each round of
`Parse` comes out in one of the three ways (`PairCommand`, `FollowsReads`); `RoundsOfParse` relates the loop to its
rounds, whose queries are the `Fronts`.

**`EvaList_proofs`.**  For lists of every length and any number of calls:

- `TypeCorrect`: `Spec => []TypeOK`
- `NothingEvaluatedTwice`: `Spec => []EvaluatedOnce`
- `ElementsInOrder`: `Spec => []InOrder`

`EvaluatedOnce` is not inductive: that the reader's node has been forced follows from `WorkerAhead`
(the rests kept are those before the worker's pointer, and `filled` is the pointer less
one, or the pointer while it is being forced) together with `ReaderBehind` (the
reader's index is its node, or one more while it steps).  `EvalsCount` gives the exact
number of evaluations of each node, `ReturnedSoFar` relates what was returned to the
reader's place.  Assumed: `MaxLengthAssumption`.

**`WebSession_proofs`.**  For all choices, whatever the programs find, any number of calls,
clicks and processes:

- `TypeCorrect`: `Spec => []TypeOK`
- `AlwaysPolled`: `Spec => []ScreenIsPolled`
- `ResultsBelong`: `Spec => []ResultIsOfTheQuery`
- `FilteredStay`: `Spec => []FilteredStaysOut`
- `FinishedIsComplete`: `Spec => []FinishedMeansComplete`
- `ScreensAreExact`: `Spec => ScreenIsExact`

Everything rests on `IInv`: beside the types, that calls and timers together are no more than
the call ids (`Free`, so that a timer finds an id), that a call brings what is of its kind
(`KindsInv`), and that at most one call is starting a process, whose file is then newer than
the process of the session (`StartInv`).  Each property has an invariant of its own
on top.  `QueryInv`: there is one search at a time and, at each of its steps, the files hold
what the query last asked made of them; this is where the disabled button is used.
`FilterInv`: until a poll, the blacklist and the query asked contain what was filtered.
`ProcessInv`: a process that is over and was not killed has written all its entries, and a call that
found its process finished found the truth; that the process is looked at before the file is
read is what makes its answer complete.  `ScreenInv`: while a screen that
nothing has disturbed is shown, there is one call or one timer and it is about the
screen's own process.  Three kinds of facts, about a call that is sent (`Sent`), goes on
(`Stepped`) or is answered (`Freed`), carry the bookkeeping, so that the steps
see no records.  Assumed: `ChoicesAssumption`, `BoundsAssumption`.

**`SlotClient_proofs`**, with `RecursionLemmas`.  For all jewels, effects, strides that
`StridesAssumption` admits and any number of calls:

- `TypeCorrect`: `Spec => []TypeOK`, in particular no call with a multiplier the buffer is made for
  leaves it
- `MultiplierDecides`: an entry of a multiplied body is in the buffer exactly if its multiplier is one
  the buffer is made for
- `AnswersAreEveryStuffing`: `Spec => []AnswerIsEveryStuffing`
- `EntriesAreComplete`: `Spec => []EntriesComplete`
- `AnswersDoStay`: `Spec => AnswersStay`: an entry that has answered once never changes, so a
  reference that `Query` returned stays good

Four things come together.  The flat index: alignments within the strides have entries of
their own, those the recursion asks for lie below the one it fills (`IndexOrder`), and the
bodies have blocks of their own above all of them (`BodyOrder`).  The algebra of the sums:
what fits j 2-slots either has a 2-jewel in each or fits when one of them is two 1-slots
(`AllTwos`), and the same for 3-slots (`AllThrees`), which is why the recursion of the code
is complete.  The recursion: `Serves(c, e, s)` is the contract of `Calculate` (if the
entries of c up to s are empty or complete, then those of e are, the one for s is complete,
no entry is lost and those above s have not been touched), and `Level` proves it of one
level from the levels below; the part about the entries above is needed because
an entry is half computed while its own nested calls run.  And the invariant `Inv`: the
fixed sums are right and every entry is empty or complete (`Complete`).

A recursive function is a CHOOSE, so that it satisfies its own equation has to be proved.
`RecursionLemmas` does that once, for functions on `0..N` whose value at n is made from the
one at n - 1: `RecursionExists` and `RecursionWithin`, by induction on sets of
numbers (`IntervalInduction`), which needs no operator parameter.  `SumsLemma`, `FixedLemma`,
`OnesServe`, `TwosServe` and `ThreesServe` are its five uses.  Assumed: `StridesAssumption`,
`DataAssumption` (the points of jewels are integers), and of the calls that their multiplier is at most
`MultLimit`, for which the buffer is made: multiplier 6 is outside.

**`WinBinding_proofs`**, with `RecursionLemmas`.  For any dataset with distinct ids, any queries,
any jewels and any number of sets and searches:

- `IdsLeadToRows`: `Spec => []IdsMeanTheirRows`
- `SetsArriveWhole`: `Spec => []CallerSeesWhatWasFound`

`Rows(ids, n)` is a table after the first n of its ids.  A row with a new id adds to it
(`RowIsAdded`), so `AddAll` ends in the table of them all (`RowsAreAdded`), and such a table leads
back (`RowsLeadBack`); the armors are one list with the predefined ones behind it.

The text is followed from both ends.  `Occurs(s, t, p)` says that s stands in t from p on; a list,
a piece and an amulet that stand in the text are read as they were written and no further
(`ListIsRead`, `PieceIsRead`, `AmuletIsRead`).  What is written of a part is, once the tables are
right, a matter of the dataset and the query alone (`SpelledIsWritten`), and is read as what the
caller is to see (`SpelledIsRead`).  `SetIsText` and `SetsStand` place every part of every set in
the text.  The invariant `IInv` then says where the reader is: between two sets, with those before
seen, or in a set behind its i-th part.  That the reader stops only at the end of the text is
`AtASet` and `AtAPart`.  Assumed: `RowsAssumption`, `DataAssumption`, `BoundsAssumption`.

**Model-checked only.**  Of `ArmorSearch`, what the stages behind the trees do: `ResultsVerify`, `JewelsFitArmors`,
`NeverCrashes` and the refinement `FindsAnswers`.  They need in addition that the stack of the Unpacker stands
on a set of its tree, and that the solver's search finds a plan for every key.  All of `LispEngine`,
whose emitters are RECURSIVE operators, for which tlapm has no SMT backend.  Liveness (`SearchEnds`, `AllGivenAtLast`,
`RecordsAreFreed`, `PageComesToRest`, `CallsReturn`), which is out of reach of TLAPS's backends.


## 5. Not modelled, and plan

Partly modelled, with what is left out:

- **Dataset, loaders:** decoding of rows from a file or from SQL (I/O); the addon tables, which
  share index maps with the main ones; `EffectScore`, which only the unused
  `OptimizeQuery` calls.
- **Query reader:** the s-expression reader (`lisp/reader.h`), which nothing in the back end
  includes.
- **Formatter:** the Lisp and JSON formatters, which differ in layout only.
- **HTTP server:** `daemon.h`.
- **Explore:** `core/explore.h` is written against an older interface of `ArmorUp` and the build
  file does not compile it; `WebSession` has its process, and what it finds as a constant.
- **Lisp engine:** the loading and printing of data; `dfs-jewel-query`, `stuff-jewels` and
  `encode-jewels`, which only the tests use; a body that yields nil for `emitter-mapcan`
  (`emitter.lisp:54`), which no body of the engine does.
- **UI widgets:** what they send to the page is in `WebSession`; open menus and
  half-entered amulets are not.

Not modelled:

- **React** (`src/assets/lib/react`): a copy of a library by other authors, which the pages load from a
  network address (`src/lisp/ui/simple-web.lisp:65`).  `WebSession` uses one thing of it: a state set in a
  handler is seen when the handler has returned.
- **Crawlers and converters**, `docs/`: scraping, text and I/O.

Some hazards have no property.  The range of the point table of `tiny_map.h` depends on game data
outside the repository and is an assumption; multiplier 6 is outside the calls of `SlotClient`.  A query
without an effect, a poll or a killed process of an earlier screen, a blacklist emptied by a poll, a second
`Initialize`, full jewel lists and products that were not made do in the models what they do in
the code (but for the second `Initialize`, which nobody calls); the properties near them are
about what the code gets right beside them, and exclude these cases by a condition.

Next:

1. The addon tables of the sqlite loader.
2. Proofs: the Unpacker's stack and the solver's plans, and with them the rest of the safety of
   `ArmorSearch`; they are recursive functions, which `RecursionLemmas` can follow.
