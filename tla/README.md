# A verification project for BlankIt

BlankIt removes the code of shared libraries from a running program and puts
it back just in time. A decision tree embedded in the program calls
`blankit_predict(i)` in front of its library calls; a Pin probe tool, started
with the program, has zeroed every library routine it could, and copies a
routine (and the chain predicted with it) into place when it is entered.

This directory holds TLA+ models of that system, TLC configurations that check
them on small instances, and proofs checked by TLAPS.

## Inventory of the system

| Part | State | Operations | Hard behaviour |
| --- | --- | --- | --- |
| Probe tool, `replace_probed/decrypt_probe.cpp` | the text of the libraries; maps `addr_to_copy`, `name_to_addr_and_size`, `copied_funcs`; `pred_set_idx`, `old_pred_set_idx`; `blank_state` | image load callback, `probe_copy`, `probe_blankit_predict(_lazy)` | libraries loaded in mid-run, nested calls, callbacks, names listed twice or in two libraries, threads |
| Page permissions, same file | permission of each page | `remap_permissions` around every write | routines sharing pages, bodies over page ends, threads |
| Trace parser, `pathPredictionProject/src/parsePinTrace.cpp` | call sites seen, functions called inside the current one, map of sets to ids, kept in a file | a line of the Pin trace: call site, return, RDF, called function | nested and unfinished call sites, ids across runs |
| Embedding, `pathPredInstrument.cpp`, `embedDtree.cpp` | the file `funcName_id_map.csv` between builds; call site numbers; the tree; id -> string, id -> counter | number and report the calls of a module; number them again and fold the tree into each | builds in any order; two passes and three numberings of the same sets must agree |
| Prediction scorer, `parsePrediction.cpp` | predicted and actual sets, counters | a line of the trace | the last site, sites with an unknown id |
| Call stack parser, `2levelBTparse.cpp` | state of the stack, chain, features of each call site | a stop, a call site, an RDF of a gdb log | routines are recorded one stop late |
| Approved list search, `create_approved_list.py` | approved and ignored names, in memory and in files | try one routine; end; restart | killed between two tries; names listed twice |
| Static reachability, `libc/parse_static*` | call graph, worklist, visited, counters | visit one entry of the worklist | order of visits, missing entries |
| Tracer, thunk generator, benchmarks, experiments, result and drive scripts | - | - | see PROJECT.json, not modelled |

How they interact: `proccount` (a Pin tool) prints the calls of an instrumented
program; the trace parser turns them into training rows and the file
`string2id_map.csv`; `learnModel.py` fits a tree; `embedDtree` compiles the
tree into calls of `blankit_predict`, whose argument is an index into the same
file as the probe tool reads it (`init_pred_sets`). The approved lists, one per
library, tell the tool which routines may be probed.

### What makes each part correct

* Probe tool: an entered routine has its body; nothing is in memory that was
  neither predicted nor entered since the last blanking; `copied_funcs` and the
  text agree; the audit log blames the right routine.
* Page permissions: writes do not fault, pages do not stay writable.
* Trace parser: one row and one label per call site, ids unique and stable.
* Embedding: a routine keeps its id from build to build, both passes number
  alike the calls both find at their start, the leaf compiled into such a call
  is the one its training rows reach, and the index passed names the set the
  leaf stands for.
* Scorer and call stack parser: what is printed is what the whole input says.
* Approved list: a failing run is charged to the right routine, and the files
  hold the verdict of every one.
* Static reachability: all that can be reached is visited, and counted once.

The hazards, each at its line and with the property aimed at it, are in
`PROJECT.json`.

## Modules

| Module | Models |
| --- | --- |
| `Debloat` | the abstract promise: `managed`, `live`, `chain`; bodies appear only when entered or predicted, and disappear only together |
| `DecryptProbe` | the tool, one action per callback, around a program that is a stack of frames |
| `PageRemap` | the arithmetic of `remap_permissions`, no state |
| `ProbeSteps` | the handlers step by step with page permissions and several threads |
| `TraceContext` | the trace parser, one action per kind of line, over several runs with the id file between them |
| `PredictionIndex` | what a class number becomes on its way from the parser to `blankit_predict`; extends `TraceContext`, adds no state |
| `ApprovedList` | the search for approved lists, one action per step of its loop, with kills and restarts around the files |
| `StaticReach` | the worklist walk over every call graph |
| `CallChain` | the call chain parser, one action per kind of line |
| `Scorer` | the scorer, one action per kind of line |
| `EmbedTree` | the two LLVM passes around the training, one process per module |
| `MCReaders` | composes the five modules above for one run: they are programs of their own and share no state, each behaviour runs one of them; and `PageRemap` for every small routine |
| other `MC*` | small instances for TLC |
| `DecryptProbeProofs`, `PageRemapProofs`, `ProbeStepsProofs`, `TraceContextProofs`, `ApprovedListProofs`, `StaticReachProofs`, `CallChainProofs`, `ReadersProofs` | theorems; `ReadersProofs` has those of `Scorer`, `EmbedTree` and `MCReaders` |

`DecryptProbe` and `ProbeSteps` model the same handlers at two grains and both
refine `Debloat`. `DecryptProbe` has the names, the lists, the loading, nested
calls and callbacks and takes each handler as one step, which one thread may
assume; `ProbeSteps` has the steps, the pages and the threads, with everything
loaded and one name per routine.

### DecryptProbe and the code

A routine stands for its address. `text[r]` is the body past the 14 bytes that
hold the probe, CODE or ZERO. `probes[r]` is the set of bodies saved in the
copies that probes at `r` carry as argument (`IARG_PTR, copy_of_func`): a set,
because a name listed twice leads to a second probe. `addr_to_copy` and
`name_to_addr` are the maps of the code (sizes go with routines and are left
out). `loading`, `pos` are the loop of `image_load`, one entry a step, although
the application waits meanwhile: the properties hold between entries too.

| Action | Code |
| --- | --- |
| `ImageLoad`, `SkipListed`, `ProbeListed`, `ImageLoaded` | `ImageLoad`, `image_load`, `FindAndCheckRtn` |
| `CallUnprobed` | a routine not on a list |
| `CallCopied` | the early return of `probe_copy` |
| `CallPredicted` | the predicted branch: the chain, or with `SingleCall` one routine |
| `CallMispredicted` | the other branch, with the audit block |
| `PredictEager`, `PredictLazy` | `probe_blankit_predict`, `probe_blankit_predict_lazy` |
| `Callback`, `Return` | the program |

A frame whose body is ZERO cannot step on: where that can happen the program
stands still, which the deadlock check of run `eager` would report.

`entered`, `first`, `stale` are history: routines entered since the text was
last blanked, the first of them since the last prediction, and the height of
the stack at the last blanking.

The sets of predictions are given as `PredSets`; that the index passed is in
its domain is an assumption on the embedding (`init_pred_sets_stub`, built for
the servers, leaves only index 0).

### PageRemap, ProbeSteps and the code

A step of `ProbeSteps` is one statement on shared state: an operation of a map
or a set is one step, a loop over one is not. A write to a page without write
permission sets `fault`, after which nothing happens (SIGSEGV). `remap_permissions`
may be refused, when it opens and when it seals (`Denied`), which the code only
prints.

| Action | Code |
| --- | --- |
| `Enter` | the call of the routine and the test of `copied_funcs` (301) |
| `CopyFind`, `CopyHit` | line 321: `pred_sets[pred_set_idx].find` and the comparison with `end()`, each reading the index anew |
| `CopyBegin`, `CopyNext`, `CopyEnd` | the loop of 342-343: its start, the next entry and the first remap for it, its end; each test of the end reads the index anew |
| `CopyRunsOn` | the test of the end after the index has changed: the iterator is in one set, the end is another's |
| `CopyWrite`, `CopyRecord`, `CopySeal` | `probe_copy_aux`: memcpy, `copied_funcs` entry, second remap |
| `PredictLazy`, `PredictEager` | the two replacements of `blankit_predict`, up to the blanking |
| `BlankBegin`, `BlankUnseal`, `BlankWrite`, `BlankSeal`, `BlankClear` | the loop over `copied_funcs` and its `clear()` (403) |
| `PredictSet` | the assignment of `pred_set_idx` behind the blanking (415) |
| `Leave` | the routine returns |

The `find` of one set compared with the `end()` of another is a hit. A loop that
has lost its end crashes or comes by elements of its set again, and the iterator
of a blanking loop may or may not come by an entry inserted behind it: these are
the choices left open. Two threads that change `copied_funcs` by blanking at one
time, or a `clear()` under another thread's insertion, would leave the map itself
broken; the model has one predicting thread unless predictions are quiet
(`StepsAssumption`), and does not go into the tree of the map.

The pages opened are those of `remap_permissions(addr, size_cp)`, those
written of `addr + 14 .. addr + 14 + size_cp - 1`. The second reach one page
further exactly when the last 14 bytes cross a page end (`TailCrosses`).
`last[p]`, `leaked` and `refused` are history: the thread that remapped page p
last, the pages a refused seal left as they were, the threads whose last opening
was refused. `FaultExplained` ties each reason to the thread that faults: its own
opening was refused, its own body crosses, a page of its body was remapped last
by another thread, or its own loop lost its end.

`Debloat` sees a handler as a whole. A chain load takes effect when its list is
made and a blanking when it ends; in between `live` is, of a copying thread,
the bodies in the text with those still to be written (`Loading`), and of a
blanking one, what was recorded when it began. So it is the text that is
mapped: a body that is not written, or not zeroed, breaks the promise at the
handler's end.

### TraceContext, PredictionIndex and the code

The variables of `TraceContext` are the members of `callsite_trace_context` and
the locals of `parse_instream`. A flattened set such as `;f;g;` is the set
itself: names are the only thing in it, so two strings are equal where two sets
are. An iterator into the map (`calledFuncs_seq`) is its key. Parameter values,
the names of entry functions and `calltrace.csv`, which repeats the rows, are
left out. `string2id_map` is the file, its two parts in the order `print`
writes them, and `EndOfTrace` is `print` followed by the constructor of the
next run. `train` collects the rows of all runs, as `run_debloatPredict.sh`
appends them to one file; `log` keeps the lines of the current trace, against
which `RowsMatchLog` defines the rows anew.

| Action | Code |
| --- | --- |
| `CalledMain` | the line that starts recording |
| `CallsiteLine` | remembers the call site; nothing else happens yet |
| `CalledLine` | `recordCallsite` if a call site is remembered, then `addCalledFuncs` |
| `ReturnLine` | `finalizeCalledFuncs` |
| `RdfLine` | `clearCurrentCalledFuncs`, then `recordRDF` |
| `EndOfTrace` | `print` with `getId4String`, and the next run's constructor |

`PredictionIndex` follows a row's id through four numberings: the id, the rank
of the id among the classes of the tree (`plot_unveil_tree_structure.py` prints
`argmax`), the line counter of `embedDtree.cpp`, and the position in
`pred_sets`. `LabelOrder` stands for the order of the strings in a `std::map`:
each set of functions has one place in it, as it has one string, and a map is
printed by the rank of its strings (`RankIn`).

### ApprovedList

`approved_file` and `ignored_file` are the four files; all other variables are
the process's and are lost by `Interrupt`. `Try` appends the routine and writes
the approved list, `RunEnds` takes the return code of the benchmark, `Skip` is
the part of the loop in which a restart takes old verdicts over.

The benchmark is the environment. `drive_blankit.sh` exports the approved lists
of both libraries whichever is searched, so a run fails if any list on disk
holds a routine of `breaks`, a set per library chosen once, or if one is missing
or empty, which the tool does not survive. `OthersSound` says that the lists of
the other libraries do not fail a run; a search of libm after a killed search of
libc, whose last routine on trial stayed in the file, does not meet it.
`OldApproved` and `OldIgnored` are the lists earlier experiments may have left.

`Restart` is the operator's: a search that broke is restarted at the routine it
broke at (`broke_at`). It reads `ignored_list.txt` whichever library it
searches, as line 97 does.

`Skipped` and `Justified` say when a restart is sound: the list it read is right
about every line it takes over. `ResultExact` and `BlamesTheNewest` hold then,
and with `OthersSound`; the code does nothing to make either so, which run
`restart` shows of the first.

### StaticReach

`worklist` is the list `dfs` pops from its end, with the depth of each entry.
`Visit` takes an entry not seen before, whether or not the graph lists it
(`key_errors`), `Revisit` one seen. The graph and the routines called are
arbitrary. `max_depth` is not a distance: it depends on the order of visits, so
`DepthBounded` states the bounds that hold whatever the order.

### CallChain, Scorer

Both have their input as history (`gdblog`, `trace`), so that what is printed
can be defined anew over the whole input and compared after every line. In
`CallChain` a stop's routine is recorded at the next stop, which may lie behind
the next call site: the last routine of a chain is printed with the following
site, and a chain of one routine prints no row for its own. `ChainsMatchLog`
states this as what the code does. `EntriesMatchRows` says what `Called_times`
counts: the rows printed with the entry's routine first in their chain and with
the entry's features, and one for a chain still open. In `Scorer` the empty name that splitting
`;f;g;` leaves in front is a predicted routine, so "as many as predicted" means
one more; `SizesMatchTrace` says so too.

### EmbedTree

`Instrument(m)` is one process of `pathPredInstrument` on one source file: it
reads the routine ids of the file, numbers the routines it does not know, counts
the call sites from one and writes the file back. `Train` stands for the runs of
the instrumented program (any part of the sites may be executed), the trace
parser's choice of one routine per site, and the learner: any tree over
columns and thresholds that separate rows. `Embed(m)` is `embedDtree` in the
second build: `RecursiveIfElseTree` is its walk with the folding of tests that
are decided at compile time. Both passes key their call sites by the address of the call in the compiler and
number them in `doInitialization`; they act on them in `runOnFunction`, and the
pass that instruments is registered behind the optimizer. `AtInit` is what the
first finds, `CalledBy` what the second finds, and `From` says which call of the
second is which of the first, if it is one. A call made in between (by inlining,
say) has a fresh address or that of a call deleted (`Addresses`): the
instrumentation counts on for a fresh one, `embedDtree` takes 0, and both take
the number of the deleted call at its address, each in its own build.

Site numbers restart in every module, and so do
the ids of routines a process has not read from the file (its counter starts at
zero whatever it read): two modules can give one number to two calls, and the
rows of one are then learned for both. `EmbeddedAsLearned` speaks of the calls
that both passes found at their start: each gets the leaf the tree has for the
numbers the call reports, right or wrong. Of other calls it does not hold.
`IdsKept` says that both builds give a call the same routine id.

## Runs

| Run | Question |
| --- | --- |
| `lazy` | do the tool's maps agree with the text, and is everything live justified, with callbacks and libraries loaded at any time? does the audit log name the entry into the library? does the tool implement `Debloat`? |
| `eager` | does the program ever reach a blanked body, or stop? |
| `twins` | (violation) is "just this function" the one copied? |
| `steps_shared` | two threads without restriction, shared pages, a body crossing a page end behind the pages opened, refused openings and seals, predictions under a running loop: what can make a thread fault, and is a page left open? |
| `steps_two` | two threads and quiet predictions: records complete, promise kept by the text, entered routines run |
| `steps_race` | (violation) is "what's already there" there, if predictions come at any time? |
| `trace` | are rows, labels and ids right over two runs of the parser, and does the index passed select the row's set? |
| `trace_ids` | (violation) are ids unique, as the comment says? |
| `trace_rdf` | (violation) does an RDF seen inside a call reach the site's row? |
| `index_empty` | (violation) is a prediction of nothing left out, as the probe tool expects? |
| `readers` | is what the batch programs write what their whole input says, for every input within the bounds? which pages does one remap reach? |
| `restart` | (violation) does the approved list hold only functions that do not crash, after a restart? |

Bounds. Four routines in two libraries: two that are probed and share a
prediction, one a byte too short to be probed, one in the other library; a name
listed twice and a name no library has. Three predictions: none, one within a
library, one across libraries with a name nobody has. Three sets are enough
for a prediction to return to an earlier one. `MaxDepth` 3 lets a library
routine call back and the callback call a library routine again. `ProbeSteps`
takes three routines on pages of 32 bytes. In the shared layout f is at 0 and g
at 16; f and g share page 0, g and h page 1; and h is 28 bytes at 48: its handler opens up to
byte 62, on page 1, and its body ends at 75, on page 2. In the other layout each
routine has pages of its own.
`RemapReaches` and `AuxCovers` take every address of two pages and sizes up
to three pages and a bit. A model page of 32 bytes is larger than the 14 bytes
of a probe, as every real page is. `trace` takes two interchangeable call sites,
two functions and one RDF, all traces of seven lines (two rows with functions,
or three cut short) and after them all of three lines read with the file of the
first run. `rand() % 1000` is `% 2`: ids of the second run then do meet those of
the first.

`readers` takes: for the search, libc's list a, b, a and libm's b, c (a name
repeated within a list and one in both), every set of breaking routines, every
kill and restart, lists of an earlier experiment or none, and four kinds of old
ignored list, so that a restart can be right, partly right and wrong, and the
other library's list sound and not; for the walk, every graph over three routines
with up to two callees each and some without an entry, and up to two roots,
which is enough for cycles, diamonds and deeper second visits; for the chain
parser, all logs of six lines over two call sites, two library routines, one of
the application and one RDF (two chains with a routine recorded late between
them); for the scorer, all traces of six lines over three routines and two
predictions, one of them empty (two predictions judged); for the passes, two
modules with a shared routine, two local ones and another site count each, one
of the local ones inlined between numbering and instrumenting (so its call goes
and one of the shared routine comes, at its address or not), every build order and
repetition, every set of executed sites and every tree of up to
three inner nodes.

Environment. `CleanLists`: no list leads to one routine twice, or Pin refuses a
second probe (`Reprobe = FALSE`; lists of the repository do hold some names
twice). `UniqueNames`: no two probed routines have one name (libc and libm
break it with `frexp`, `modf`, ...: run `twins`). `Quiet`: a thread predicts
only while no other thread is in a library or in a probe. The code does not
enforce it; without it a thread may be blanked under its feet (`steps_race`).
The search's benchmark is deterministic. The passes see C programs with direct
calls, built one process per source file.

Fairness. `steps_two` assumes weak fairness of each thread's handler: handlers
are straight-line code without locks, so a thread that is scheduled at all gets
through. Nothing is assumed about the program: it may stop calling or never
return. The other runs check safety only.

Deadlock is checked where the system cannot stop (`eager` above all: a program
on a blanked body would). It is off where it may: with callbacks the
program can return to a blanked body, handlers stop after a fault, and a walk,
traces and logs end.

## Findings

* `twins`: with two libraries listing one name, a predicted hit on the first
  routine writes the second and returns with its own body zeroed.
* `steps_race`: a prediction clears `copied_funcs` only after the last body is
  zeroed. A thread that enters a routine in between finds it recorded, skips the
  copy and runs zeros.
* `trace_ids`: a new set is numbered by the size of the map, but the map read
  from the last run's file also holds the ids given to RDF sets, which are at
  least its earlier size. In the next run two sets can share an id.
* `trace_rdf`: an RDF line first ends the call in progress and only then asks
  whether there is one, so no RDF is ever recorded and the column `rdf_set` of
  the training data is always the empty set (theorem `RdfDropped`).
* `index_empty`: `embedDtree.cpp` replaces the id by the line counter and then
  looks the id's string up under the counter. The empty set, usually id 0 and
  counter 1, is not recognised and a prediction of nothing is emitted.
* `restart`: a killed search has not written its ignored list, which is the last
  statement of the script, and a restart reads libc's for either library. Restarted
  where it broke, the search of libm approves routines its own runs had found to
  break the benchmark.

Behaviour that no run lists as a finding and a reader should know: the chain is
loaded at any predicted entry, also if a mispredicted routine was entered before
(the comment at `decrypt_probe.cpp:340` says it is the first function hit); the
call stack parser is one routine late; the scorer never judges the last site; a
call the optimizer makes behind the numbering is embedded with site 0; a range
that ends at a page end has the page behind it opened too.

## Proofs

Every theorem holds for every value of the constants that meets the modules'
assumptions; what else it assumes is in its statement. It is about the
specification of its module: for the batch programs their own, which run
`readers` composes. Every invariant and action property of the passing runs but
`CopiesIntact`, which is a part of `BookkeepingInv`, and both refinements are
stated by a theorem.

`DecryptProbeProofs`:

* `BookkeepingCorrect` under `CleanLists`: the invariant `BookkeepingInv`. The
  property of interest, `CopiedExactlyLive`, is not inductive: that a copy
  writes CODE needs `CopiesIntact`, that the chain writes only probed routines
  needs `NamesKnown`, and that a copy is saved from an unblanked body needs
  `UnprobedUntouched` and `ProbedWereListed` (a probed routine was reached by an
  earlier entry or belongs to a loaded image, so `ListedRtn` is fresh).
* `ToolTypeCorrect` and `CopiedCorrect` read their properties
  off it; `JustifiedCorrect` adds `LiveJustified`.
* `FramesCorrect` under `UniqueNames` too: `FreshFramesLive`, with `FramesInv`.
* `PromiseKept` under both: the tool implements `Debloat`, step by step. Loading
  is `Manage` for each probe and a stutter else (`ProbeAdds`: the routine is new
  and blanked); the entry of a predicted routine writes exactly what the
  abstract step may, as the invariant identifies `live` with `copied_funcs`.
* `RunsCorrect`, without callbacks: `NeverRunsZeros`. It rests on
  `FreshFramesLive` and on `LibraryFramesOnly`: without callbacks a prediction
  finds no library frame below it, so every frame is fresh.
* `OnlyEnteredCorrect` (single call: nothing is live but what was entered; no
  run checks it), `AuditCorrect` (lazy, whatever the lists)
  and `CopiesThisCorrect`: the copy of a predicted routine is its own where
  names are unique, the complement of run `twins`.

`PageRemapProofs`: one remap reaches exactly the pages from that of `addr` to
that of `addr + size` (`RemapSpan`, `RemapExact`); image_load always covers the
body, the handlers exactly where its tail crosses no page end.

`ProbeStepsProofs`, for every layout, page size and number of threads:

* `SealedCorrect` and `FaultCorrect`: pages are writable only between the two
  remaps of a routine that reaches them or since a refused seal, and a thread
  faults for one of four reasons only. The invariant `StepsInv` adds `PermInv`:
  a thread between its remaps still has open what no other thread remapped since
  (`Holds`), unless it was refused; and `CalledInv`, that it has a routine.
* `NoFaultCorrect` follows for one thread (`SingleThread`), no body whose tail
  crosses a page end and no refused mprotect.
* The others assume `Undisturbed`: predictions are quiet or there is one thread.
  `AloneInv` says what that gives: who predicts is alone, so the set a loop walks
  is the one predicted. `LoopsEnd` (no loop meets the end of another set) follows.
* `RecordedCorrect` and `SkipsCorrect`: `RecordedIsComplete` is not inductive,
  for a record is made two steps after the remap; `WorkInv` adds what is written
  at each step of a handler, and that a body in the text is recorded or about to
  be.
* `StepsPromiseKept`: the handlers, interleaved step by step, implement
  `Debloat`, which is shown the text. Between handlers it is `copied_funcs` that
  tells what must be in the text, and `WorkInv` that it is. A copy loop's steps
  leave what is mapped alone (`CopyStutters`) but for the one that makes the list
  (`ListRuns`); a blanking's do until its end (`PredictRepredicts`).

`TraceContextProofs`, with no assumption but those on the constants, for any
number of runs and traces of any length:

* `TypeCorrect`, `AlignedCorrect`, `LabelsKept`, `DenseCorrect` and `RdfDropped`
  from one invariant, `TraceInv`. `RowsAligned` alone is not inductive: that
  finalizing a call empties the stack needs the stack written out (`Aligned`),
  and that the numbering stays one of sets of functions over a restart needs
  that no RDF was ever recorded (`Numbering`), for the file mixes both kinds of
  sets. `DenseCorrect` adds that the size of a dense map is its next free number
  (`PutDense`).
* `RowsCorrect`: the rows are the function of the log `RowsMatchLog` defines,
  from `LogInv`. It speaks of every row begun, ended or not: an ended one has
  its label for good, of one in progress the set collected is what was called so
  far. A row once ended is a matter of the past, which `LogGrows` and the
  lemmas after it say of each definition over the log.
* `IndexCorrect`: the index `embedDtree` passes for a row's leaf selects, in the
  table the probe tool reads, the row's own set. `IndexInv` says what the first
  run leaves: ids without gap, and a row for every id. So the classes of the
  tree are all the ids, the rank of an id among them is the id itself
  (`LeafIsId`, by counting), each id has one line in the file, and both readers
  count that line alike.

`ApprovedListProofs`, for all lists, sets of breaking routines, kills and
restarts: `SearchCorrect` (`ResultExact`) and `BlameCorrect`, from `SearchInv`
(both while the lists of the other libraries fail no run).
The result is not inductive; the invariant says what the lists in memory are in
the middle of the loop: the lines behind the search sorted by verdict
(`Sorted`), or, during a run, all but the routine on trial, which stands last in
the list and in the file (`OnTrial`). That repeated names are sorted right needs
sets of names and not of lines. A run reads all lists; that with sound others it
is decided by the routine on trial is the lemma `FailsOnTrial`.

`StaticReachProofs`, for every finite graph and list of roots:

* `ReachCorrect` (what is visited is the least closed set with the roots) and
  `CountsCorrect`, from `ReachInv`, with `Sound` (every closed set holding the
  roots holds all that is visited or in the worklist) and `Complete` (a callee of
  a visited routine is visited or in the worklist). The counts rest on
  `EdgesOfOneMore`, about the cardinality of a disjoint union.
* `DepthCorrect`: `DepthBounded`, from `DepthInv`: an entry of the worklist at
  depth d ends a chain of d - 1 calls, and d exceeds the number of routines
  visited by one at most.

`CallChainProofs`, for every log, from `ChainInv`: the state of the parser is
what the log read so far says. `ChainsCorrect`, `FeaturesCorrect` and
`ValuesCorrect` need three facts kept together: which routines are recorded
since the last instrumented line (`NowMatches`), the RDF seen last and the
values no row has spoken of for every site (`FeaturesFit`), and the same of
every row at its line (`RowFits`). A line read leaves the past of every earlier
line alone (`PastStays`). `EntriesCorrect` adds `EntryInv`: an open chain was
entered by the first routine recorded, with the features it will be printed with.

`ReadersProofs`:

* `CoversCorrect`, `RemapCorrect`: what `MCReaders` states of every small
  routine, for all (from `PageRemapProofs`): which pages hold the bytes of the
  range, which pages one remap changes, and where the two differ.
* `MissedCorrect`, `SizesCorrect`: every counter of the scorer is the number of
  the lines it stands for (`ScoreInv`).
* `IdsCorrect`: from `PassInv`; a process keeps what it read
  (`NumberingKeeps`).
* `EmbeddedCorrect`: for every order of builds, tree, and calls made and deleted
  in between: a call both passes found has one number in both (`SiteNumbered`). The walk is a recursive
  function, and that it has the values its equation says is not given: the
  lemma `RecursionExists` derives it from the well-foundedness of the naturals
  (`LeastExists`), and `WalkReaches` follows the walk down to its leaf.

Assumptions on constants the proofs asked for, each true of the code: the sets
the scorer reads are finite; a site is not the value
for none, a tree not the one for none; the strings of a map's sets are distinct.

Only model-checked: liveness (`EnteredRuns`), which is out of the prover's
reach, as is `ENABLED`, and `CopiesIntact` as a property of its own.

## Not modelled

* Of the probe tool: failing malloc, unloading of libraries, environment
  variables, the trace mode (it prints) and the builds without prediction.
  Four earlier versions of the tool lie beside it (`decrypt_probe.*.cpp`); they
  are not built by any script.
* Malformed input lines of any parser.
* C++ invokes, RDF flags and argument tests in the embedding: with `numArgs = 0`
  no parameter is ever reported and no RDF set reaches a row, so no learned tree
  has such a test and no run reaches the folding of one. The rewriting of IR itself.
* The approved list search in mode `called`: it stops with a NameError, as line
  115 uses a file name that branch never sets.
* `plot_unveil_tree_structure.py` and `learnModel.py` beyond the ranks they
  print: learning is scikit-learn's and numeric.
* The thunk generator, the Pin call tracer, the drive and result scripts: one
  pass over their input, no state between lines that a later line reads.
* `libc/statically_reachable_funcs.h` is a generated table of 29,854 lines, by
  far the longest file of the repository; its content is the call graph that
  `StaticReach` takes as arbitrary. `susan` and the other benchmark directories
  hold third-party programs. The modules stand for a small share of all lines
  for this reason; what is left out of the project's own code is listed above.

## Plan

Done: the probe tool at two grains, its pages with several threads, the trace
parser and the numberings, the approved list, the static walk, the call stack
parser, the scorer and the two passes. What is left:

1. The parts of modelled programs that are left out and change state: the trace
   mode and the builds of the tool without `BLANKIT_PROBE_PREDICT`.
2. Unloading: what `copied_funcs` and the lists hold when a library is loaded a
   second time, once it is known what Pin does.
3. Proofs: `RowsMatchLog` and the numberings say what the first run does; which
   part of it a later run keeps, with `IdsUnique` refuted, can be stated weaker
   and proved.
