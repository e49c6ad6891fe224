# DEVILKING OS: a TLA+ verification project

DEVILKING OS is an Android terminal: typed, spoken and scripted commands are
answered by reflexes, by registered tools, or by a language model running on the
device; an accessibility service turns the volume keys into a walkie-talkie
button and taps the screen on command. The program's own code is Kotlin under
`app/src/main/java/com/devilking/os` and `app/src/main/cpp/native-lib.cpp`;
`app/src/main/cpp/llama` is a vendored copy of llama.cpp. Of that library the two
parts are modelled that every generation of this program goes through and that
are hard to test: the thread pool that computes a graph and the key/value cache
with `llama_decode`. The rest of it is external. The repository has no design
document: what the code promises is in its comments and in the messages it
prints, and those are what the properties quote. Paths below leave out the
common prefix.

## Inventory

| Component | State it keeps | Operations | Interacts with | Hard because |
|---|---|---|---|---|
| `DevilkingService`, key filter | press times, `isMicTriggered`, the posted runnable, static `isHijackEnabled` | `onKeyEvent`, `micRunnable`, `onServiceConnected`, `onDestroy` | terminal (broadcasts), executor (`hijack on/off`) | timeouts race releases; the filter changes under a pressed key; rebinds |
| `MainActivity`, voice | `speechService`, button text | receiver, button, Vosk callbacks, injection of a model | service, `AcousticShield`, `processInput` | callbacks of old sessions; activities come and go |
| `LocalAICore` and `native-lib.cpp` | `brain.gguf`, `isModelLoaded`, global `model` | inject, lazy load, generate | terminal (coroutines), llama.cpp | unlocked threads; crashes inside a file replacement |
| `RegexRouter` | `memory.json`, macros | `route`, `learn`, `matrix.init`, fuzzy lookup | `SystemExecutor`, `SettingsActivity` | rewrite in place; near matches |
| `MainActivity`, command loop | coroutines of `uiScope` | `processInput`, agent, skill scripts | router, `CommandRegistry`, core | the agent's reply is fed back into the loop |
| `DevilkingService`, spider and sniper | `activeMatrixCache` | crawl, strike, WhatsApp macro | executor | concurrent refill, stale coordinates |
| `IntentVault` | `intent_vault.json`, `matrix` | `lockRoute`, `teleport`, load | terminal | rewrite in place, deletion of a corrupt file |
| `AcousticShield` | model directory, `isArmed` | inject, auto-load, status | terminal | old model deleted first |
| ggml thread pool (`ggml-cpu.c`) | graph count, barrier, chunk counter, pause and stop flags | `ggml_graph_compute`, pause, free | `llama_decode` | lock-free meetings of threads that also sleep |
| KV cache and `llama_decode` | cells, their books, the head | decode, `seq_rm`, `seq_cp`, `seq_keep`, `seq_add`, `seq_div` | `native-lib.cpp`, thread pool | trial and retreat, failure half-way, deferred shifts |
| `SemanticEye`, `VaultManager`, `AIContext`, `SystemExecutor`, OCR fallback | little or none | one platform call each, or no caller | executor, service | - |

What makes each part correct:

* the key filter: one press, one countdown or one open microphone; the microphone
  opens only under a finger that held long enough, and is cut when it lets go;
* the voice terminal: no recorder out of reach, and the button tells the truth;
* the neural core: the model in RAM is the one injected last, generations end and
  leak nothing, whatever injections race with them;
* the router: the nearest reflex answers, what was learned is kept and answered;
* the command loop: errors are not executed, and a destroyed terminal falls quiet;
* the spider: what it leaves in the map is what is on the screen, and a strike
  finds what is there;
* the stores: what was stored whole is found again after any death;
* the thread pool: each part of a graph is computed once, in order, by one thread,
  and every call returns;
* the cache: its books are right, nothing is refused that fits, a failed decode
  costs no more than the ubatch that failed, keys stand where positions say.

`PROJECT.json` lists every hazard with its line and the properties aimed at it.

## Modules

| Module | Models | Run(s) |
|---|---|---|
| `VolumeHijack` | key filter, countdown, `hijack on/off`, life of the service and the process | `volume_hijack` |
| `VolumeHijackProofs` | its theorems | - |
| `VoiceTerminal` | button, speech service, callbacks, injection, life of the activity | `voice_terminal` |
| `WalkieTalkie` | `VolumeHijack` and `VoiceTerminal` joined by delayed broadcasts | `walkie_talkie` |
| `NeuralCore` | `LocalAICore` and `native-lib.cpp` on racing threads | `neural_core` |
| `FuzzyDistance` | `calculateFuzzyDistance`, cell by cell | `fuzzy_distance` |
| `RegexRouter`, `MCRegexRouter` | `route`, `learn`, `matrix.init`, lookup, macros, whitelist | `regex_router` |
| `TerminalAgent`, `MCTerminalAgent` | `processInput`, `CommandRegistry`, agent, skill scripts | `terminal_agent`, `agent_signal_lost` |
| `SpiderCache` | events, crawls, the shared map, strikes | `spider_cache` |
| `IntentVault`, `AcousticShield` | the two stores | in `LauncherStores` |
| `LauncherStores`, `MCLauncherStores` | both stores over activities and deaths | `launcher_stores` |
| `GraphExecutor` | what `ggml_graph_compute` promises | refined in `threadpool` |
| `Threadpool`, `MCThreadpool` | `ggml_graph_compute` on a pool of threads | `threadpool` |
| `KvCells` | the methods of `llama_kv_cells`, as operators | in `kv_cache` |
| `KvCache`, `MCKvCache` | `llama_kv_cache` and `llama_decode` | `kv_cache` |
| `WalkieTalkieProofs` | theorems of `VoiceTerminal` and `WalkieTalkie` | - |
| `NeuralCoreProofs`, `SpiderCacheProofs`, `LauncherStoresProofs`, `ThreadpoolProofs`, `KvCacheProofs` | theorems of the module they are named after | - |
| `RegexRouterProofs` | theorems of `RegexRouter` and `FuzzyDistance` | - |

How state and actions correspond to the code:

**VolumeHijack.** Every handler runs on the main thread and is one step. The
finger is state of its own (`downSince`, `upSince`), apart from what the service
recorded (`volDownPressTime`, `volUpPressTime`), so the two can disagree; a key
press while the filter is off, or no service is bound, goes to Android
(`PassThrough`). `micCallbacks` are the posted runnables of the bound service and
`strayCallbacks` those of destroyed ones, which still broadcast. The switch has
three copies: the static flag, the preference as the process sees it, and the
preference on disk (`FlushPrefs` is the writer thread of `apply()`). `effect` is
what the last step did to the outside. `disturbed` is a history variable: the keys
whose current press saw the filter change. The properties about whole presses
exclude those, because there the code does misbehave (see Observations). The wall
clock of the presses and the uptime clock of the Handler are one clock, `now`: a jump
of the wall clock under a pressed key is left out.

**VoiceTerminal.** The speech service is external and modelled as `MainActivity`
uses it: `startListening` is ignored while it holds a thread, `stop` joins the
thread, which posts its final result; results arrive later through `mainQueue`.
Sessions are numbered, which the code does not do, so that a late callback can be
recognised by the properties.

**WalkieTalkie.** `MIC_START` and `MIC_STOP` wait in a queue until `Deliver` hands
them to whatever activity is registered then. VOLUME_UP, the preference flush,
injections and failing recorders are left out: they are checked in the two
components and neither open nor cut a microphone here.

**NeuralCore.** A step is what happens between two accesses to what threads share.
Files are inodes, so two injections that create the same path write over each
other while one that was deleted lives on for its writer. A stream breaks, or the
file cannot be created at all (`StreamFails`). A load looks whether the path can be
read (`OpenModel`), then llama.cpp opens it again (`LoadFile`), and the pointer is
assigned when it is done. `model` is read three times by a generation (test, context,
vocabulary), each a step; llama.cpp may fail to make a context for any model, and a
null vocabulary kills the process (`NullVocab`). `overlap` and `broken` are history
variables.

**FuzzyDistance.** The two arrays with their swap and stale cells, against the
definition of edit distance (reachability by single edits).

**RegexRouter.** A phrase is known by its length and its distances. Every
variation of a reflex is an item of its own, in file order, as the nested loops
see them. `writeText` is two steps, truncate and write, because the process can
die in between.

**TerminalAgent.** The tools are those of `setupCommandRegistry`, in order. A
reply carries its text and what stands before its first bracket. Coroutines
belong to `uiScope`; a cancelled one ends where it suspends next. What is printed
is not modelled. Inputs are trimmed before they are compared, so the three prefixes
that end with a space match only with text behind them (`NeedsText`).

**SpiderCache.** `onAccessibilityEvent` and strikes run on the main thread, crawls
on background threads. A crawl reads the screen node by node while it changes;
`clear` and `putAll` of the `ConcurrentHashMap`, and the strike's iteration over it,
go entry by entry. `faithful` is a history variable: the last crawl to start had
the map to itself, found a root, and no event since was ignored. `OwnLines` are the
labels that begin as the terminal's own lines do: the deep scan skips them, the
crawl and the map do not. Two nodes with one label are left out.

**IntentVault.** A route is the sequence of its fields between bars. `writeText` is
two steps, as in `RegexRouter`. `kept` remembers what was locked, except where a
death hit the writing.

**AcousticShield.** The directories `am` and `conf` stand for the files of a model,
at the top of the archive or in a folder; each is opened and completed in two
steps. Injections overlap, fail anywhere, outlive their activity (`mine`) or die. Of
an open file an injection knows whether it is its own, shared with another that
opened the same name, or deleted by one that started since; what is written into a
shared file is whole or not, and into a deleted one is lost.

**Threadpool.** A step is one access to an atomic or one critical section. Thread 0
is the caller. A worker polls, sleeps on the condition variable (which may wake it
for nothing), or sleeps in the pause loop; `n_graph` carries the graph count and
the number of active threads in one atomic, as in the code. A node is a view, an
element-wise operation, or a product that is cut into chunks. The abort callback
may answer yes after any node. `computed` is a history variable. This
program attaches no pool, so each graph gets one of its own, which is freed after
it: those are the behaviours with one `SetGraph` before `Free`.

**GraphExecutor** knows no threads: a graph is submitted, its parts are computed
once each, a node's only when all nodes before are complete, it may be cut short
at a node that nobody has passed, and the call returns when everything up to there
is complete. `Threadpool` implements it under the refinement mapping in the
instance `Executor`: the phase is the caller's pc, the width the clamped number of
threads, and `upto` the abort point or the length of the graph.

**KvCells, KvCache.** A cache is a record with the cells and the two redundant
books; each method is an operator from record to record, with the order of its
updates. `prepare` is a step per ubatch (`Place`) and one step back (`Unwind...`);
each ubatch is then placed again and computed, or fails and is removed. `rope`
remembers to which position the key of a cell was rotated, which the code cannot
see; the positions move at once and the keys at the next decode. A batch continues
one sequence with generated positions, as `llama_batch_get_one` makes it. An
assertion that ends the process is the phase "dead".

## Runs

Passing runs:

* `volume_hijack`: `HardwareLock`, `MicNeedsFinger`, `HijackInSync`,
  `MicStartNeedsHold`, `PhantomTapNeedsLongPress`. The hold time is 2 so that presses shorter, equal and
  longer exist; the clock runs to 5, which leaves room for a second press after a
  first one that was held; one stray runnable.
* `voice_terminal`: `EveryRecorderCanBeStopped`, `RecordingIsShown`,
  `ListeningIsReal`. Two activities, two engines, three sessions and two posted
  callbacks: enough for a callback to outlive its session and its activity.
* `walkie_talkie`: `HotMicIsKnown`, `LettingGoCutsTheMic`. Two broadcasts in
  flight, two activities, two sessions; the two presses the clock allows are
  enough for a start to be overtaken by the next press's messages.
* `neural_core`: `InRamIsOnDisk`, `ContextsAreFreed`, `GenerationEnds`. Two injections, one generation, two files, two cores; a file
  is two chunks and passes the 50 MB threshold with the second; the cap on tokens
  is scaled to 1.
* `fuzzy_distance`: `RowsAreDistances` for all pairs of strings of length up to 3
  over two letters.
* `regex_router`: `LookupIsNearest`, `LearnedIsKept`. Five phrases at distances
  around the typo budgets of two length classes, three items.
* `terminal_agent`: `DestroyedTerminalGoesQuiet`, with one agent, two script
  coroutines, a script that runs another, and one reply of each kind.

* `spider_cache`: `QuietCacheIsScreen`, `NothingSteadyIsMissed`. Two crawls and two
  events, so that crawls overlap and one is overtaken; a label that is mapped and one
  that is not, because it cannot be clicked, and that the deep scan takes for a line of
  the terminal's own; targets that one label, the other or both contain; two places, so
  that a label can move.
* `launcher_stores`: `VaultMatchesFile`, `LockedRouteIsTried`, `GoodModelRearms`. A
  seeded and an unseeded name, two routes, two injections at a time of three kinds
  of archive: at the top, in a folder, and without a model.
* `threadpool`: `ParametersAreQuiet`, `ChunkHasOneOwner`, `WorkBufferIsStable`,
  `InputsAreComplete`, the refinement `ImplementsExecutor`, and with fairness
  `CallsReturn`. Three threads, of which one, two or all (asked for as four) are
  wanted; two graphs in succession, so that the parameters change under late
  workers; products with more chunks than threads and with fewer, a view, an
  element-wise node. The factor 4 of the chunking rule is scaled to 1.
* `kv_cache`: `BooksBalance`, `RefusalMeansFull`, `DecodeOutcome`,
  `KeysMatchPositions`, `DecodeLeavesNoHole`, `DecodeReturns`. Three cells, two
  sequences, four positions; ubatches of two tokens and batches of one, three (two
  ubatches) and four (too long); windows of 0 and 2; edits of the beginning and of
  the end of a sequence, a shift by -1, a division by 2. A shift of the keys may fail
  before it starts or between two layers. Symmetric in the sequences.

One run shows a disagreement between the code and what it says of itself, quoted
in `PROJECT.json`: `agent_signal_lost`, an error text of the core is executed as a
command.

Deadlock is checked in every run but `fuzzy_distance`, whose loops end. In most
modules the process can always be killed, so this says little there.

## Fairness

* `WalkieTalkie`: weak fairness of the delivery of broadcasts, which Android
  guarantees to a live process.
* `NeuralCore`: weak fairness of the steps of a generation, which runs on a thread
  of its own; none for injections, which depend on the stream's source.
* `TerminalAgent`: weak fairness of each coroutine; a generation returns by
  `GenerationEnds`.
* `Threadpool`: weak fairness of every thread of the pool and of the caller inside
  a call, which the operating system's scheduler gives. Nothing is assumed of the
  caller between calls, and no wake-up but those of `ggml_cond_broadcast`.

That a decode ends is not a fairness property: `DecodeReturns` says that every step
of a decode lowers a measure that stays non-negative, and the deadlock check says
that there always is a step.

## Proofs

The theorems hold for every value of the constants under the assumptions that the
modules name: the hold time and the bounds are positive, sizes and positions are
natural numbers, node lists are well formed (`GraphAssumption`), the ranges and
divisors of an edit are what the callers' assertions allow (`EditAssumption`), a
seeded route is one of the routes (`SeedAssumption`), and the like. Each says what
the code's types and callers give; TLC evaluates them on the instances of the runs.
In every module the theorem "`...Invariant`" is the inductive invariant, with one
case per action, and the properties follow from it.

**Key filter** (`VolumeHijackProofs`). None of the properties is inductive on its
own. That the microphone opens only under a finger rests on the lock (a posted
countdown is due exactly one hold time after the recorded press) and on what the
recorded press means: for a key that is not disturbed, a recorded press time is no
earlier than the finger, which is still down, and the filter is on; and an
undisturbed VOLUME_UP that is down under the filter has a recorded press. That is
`PressInv`; with `TypeOK`, `HardwareLock` and `HijackInSync` it makes `IInv`. The two
action properties follow from it.

**Voice terminal and walkie-talkie** (`WalkieTalkieProofs`). A recorder can be
stopped because the terminal never forgets an engine it built; the button is right
because every posted callback belongs to a session that is over, or to the current
one. `VoiceInvariant` is proved for the terminal with broadcasts from any key
filter, so it is used again in the composition, where `WalkieInvariant` adds what
the queue of broadcasts says about the filter's lock.

**Neural core** (`NeuralCoreProofs`). For any number of threads: a context belongs
to the generation that made it until that one frees it, and files are reached by
name or by the writer that holds them. `InRamIsOnDisk` needs in addition that
without overlap there is one injection at a time between deletion and load.

**Router** (`RegexRouterProofs`). `LearnedIsKept` needs that the draft of a "learn"
still has all that was learned, and that an absent file never had any; a torn file
may have lost it, but nothing is appended to one. `LookupIsNearest` is about the loop
over the items, a fold: `Best` says what the loop knows when it has seen a set of
items, `BestStep` that one turn leads from one such set to the next, and so `Best` is
the only solution of the fold's recursion (`LookupIs`). `NearestIs` identifies it with
the reference definition of the property, the first of the nearest.

The typo distance (`FuzzyDistance`, same proof module) is proved for strings of any
length. `Within(s, d)` counts the edits up, so what is a matter of strings becomes a
matter of numbers: `CellFromThree` gives the three ways to a cell, and `NoOtherWay`,
by induction over the number of edits, says that edits that lead to a string with a
last character either lead to what is before it, or replace, insert or keep it.
`NextCell` puts both together, `Edges` has the first row and column, and
`TableInvariant` carries them through the two arrays, the row that is being written
and the finished one. `DistanceIsOne` shows that a distance always exists and is
unique, and none only for equal strings, which is what `RouterAssumption` asks of
`Distance`.

**Spider** (`SpiderCacheProofs`). For any number of crawls: a crawl that has the map
to itself has read a screen that changed only where an event is still pending. A
strike's iteration passes a label that stays, or the deep scan does; which labels are
the terminal's own, and may be missed, is a parameter.

**Stores** (`LauncherStoresProofs`). The two stores share nothing but the death of
the process, so the invariant is the conjunction of the two, and a step of one
leaves the other's part alone.

**Thread pool** (`ThreadpoolProofs`). The invariant says where the team is: all
threads that have seen the current graph are in one stretch between two barriers,
or some are in the next while the others still leave the barrier in between, which
has been reset but not yet noticed by them. The barrier's counters are the numbers of
threads that have arrived (cardinalities of sets of threads). From it follow the
four invariants, and the refinement: every step is a step of `GraphExecutor` or a
stutter. The refinement is proved step by step for the safety part, which is all
that `GraphExecutor` states.

**Cache** (`KvCacheProofs`). What the code does in loops over cells, tokens and
sequences is a fold in the model, and the library's theorems about folds take an
operator, which no installed prover instantiates. So the folds are unrolled here:
the library defines a fold as a function on the subsets of a finite set, `FoldExists`
and `FoldInduction` prove, by well-founded induction over those subsets, that there is
one such function and that what holds for nothing done, and is kept by one turn, holds
at the end. On that stand, in order: every method of `llama_kv_cells` keeps the books
(`GoodCaches`), although in the middle of a method they are wrong (`RawCaches`); every
loop does, and each cell comes out as the body of the loop leaves it; `find_slot`
finds distinct usable cells, and fails only when there are too few; `apply_ubatch`
writes the tokens and takes nothing but older positions from the other cells; the way
back gives each cell of the trial what the stack remembers. `KInv` is the inductive
invariant of the decoder on top. The properties need more, each its own:

* `RefusalMeansFull`: `CellsTaken`, what the trial has placed so far took as many
  empty cells as it has tokens, or there were too few of them.
* `DecodeOutcome`: `PositionsAreNew`, below the tokens of the trial there is nothing
  of their sequence at or above the first position, in the cells and in what the stack
  remembers; and, without a sliding window, `Steady`: the cells that were occupied are
  as they were, the slots are disjoint and were empty.
* `DecodeLeavesNoHole`: `TrialTells` says what the trial has made of every cell so far,
  told from what the cells were before and from the recovery stack alone: a cell has
  the position it was last written with, and of the sequences it had then those that
  no later slot has overwritten above it (`Tells`; a slot remembers cells that are told
  the same way). A sequence so has the positions it had or got, above all that it lost,
  which is an end of an interval without a hole (`TellsHeld`, `TellsWhole`). While the
  ubatches are computed a cell may be ahead of them, purged by a trial that was taken
  back; it is ahead up to the next slot that it is in, and no further (`Ahead`). Hence
  every slot overwrites what it overwrote on trial, a ubatch purges nothing new, and
  at the end no cell is ahead (`AheadNext`, `AheadEnds`). Without a window nothing is
  overwritten at all, and this holds after every outcome.
* `KeysMatchPositions`: `KeysAreRight`, a cell that was occupied before keeps a right
  key through the trial, and the tokens that are computed get theirs. Keys that a
  division or a torn shift has spoilt (`Spoilt`) are tracked, and never pass for right.

Every safety invariant and action property of the passing runs is proved, and so is the
refinement. What stays with TLC are the liveness properties (`LettingGoCutsTheMic`,
`CallsReturn`, `GenerationEnds`, `DestroyedTerminalGoesQuiet`): they need fairness and ENABLED, which is out of the prover's reach.

## Observations

What the models show beside the run above, and why some properties are restricted:

* Letting go early cancels the countdown only if the filter was not switched off,
  nor the service destroyed, under the finger (`DevilkingService.kt:69`, 90).
* `injectFromStream` ignores the answer of `loadModelFromJNI` and reports a
  stabilized core (`LocalAICore.kt:38`); `checkCoreStatus` looks at the length only
  and calls part of a file ready (`LocalAICore.kt:22`).
* A generation reads the model a third time without a test (`native-lib.cpp:55`): if an
  injection whose core is rejected assigned null since the context was made, the
  process dies (`NullVocab`).
* A phrase that is taught again keeps its first answer (`RegexRouter.kt:251`).
* The spider's guard (`DevilkingService.kt:152`) contradicts the comment at line
  129, "Spider runs regardless of hijack state"; with the switch off strikes use an
  old map. The slower of two overlapping crawls leaves an older screen, or a mixture.
* The deep scan skips a text that begins as the terminal's own lines do
  (`DevilkingService.kt:376`), the map does not (line 358). Such a label is tapped while
  a crawl has it in the map, and missed otherwise: `NothingSteadyIsMissed` excludes it.
* The routes seeded by `loadVault` are written `package/class`, while `teleport`
  splits at a bar: none of them is found. `lock route` cuts at the last space, and
  the wiretap prints its pair with spaces.
* After a failed extraction the banner says ARMED for any non-empty directory
  (`AcousticShield.kt:21`).
* A prompt of more than 512 tokens, the size of context and batch, ends the process
  in an assertion (`llama-context.cpp:1586`).
* `pos_div` accumulates the shift with the opposite sign of `pos_add`
  (`llama-kv-cells.h:451`, 420); `KeysMatchPositions` leaves divided cells out.
* A shift of the keys rotates them in place, layer by layer (`llama-kv-cache.cpp:1578`,
  1617). If its graph fails or is aborted (line 686) the shift stays pending, so the
  next decode rotates the layers that were done a second time. `KeysMatchPositions`
  leaves these cells out (`Torn`) until they are written again.
* A failed ubatch is removed for the first sequence of each token only
  (`llama-context.cpp:1689`), so tokens of several sequences would stay in the
  others. Batches of the model have one sequence, as in this program.
* Under a sliding window a trial purges positions that its retreat does not put back
  (`llama-kv-cache.cpp:609`, 964), so a refused batch costs them, while
  `include/llama.h:938` says that the state is restored: with five cells, a window of
  three and ubatches of two, the removal of the end of a sequence and two decodes
  suffice. A second trial starts from what the first has purged for nothing, and a
  decode that then succeeds may leave a hole: with 23 cells and four sequences, four
  tokens of a ubatch overwrite masked cells of one sequence, which unshares cells of a
  second, which frees others in the second trial; the run's instance is too small for
  it. A pending shift of a cell that a trial overwrote is lost in the same way, since
  `cp` and `set` do not copy it. `DecodeOutcome` and `KeysMatchPositions` are therefore
  stated for caches without a window, `DecodeLeavesNoHole` for these and for the first
  trial.
* `seq_cp` into a cell that has the sequence already counts it twice; only an
  assertion stands in the way.

## Not modelled

* Vosk, ML Kit and Android are external: only what the code relies on.
* llama.cpp beyond the thread pool and the cache: tensor kernels and backends
  (numeric code; the GPU backends, by far its largest files, are not built here),
  model loaders and architectures, tokenizers, samplers, tools and tests. They are
  most of the repository's lines, and have no state machine to check at a size TLC
  can enumerate.
* Of the thread pool: the OpenMP build, in which OpenMP's runtime takes the place of
  waiting, kickoff and barrier (the option is on by default and takes effect if CMake
  finds OpenMP in the NDK; the node loop, the abort point and the chunk counter are
  the same code there); weak memory (steps are sequentially consistent), a pause by another thread during a graph, and the wrap of the 16-bit
  graph count, which would need 65536 graphs between two looks of a worker.
* Of the cache: `llama_kv_cache_iswa`, which a model with a sliding window has: two of
  these caches, one of them windowed, where either may refuse a batch, and where a
  trial with equally long ubatches follows one that was refused
  (`llama-kv-cache-iswa.cpp:126`). What is said for a window is said of the class
  `llama_kv_cache` alone, with one trial before a refusal. Also several streams, 2D positions, chunked and symmetric windows, saved
  states, tokens of several sequences.
* The legacy classes (`terminal/SystemExecutor`, both
  `DevilkingAccessibilityService`s, `execution/CommandExecutor`) have no caller and
  are not in the manifest. `AIContext`, the result of `VaultManager`, and the OCR
  fallback have no user.
* Layout, wording and formatting; executor branches and macros that make platform
  calls and keep no state (ghost typing, the WhatsApp macro's six timed calls).

## Plan

Nothing that the prover can reach is left open among the properties. A next step
would widen the cache: tokens of several sequences in a batch, several streams.

`VTypeOK`, `NTypeOK`, `RTypeOK` and `STypeOK` state the types the proofs start from;
they are proved, and no run of their own is spent on them.
