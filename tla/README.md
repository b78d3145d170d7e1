# A TLA+ model of the Provallo nginx extension

This directory holds a formal model of the control logic of the Provallo engine
and its nginx module: TLA+ modules, the TLC configurations that check them on
small instances, and theorems about them whose proofs TLAPS checks. Each module
is a translation of the source; where the source and a comment of it disagree,
the module follows the source.

Paths below are relative to the repository. `PE` stands for `provallo_engine`.

## 1. The system

The repository is an nginx add-on around a classification engine. Most of its
lines are numeric code (trees, splits, networks, matrices). Around it are the
parts in which order, sharing and failure matter.

| Component | State | Operations | Interacts with |
|---|---|---|---|
| HTTP request parser, `PE/util/safehttp.*` | one buffer edited in place, a state, offsets into the buffer, a verdict | `add_bytes` (drives the table `fsm[]`, then splits the request line), `get_value`, `get_body`, `get_uri` | its caller, which delivers a stream in chunks |
| Query builder, same file | strings | `build_query` | writes what a parser must read |
| Policy monitor, `PE/util/monitorpolicy.*` | registered policies, visitors per resource, default actions, runner thread, mutex, condition variable | `register_policy`, `unregister_policy`, `start`, `stop`, `run`; `register_policy_visitor`, `set_actions`, `notify_all`, destructor | client threads, the runner thread, the visitors it calls |
| Ensembles, `PE/decision_engine/classifier.h` | vectors of base classifiers and of errors, paired by position | `posterior`, `classify`; filled by the two constructors below | read by every caller of a trained classifier |
| AdaBoost training, same file | a static pointer, a static mutex, the two vectors, the threads | `init_boost`: start threads, train, push, read weights, join | one thread per base learner |
| Random forest training, same file, with `dataset.cpp`, `classdist.*` | static pointers into the forest being built, a shared table of predictions, a mutex, the global error | the constructor: draw, train, store, test out of bag, sum up, join | one thread per tree |
| nginx worker, `ngx_provallo_interface.c`, `PE/helpers/nginx_helper.*` | process-wide counters, one static page buffer, the requests | status handler, body, upstream and JSON filters | nginx's event loop, which sends a page in several turns |
| nginx configuration, `ngx_provallo_interface.c` | location configurations | create, merge, set handlers | nginx at start-up |
| Pipelines, `PE/decision_engine/pipelinebuilder.*` | per pipeline a vector of raw stage pointers and one of those that are pipelines themselves | three ways to add a stage, remove, search, count, destroy | the stages, which own nested pipelines |
| Text models, same file | vocabulary and counts with a map ordered by hash; term and document frequencies in parallel vectors | fit, transform, add a document, save, load, copy, clear | the trainer |
| Statistics collectors, `PE/statistics` | two sample buffers, a map of latest values, columns frozen by the first query, a static string | one sampling loop per class of table, normalise, build SQL, classify | `/proc`, the data layer |
| Data layer, `PE/data` | last row ids, caches, database handle | insert, report, quota, archive | SQLite, the packet filter |
| Packet filter, `PE/helpers/netfilterhelper.*` | learnt ports, throughput table | callback, dissection, attribute loop | netfilter queue, the data layer |
| Process watcher, `PE/util/procwatcher.h`, `safe_queue.h` | queue of processes, last process id | constructor, `watch`, destructor | inotify, `/proc` |
| Remote memory glue, `PE/glue` | two pools of remote memory, saved code and registers | `init`, `allocate`, `invoke` | ptrace, the process it is attached to |
| k-d tree and kNN, `PE/decision_engine/kdt.h` | tree, bounded priority queue | build, query | the trainer |
| Periodic stimuli, `PE/decision_engine/stimuli.h` | flags, mutex, condition variable, timer | start, stop, signal handler | no caller in the repository |
| Numeric code, `PE/decision_engine` | real matrices | training and classification | everything above |
| Utilities, parsers, vendored code and data | | | |

What is hard in this code:

* **Order of bytes and chunks.** The request parser resumes at any byte.
* **Threads.** The policy runner against its clients; one thread per learner or
  tree, which reach shared state through static pointers; calls of `watch` that
  share a queue locked for one operation at a time.
* **Waiting.** `stop` joins a thread while it holds the mutex that thread needs;
  `watch` walks through process ids modulo their number.
* **Callbacks.** An nginx worker interleaves the callbacks of many requests, and
  a page already handed over is still read from a buffer others overwrite.
* **Failure and restart.** Any statement of the data layer may fail and the packet
  filter goes on; row ids are remembered by a process, rows outlive it. Any
  request to ptrace may fail with a foreign process half rewritten.
* **Lifetime.** Policies are shared pointers that delete their visitors; pipelines
  own stages through raw pointers in two lists; static pointers outlive the
  objects they were taken from.
* **Parallel vectors.** Words and counts, terms and weights, columns and values,
  samples of one tick and the next are paired by position only.

What makes each component correct:

* parser: offsets never leave the buffer; headers are delimited; the result does
  not depend on how the stream was cut; the body is what was sent; a verdict is final;
* policies: at most one runner; a pass sees a fixed list, calls everyone it should
  exactly once, and nobody deleted; `stop` returns;
* ensembles: learners and errors are paired; a learner joins once; nothing changes
  after the constructor; each constructor fills its own ensemble;
* nginx worker: counters count each request once; a client receives its own page;
* pipelines: the two lists agree; a removed stage is the one deleted;
* text models: a count belongs to its word, a weight to its term; a model that was
  saved comes back;
* collectors: values line up with columns; a derivative is of two consecutive samples;
* data layer and packet filter: an attribute is linked to the entry of its packet,
  across failures and restarts;
* watcher: every process is handed out once; nobody pops an empty queue;
* glue: the process gets its code and registers back; a block is inside its region.

Several of these do not hold. The modules follow the code, and the properties say
exactly when a promise is kept and what happens otherwise (section 3).
`PROJECT.json` lists every hazard at its line, with the properties that cover it.

## 2. Modules

| Module | Models | Proved in | Checked through |
|---|---|---|---|
| `HttpParser` | `safe_http_parser` | `HttpParserProofs` | `MCHttpParser` |
| `QueryBuilder` | `query_builder` (operators) | `HttpParserProofs` | `MCHttpParser` |
| `HttpExchange` | the parser and what it is sent: well formed requests, queries of the builder | `HttpParserProofs` | `MCHttpParser` |
| `PolicyManager` | `policy_manager`, `monitor_policy` | `PolicyManagerProofs` | `MCPolicyManager` |
| `Ensemble` | what `posterior` needs of an ensemble (abstract) | | through the next two |
| `BoostTraining` | `adaboost::init_boost` | `BoostTrainingProofs` | `MCBoostTraining` |
| `ForestTraining` | constructor of `random_forest`, `randomSubsetOob` | `ForestTrainingProofs` | `MCForestTraining` |
| `NginxWorker` | status handler, filters | `TrafficProofs` | `MCNginxWorker` in `MCTraffic` |
| `PacketFilter` | `netfilter_helper` with the inserts of `mini_dal` | `TrafficProofs` | `MCPacketFilter` in `MCTraffic` |
| `Pipeline` | `pipeline`, `pipeline_stage` | `PipelineBuilderProofs` | `MCPipeline` in `MCPipelineBuilder` |
| `HashedBagOfWords`, `Tfidf` | the two text models | `PipelineBuilderProofs` | `MCTextModels` in `MCPipelineBuilder` |
| `StatCollector` | `stat_collector`, `proc_collector` | `HostProofs` | `MCStatCollector` |
| `ProcWatcher` | `proc_watcher`, `safe_queue` as it uses it | `HostProofs` | `MCProcesses` |
| `RemoteAllocator` | `remote_allocator`, `invoke` and its guards | `HostProofs` | `MCProcesses` |
| `SeqFolds` | nothing of the program: facts about the fold of a sequence | itself | |

A module of proofs extends every module it speaks about. `TrafficProofs` holds those
of what handles traffic, `HostProofs` those of what looks at the host, and
`PipelineBuilderProofs` those of the three parts of `pipelinebuilder.*`; the modules
that share one prefix their specifications (`BagSpec`, `TfidfSpec`, `FilterSpec`,
`StatSpec`, `AllocatorSpec`).

Three runs group components in a similar way: `MCTraffic`,
`MCPipelineBuilder` and `MCProcesses` put components side by side that share no state.
A behaviour of theirs is one of either component, chosen at the start, so that the
states of the components add up and do not multiply.

Operators named `...Beyond`, `...Unlocked`, `...Forgets` and the like, each behind
a comment "Mutant", are plausible mistakes in the definition that follows them.
They are not part of any specification: each is put in the place of the real
definition to see that a property notices.

### HttpParser and QueryBuilder

A step is one iteration of the loop in `parse_headers`; `AddBytes` and the three
`Finish` actions are what `add_bytes` does before and after the loop. The table
`fsm[]` is the set `Fsm`: since the code tries rows in order, an `ANY` row stands
for the bytes its earlier rows do not name. `ParseNoRow` is a byte without a row.
The buffer is a sequence, edited in place as in the code (lower-casing, NULs over
delimiters), so that `get_value` can be modelled as what it is: a C-string
comparison at stored offsets. The alphabet, `tolower` and `atoi` are constants.

`QueryBuilder` is `build_query` as an operator from a request to bytes; the words
it writes are constants.

`HttpExchange` brings the two together. A well formed request is a line and a list of
headers; `HeaderBlock` writes it down as bytes, without looking at the parser, and
`DeclaredLength`, `Named` and `ValueOf` say what a peer means by it.
`RequestRecovered` compares that with what the parser answers, `BuiltQueriesRejected`
the queries of `QueryBuilder` with it. Names and values are not empty, because for
the parser they cannot be: it takes the byte behind the colon's space for the
first byte of a value even if it is the CR that ends the line.

### PolicyManager

`register_policy`, `unregister_policy` and `start` hold the mutex throughout and
are one step each. `stop` is two, `StopBegin` and `StopJoin`, because it holds
the mutex while it waits for the runner. The runner has one control point for
every place it can be interrupted: the unlocked test of `_running`, acquiring the
mutex, `cv.wait`, a notified waiter that must reacquire the mutex, and the pass,
whose loops are one step per policy, resource and visitor. Registering a visitor
with the policy the runner is looking at is a data race in the source; the model
lets it go on or bring the process down (`crashed`). Destroying a policy is
dropping the last of two kinds of pointers, the application's and the registry's.

### Ensemble, BoostTraining, ForestTraining

`Ensemble` has two actions: a learner joins, at most once, with its error; the
constructor returns, after which nothing changes.

`BoostTraining` has a series of instances constructed one after the other,
because the interesting state is what survives between them: `pThis`, a
function-local static, is bound by the first. A thread's steps are its draw,
training and test (one step, local), the two pushes with the mutex held, and the
reads of `getBeta` without it. An error is high (above one half), low (below
`lowError`) or in between.

`ForestTraining` also has a series of forests. A block under the mutex is one
step, and so is one sample of the out-of-bag loop. The distribution samples are
drawn from is modelled with the code's own cumulative sum, which decides which
samples can be drawn at all. A tree is the set of samples it was trained on and
may predict any class. The static `distribution` and table are shared by all
forests and reset by each constructor, as in the code.

### NginxWorker

A worker runs one callback at a time, so a callback is an action. A status page
is two parts. `HandlerWithBody` sends 0, 1 or 2 of them at once, `SendRest` sends
the next one from what the static buffer then holds. The filters read a chain
of buffers, which may be in a file and may be flagged; `filter_request`, which the
source uses and does not define, is a constant function. Several functions of
`nginx_helper.cpp` name variables they do not declare; they are modelled from
their text. The counters are unbounded here and 64 bits wide in the code.

### PacketFilter

The callback handles one packet at a time, and a step is what lies between two
statements sent to the database: each may fail, the data layer then catches the
error and the callback goes on, and the process may be restarted in front of each
(`Restart` clears the memory and keeps the tables). The loop of `print_stun` is
modelled with its own offsets, since they decide which attributes it reaches:
it compares the length of the attributes with an offset that also counts headers,
so the last ones are never parsed. Rows carry, besides the columns, the number of
the packet and of the process that stored them, which no code reads and the
properties compare. The row id a process remembers is that of its latest insertion;
`init_last_rowids`, which would read it from the database at start-up, has no caller.

### Pipeline

Stages are numbered in the order they are made, and a pipeline stage has a pipeline
of the same name. The state is the two lists of each pipeline and the set of
objects that are alive; deleting an object deletes what is below it, and deleting
or using what is not alive is a `fault` of a kind of its own (a search or an
addition, a count, a second deletion), behind which the model stops.
`get_number_of_stages` counts in integers where the code is unsigned; it adds what a
pipeline reports if that is "> 0", which a number below zero, wrapped, is too, and
zero adds nothing, so the test makes no difference.
`remove_stage` is modelled as written: it erases the stage from the list and then
deletes what the iterator, which now points at the successor, refers to.

### HashedBagOfWords, Tfidf

The first model keeps a vector of counts and a `std::map` from hashes to indices,
but finds a known word by the *rank* of its hash in the map; hash values are
therefore constants of the model, and so is the order of the words. The hash is any
function: `fnv1a` multiplies by a floating point constant, which leaves the 64-bit
integers from the second character on, so that different words may have one value and
are one entry then. A blank is a token, of which `reduce` leaves the empty word. The
default
constructor puts the hash of the empty string into the map and nothing into the
vectors. `add_document` reduces tokens before it looks them up, `fit` and
`transform` do not; `fit` of several documents returns after the first. `save` and
`load` act on a file of lines, with the open mode the trainer uses or the other.

In the second, a weight is represented by the word it was computed for, so that
what can be seen of the numbers is whether they sit where they belong.

### StatCollector

One table stands for the collector. Each of the ten classes has its own action,
because each samples in its own way: some once per line of the file and once more
at its end, one into a map that is never updated, some from a list that is split
or dropped depending on its length. `getNewDataPtr` exchanges the two buffers
from the second sample on; the model keeps the last three samples taken beside
the buffers, for the properties to compare with. Fields are uninitialised when
an object is made, so `Init` gives them any value.

### ProcWatcher

Each lock of `safe_queue` covers one operation, so `empty`, `front` and `pop` are
three steps of `watch`. `front` and `pop` of an empty queue are undefined, as are
two watchers that handle events at a time (they share a string and a static
buffer): the model records it and goes no further. The walk over the process ids
is a step per id, with the code's own wrap-around.

### RemoteAllocator

`invoke` is one step per request to ptrace, each of which may fail: save the code
that is to be overwritten, poke the stub, set registers, run, wait, and then the
destructors that put things back, up to the first request of theirs that fails: what
is left of the stub then is recorded in `lost`, which no code reads. The process may die at any time (`Die`), run on
when a signal is forwarded to it, and stop again by itself (`Trap`). A word of
its code, and its registers, are the process's own or those of a stub. What
`mmap` returned is never stored, and what `grow` goes by is an uninitialised
variable, of which the model chooses whether it is zero; addresses are therefore
left out, and nothing is said of where blocks lie. The repository never fills the
tables in which `find_symbol` looks for `mmap`, nor `m_thread_list`: today `create`
fails always, and the steps behind it are those of the code once they are filled.

## 3. Runs

| Run | What it shows | Bounds | Distinct states |
|---|---|---|---|
| `http_streams` | offsets stay in the buffer, headers stay delimited, what was sent is recovered and does not depend on the cuts, the body is not edited; no query of the builder is accepted | requests of up to two headers and a body, 29 bytes with what follows; other streams of a line and up to four fragments, a byte without a row in every state that lacks an `ANY` row; every query with and without token, with no body, an empty one and others; every cut, including empty chunks | 869 517 |
| `policy_manager` | passes, clients and destruction are safe; when `stop` returns and when it cannot | 2 clients, 2 thread objects, 2 policies with 2 visitors, registry of length 2, spurious wake-ups | 1 169 200 |
| `boost_training` | pairing, which instance is filled, termination, and `Ensemble` for the first | 2 instances of 3 threads | 89 937 |
| `forest_training` | complete forests, out-of-bag errors, and `Ensemble` for the first | 2 forests of 2 trees, 3 samples, 2 classes | 57 961 |
| `traffic` | worker: the counters add up, no page is older than its view, and one that nobody views behind it is its view's | 3 requests, bodies of 3 pieces, chains of 2 | 2 190 982 with the next |
| | packet filter: which entry attributes and addresses refer to, stored or not; a round trip is stored once, and not at all once that has failed | 5 kinds of packets, 3 packets, 2 lives of the process, any statement fails | |
| `pipeline_builder` | text models: counts and weights belong to their words, when the unguarded read leaves the vector, what a file restores | 7 tokens (one blank, one with a blank inside, one a number), two that share a hash and one that shares that of the empty word, 5 documents, 4 corpora, 5 calls; 3 terms, 4 calls | 753 955 with the next |
| | pipelines: leaked stages and dangling pointers are as many as removals of a stage that others follow, and nothing else leads a search, an addition or a destructor to deleted memory; the count of stages | 5 stages, nested four deep, 2 removals | |
| `processes` | watcher: delivery once and in order without overlap, balance with it; when `watch` returns | 2 threads, 3 processes, 3 process ids, 2 events a read | 208 116 with the next |
| | allocator: between two calls the process is as it was found but for what a destructor could not put back, and that stays | stubs of 8, 12 and 24 bytes over 3 words, requests of 3 and 40 bytes, regions of 16, 2 calls | |
| `stat_sampling` | what is reported of a change | ten classes of tables, 2 attributes, counters of one bit, 5 ticks, 2 queries | 513 547 |
| `bow_value`, `stat_columns`, `stat_classified`, `allocator_room` | violations, see below | as above | |

Why these bounds. The parser's table has thirteen states, and streams reach all of
them and both kinds of error; its loop treats each byte alone, so what more bytes
add is more of the same rows, and the proofs cover every length. For the policies,
a second runner, a second policy and a second client is where interference
begins; a second visitor of one resource is what makes a pass not atomic. For
training, two instances are needed to see statics survive and two threads to see
them interleave; the third makes the order of pushes differ from the order of
indices in more than one way. For the pages, two views are needed to overwrite a
buffer and a third to overwrite the overwriter's. For the log, one restart gives a
database with rows of another process, and three packets one before it and two
behind, of which the second finds the id of the first. Nested
stages below a removed one and a second removal reach every kind of fault in pipelines.
Five calls suffice to build a bag, save it, load it, add a document and transform;
the hash of the empty word lies between those of the words, so that ranks differ
from indices on both sides. A collector needs three samples before both buffers
hold one of their own, and two more show that nothing changes behind that. Three
process ids let the walk wrap around and hit its greatest id. The stubs are
shorter than the code they replace, with and without bytes left over; the last is as
long as the segment, where one word more than it has is to be saved. Two calls let
one take for the process's own what the one before it left.

`load` is enabled for files without a blank line in front of the last one, that is, for
bags in which no word makes one; behind such a line it reads words as pairs of numbers.

The bounds inside modules are `MaxPolicies` (length of the registry), `MaxChain`
(buffers of a chain), `MaxPackets` and `MaxLives`, `MaxStages` and `MaxRemovals`,
`MaxBagCalls` and `MaxTfidfCalls`, `MaxValue`, `MaxTicks` and `MaxQueries`,
`MaxFound`, `MaxEvents` and, in `RemoteAllocator`, `MaxCalls`. Runners, requests,
instances and forests are used once each, which bounds the rest. Deadlock checking
is off where the program really stops: all work is done, or, in `PolicyManager`,
`stop` is stuck.

### What the runs say about the code

Four runs are violations: the code does not do what a comment of it says.

* `bow_value`: `transform` and `fit` of the hashed bag of words are to find a token
  in the vocabulary and "add its bow value to the result"
  (`pipelinebuilder.cpp`, lines 1046 and 1107). They take the count at the rank
  of its hash, which is another word's once words have come in another order.
* `stat_columns`: "when new values appear, alter table to reflect new attributes"
  (`statcollector.h`, line 625). The columns are those of the first query, and
  `runtime_migrate_table` has no caller: rows get more values than columns.
* `stat_classified`: "trying to classify last sample"
  (`netlinkstatshelper.h`, line 325). The string that is handed to the classifier is
  static and never cleared, so that all earlier reports are classified again.
* `allocator_room`: `// assert(m_size + cap < m_capacity);` (`linuxglue.h`, line
  271). The test behind it returns 0 in exactly that case.

Several passing properties describe what the code does where a reader would expect
something else.

* `BuiltQueriesRejected`: the builder writes `User-Agent:` and `Host:` without the
  space the parser's table requires, so the two cannot talk to each other.
* `StuckForever`, `NotifyStartsNoPass`: once `stop` and the runner wait for each
  other they do so for good; the only notification in the source never starts a
  pass, so visitors are called after spurious wake-ups only.
* `OnlyFirstFilled`: the threads of every AdaBoost instance fill the first one.
  `ImplementsEnsemble` of `boost_training` therefore says that the first ensemble is
  final when the *last* constructor has returned.
* `AttributesOfPacket` and `AddressesOfPacket`: where the entry of a packet could not
  be stored, its attributes refer to the latest entry its process has stored before,
  and its addresses to the next one that is stored, both of other packets. The
  addresses in front of the first entry of a process refer to the very first entry of
  the database.
* `LostRttStaysLost`: a round trip that could not be stored is not stored later.
* `LeakForEachDangling`: `remove_stage` deletes the successor of the stage it was
  asked to remove. If that is a pipeline stage, or a last stage that is one is
  removed, `_pipelines` keeps a pointer to the deleted pipeline, which counting uses.
* `CountsOfWords` holds for words that came in the order of their hashes, and for an
  entry, which is that of all words of a hash. In any order every occurrence is
  counted somewhere (`EveryOccurrenceCounted`). `OverrunOnlyWithEmptyWord`: the
  unguarded read leaves the counts in objects of the default constructor only.
  `NothingRestored`: `save` writes no blank line where `load` expects one.
* `WeightsOfTerms` stops at the first fit: vectors are extended by each fit, never
  reset.
* `ChangeReported`: the second sample overwrites the first, and from the third on a
  derivative is zero and a difference has the wrong sign.
* `LossesBalanced`: overlapping calls of `watch` hand one process out twice and lose
  another. `WatchReturns` excludes the walk to the greatest process id, which does
  not end.
* `LeftAsFound` allows what a destructor has failed to put back: a process that was
  resumed and not waited for, or a request that failed, leaves it with words and
  registers of the stub. `DamageStays`: later calls save these as its own.

Other things met on the way are not properties but easily read off the modules: the
default actions of a policy are never overwritten (`set_actions`); `getBeta(i)` is
read at the index of a thread and not of a learner; viewing the status page counts
as a filtered request; the "uniform" distribution samples are drawn from is all
zeros, so that only the first and the last class index are drawn; the table of
predictions per sample is written per tree; `print_stun` never parses the last attributes of a message;
one socket table of the collectors is read and never updated; what `watch` finds
in its walk is discarded; the body filter matches the flagged buffers of a chain only.

## 4. Fairness

* `PolicyManager!FairSpec`: weak fairness of the runner's steps and of the join.
  Operating system threads that can run do run; a joined thread that has exited
  is joined. There is no fairness on `Wake`: neither spurious wake-ups nor
  winning the mutex is guaranteed, and none on clients, who need not call anything.
* `BoostTraining!FairSpec`: weak fairness of every thread and of the constructor.
  A thread that is waiting for the mutex waits for one that holds it for two
  pushes; weak fairness suffices because learners are pushed once per thread.
* `ProcWatcher!Fairness`: weak fairness of each watcher's own steps. There is none
  on `Call` (nobody need call `watch`) and none on `Read` (no event need arrive), so
  a watcher that blocks in `read` may stay there.

The other modules have no fairness: their operations are called from outside, and
what they promise is safety.

## 5. Theorems

For every value of the constants that satisfies the stated assumptions:

| Theorem | States |
|---|---|
| `HttpParserProofs!TypeCorrect` | the offsets stay in the buffer |
| `HttpParserProofs!HeadersStayDelimited` | stored headers are delimited |
| `HttpParserProofs!VerdictIsFinal` * | a verdict and what it covers never change |
| `HttpParserProofs!PayloadStaysIntact` | behind a well formed request line, splitting it changes neither headers nor body |
| `HttpParserProofs!SegmentationIsFree` | what is known of a request does not depend on the chunks it came in |
| `HttpParserProofs!RequestsAreRecovered` | a well formed request is accepted with its last byte, and its headers are found |
| `HttpParserProofs!BuiltQueriesAreRejected` | no query of the builder is accepted |
| `PolicyManagerProofs!TypeCorrect` * | the runner's position stays in the vector of policies |
| `PolicyManagerProofs!AlwaysOneRunner` | at most one runner |
| `PolicyManagerProofs!PassesAreIsolated` | the registry is fixed during a pass |
| `PolicyManagerProofs!StuckStopNeverReturns` | the deadlock of `stop` is permanent |
| `PolicyManagerProofs!NotifiedNeverPasses` | a notified runner never gets to a pass |
| `PolicyManagerProofs!VisitorsAlwaysAlive` | no deleted visitor is waiting to be called |
| `PolicyManagerProofs!PassesAreComplete` | a pass calls everyone it should, as often as it should |
| `ForestTrainingProofs!TypeCorrect` * | the static members are well typed |
| `ForestTrainingProofs!AlwaysForestComplete` | a forest has all its trees, and only its own |
| `ForestTrainingProofs!AlwaysOnlyOobTested` * | trees are tested out of bag |
| `ForestTrainingProofs!OobErrorAlwaysAccounts` | the error of a forest is the sum of those of its finished threads |
| `ForestTrainingProofs!TableAlwaysLargeEnough` * | the table is large enough for as many trees as samples |
| `ForestTrainingProofs!ForestIsEnsemble` | `ForestTraining` implements `Ensemble` |
| `BoostTrainingProofs!AlwaysAligned` | learners and errors are paired |
| `BoostTrainingProofs!AlwaysOnlyFirstFilled` | only the first instance is filled |
| `BoostTrainingProofs!BoostIsEnsemble` | `BoostTraining` implements `Ensemble` for the first instance |
| `BoostTrainingProofs!NeverHighError` * | no useless learner is pushed |
| `TrafficProofs!CountersAlwaysAddUp` | the counters count each request once |
| `TrafficProofs!PagesNeverOlder` | no part of a page is older than its view |
| `TrafficProofs!LatestPageAlwaysOwn` | the latest viewer gets its own page |
| `TrafficProofs!AttributesAlwaysOfPacket` | attributes refer to the entry of their packet or, if that is not stored, to the latest of their process before it |
| `TrafficProofs!AddressesAlwaysOfPacket` | addresses refer to the next entry stored, or to the first of all if their process has stored none |
| `TrafficProofs!AlwaysRttOncePerLife` | a first round trip is stored at most once per process |
| `HostProofs!AlwaysDeliveredInOrder` | calls that do not overlap deliver once and in order |
| `HostProofs!LossesAlwaysBalanced` | overlapping calls lose as many processes as they hand out twice |
| `HostProofs!AlwaysLeftAsFound` | the process is left as it was found, but for what a destructor failed to put back |
| `HostProofs!DamageAlwaysStays` | what was not put back in one call is not put back by a later one |
| `HostProofs!ReportsAreOfLastChange` | what is reported of three samples, given how the buffers are exchanged |
| `HostProofs!RowsAreOfColumns` * | values are paired with their columns, while no attribute is new |
| `PipelineBuilderProofs!CountsAreOfWords` | counts belong to the words of their hashes if these entered in order, whatever words share a hash |
| `PipelineBuilderProofs!OverrunsNeedEmptyWord` | only the default constructor's entry leads behind the counts |
| `PipelineBuilderProofs!LoadRestoresNothing` | a model that was saved does not come back |
| `PipelineBuilderProofs!WeightsAreOfTerms` | weights belong to their terms at the first fit |
| `PipelineBuilderProofs!LeaksAreDangling` | leaked stages and dangling pointers are as many as removals of a stage others follow; no other leads a search, an addition or a destructor to deleted memory |
| `PipelineBuilderProofs!CountsArePlain` | `get_number_of_stages` counts what are not pipelines, while the lists agree |

Those marked * state something no run checks any more, because the theorem covers
it and TLC would add nothing; the others state a property of a run.

The assumptions are the `ASSUME`s of the modules, which give the constants their
types, and besides: NUL, CR, LF, SP and colon are bytes, LF is not CR, a space is none
of the other delimiters, and lower-casing yields bytes, neither makes nor removes a
space and makes no NUL; a well formed request has two spaces in its line, no CR in it,
no CR, colon or NUL in a name and no CR or NUL in a value, and neither is empty; what
`atoi` returns, as the code converts it, is natural; the name of the program does not
begin with a space, and the words of the builder keep the same rules up to there;
thread names are distinct; instances are constructed once each, and there is one at
least; there is at least one forest, and there are no more classes than samples (a class is
one that some sample has); the
set of requests is finite, and so is that of attributes; the first region of a pool
is a positive number of words; the empty word is no token, words have natural
hashes, those read as numbers are not taken for empty lines, and numbers read from a
word are natural; the pipelines of the application are not stages. None of them is
stronger than the code gives it.

How the arguments go.

* **Folds.** Many operations loop over a sequence and are written with the library's
  `FoldLeft`, which is a recursive function on sets of indices with a `CHOOSE` in
  it. `SeqFolds` shows, for any operation, that such a function exists
  (`IteratesExists`) and that two of them agree (`IteratesAgree`), hence what a
  reader of a loop takes for granted: the fold of the empty sequence is the start, and
  that of a longer one is a step from that of the shorter (`FoldEmpty`, `FoldAppend`).
  `FoldKeeps` then is the rule for loops with an invariant, `FoldAlong` the one for an
  invariant that speaks of the position. Induction is by the least element of the set
  of counterexamples. A module takes one instance per operation it folds.
* **Parser.** `HeadersDelimited` says nothing about a header still being read, so
  it is not inductive. The invariant adds, per state of the machine, how far the
  current header has come: in the value states there is a NUL behind the current
  key, two bytes before the value. The other half is that the buffer is edited at
  the loop index only, hence never inside what is already delimited; what
  `parse_requestline` writes later only adds NULs, and a layout of NULs survives that.
  For `PayloadIntact` the invariant compares the buffer with the stream
  (`Faithful`): until the request line is split they have the same spaces, and are
  equal behind what the machine has looked at; the machine gets past its first state
  only behind the end of the line. So the first two spaces of the buffer are those of
  the line. `SegmentationFree` follows from `Reading`: a reader of the whole stream,
  which edits nothing, stopped where the machine is, has its state, its keys and its
  offsets. The row of a byte is the same before and after the edits, because these are
  made at the byte itself, and `AddBytes` appends behind what has been read.
* **Requests.** That reduces `RequestRecovered` to three questions. *Where the reader
  is* behind a request: `Table` lists what the rows do to a byte, `ReaderLoops` reads a
  run of bytes of one state, `ReadName` and `ReadValue` put the states of a header
  together (`ReadField`), and an induction along the headers, whose offsets are the
  lengths of what is written before them (`PreambleNext`, `OffsetsFacts`), gives the
  reader at the end of each (`Between`) and behind the blank line (`ReadHeaders`); in
  front of that it is neither in error nor in the body. *What is in the buffer*:
  `Edited` says that a byte the machine has seen is what the row of the reader's state
  makes of it (`Left`), until the request line is split and behind that line
  afterwards; so each key ends at the NUL over its colon and each value at the NUL over
  its CR (`FieldStrings`), and `get_value`, which reads C strings at the stored
  offsets, finds for every name what the peer means by it (`HeaderLookup`). *What the
  declared length is*: the byte that enters the body looks it up when every header is
  in the buffer, and no step changes it later (`LengthKnown`). `RequestIInv` is
  `ReadingIInv` with these two. For the builder the same lemmas lead the reader to the
  colon of `User-Agent`, behind which the table has a row for the space only.
* **Policies.** Whoever is in a pass holds the mutex, and a runner that is alive
  is `t` and either `_running` is set or a client holds the mutex in `stop`. So
  `start`, which needs the mutex and `~_running`, finds nobody alive. `StuckForever`
  follows because no step but `StopJoin` releases a client's mutex and no
  step of a stuck runner is possible without it.  `NotifyStartsNoPass` adds that a
  runner is notified only while a client holds the mutex.  For `VisitorsAlive` the
  invariant follows the visitors: each is kept with the one policy it was made for,
  a policy that is held or registered has deleted none of its own, and what is
  left of a pass belongs to a registered policy, which stays registered until the
  pass ends because the registry is fixed meanwhile. For `PassComplete` it counts:
  the calls a visitor has had, and the one it may be waiting for, are as many as the
  times the two outer loops have entered its resource (`Entered`), for a visitor
  registered before the pass; for any other they are no more than that. At the end
  of the loops that is once for each place of its policy and resource.
* **Forests.** `ForestComplete` speaks of finished forests. The invariant adds, per
  thread of the running constructor, what it has drawn and whether its tree is
  stored, that threads exist inside a constructor only, and that the statics then
  point into its forest. The refinement follows: `Store` in the first constructor
  is a learner joining, its `Join` is the return, and everything else, all of the
  later constructors included, leaves the first forest alone. `OobErrorAccounts` is
  about a sum over the set of finished threads. The library's sum is again a recursion
  with a `CHOOSE`; it is shown to be the one function on sets of threads that is zero
  for the empty set and grows by a thread's mismatches when the thread is added,
  whatever the order. `Finish` adds one thread and its mismatches, `Test` changes the
  mismatches of a thread that is not in the set, and a forest whose constructor has
  not started has no error yet.
* **Boosting.** The mutex is held exactly by a thread between its two pushes; the
  vectors differ in length only then, and only for the instance `pThis` names, by
  an entry whose error is that thread's own. `pThis` is unset or the first instance.
  For the refinement the invariant also follows the names of the learners: each is
  that of a thread which is past its push, or whose constructor has returned, and no
  two are equal. So `PushError` is a learner joining, with the name that stands at
  the position its error gets, the last `Join` is the return, and `PushClassifier`
  is invisible, since a learner without an error is no member yet.
* **Worker.** All counters move together on a view; `viewed` numbers views, so no
  number exceeds the counter of avoided issues, which equals what the page in the
  buffer says. The counting lemmas rest on finite-set cardinality.
* **Packet log.** The three properties compare rows. What makes them inductive is
  what the process remembers: the id it holds is that of its latest row, or zero if
  it has stored none, so that a row whose entry failed points there (`Guessed` says
  the same of addresses and the next row); everything that refers to the log is of a packet already
  received, and of an earlier one while the current one may still be logged. Rows
  are numbered by position, so an id that is guessed (one behind the remembered one)
  is right unless the process has stored nothing yet. For round trips: one that this
  process has stored, and that is not zero, is in its memory.
* **Watcher.** As long as no two calls overlap at most one thread is not idle. The
  processes found are then split, by number, into what was delivered, what that
  thread has taken and what is queued, with one in two places between `front` and
  `pop`. Proofs for one thread look at that thread only (`OneMoves`). With overlap
  nothing can be said of a single process, but the numbers still add up
  (`Balance`): a thread between `front` and `pop` does not hold the process at the
  head of the queue yet, every `pop` moves one from the queue to what some thread
  holds, and every return from there to what was delivered. `LossesBalanced` is the
  case in which no thread holds any.
* **Glue.** Outside of a call the words that are not the process's own are exactly
  those in `lost`, and the registers likewise (`Kept`). Within one, each word
  overwritten is in the backup as it was found before (`Saved`, `Backed`), and no more
  words are overwritten than saved, for a code of any length (`PokedSaved`); so the
  destructor puts back what was there, up to the word at which it gives up, and that
  word and those behind it enter `lost`. `DamageStays` follows because `lost` only
  grows (`LostGrows`).
* **Collectors.** Each of the ten samplers is a loop that writes cells of the buffer
  in use, counts them or adds to the map. They have in common (`StatKept`) that the
  buffers keep their lengths and that the map loses no attribute; the columns of a
  query are attributes the map had when it was parsed, so that each still has a value.
  `ChangeReported` needs no more than how a sample is taken: which of the two buffers
  it is written to and which are compared follows from the number of samples.
* **Bags.** `Bags` says that the map knows the hashes of the vocabulary and possibly
  that of the empty word, and that there are no fewer counts than words. A word that
  is found by the rank of its hash has the hash of the word at that rank in the
  vocabulary if the words entered in the order of their hashes (`RankIs`, a
  cardinality argument), so counting it keeps `Counted`, which speaks of hashes. The rank leaves the counts only if the map has one entry more
  than these, the empty word's. For `NothingRestored` the invariant says of the file
  that no line but its last is blank, so that `load`, which reads words behind a blank
  line only, finds none.
* **Weights.** Before the first fit there are no weights; the first one appends, for
  each term in turn, the one weight its loops compute, which is at the term's own
  position because a fit that lacks no word skips none (`TfidfIInv`). The vectors are
  extended along the vocabulary, position by position (`FoldAlong`).
* **Pipelines.** `Family` says that a stage is in one list at most, once, and younger
  than what it is in, so that what a pipeline holds is a forest; it survives every
  removal because the source erases one element of one list. What is below an object,
  a recursion in the model, is shown to be the least set closed under `_stages`
  (`Reached`), by induction from the youngest object to the oldest. A removal that is
  not of a last stage then takes one stage out of what is below and deletes another
  that stays in its list: one leak and one dangling pointer. That of a last stage
  deletes what it takes out, so that without the others whatever a list holds is alive. For the count, `Lists`
  says the same of `_pipelines`: pipeline stages only, each once, younger than what
  they are in. What is below two stages of a list is disjoint, because the way up is
  unique (`Apart`); so the plain stages below a pipeline are those of its own list and
  the sum, along `_pipelines`, of those below the others, if the two lists hold the
  same pipeline stages, which is what `Agree` says. That the recursive count has a
  solution at all is again by induction from the youngest.

Only model-checked: what needs fairness (`StopReturns`, `ConstructorsReturn`,
`WatchReturns`), which TLAPS cannot prove here; `EveryOccurrenceCounted`, which compares
two sums; and `LostRttStaysLost`. Every other property of a run that holds is a theorem.

## 6. Not modelled, and why

The modules cover the control logic of the components above, a few per cent of the
repository's lines. Most of the rest is one of the following.

* **Real-valued algorithms**: trees, splits, pruning, networks, matrices, densities,
  kNN (`classifier.*`, `autoencoder.h`, `matrix.h`, `lstm.h`, `kdt.h` and the stages of
  `pipelinebuilder.*` that wrap them). Their results are real numbers TLC cannot compute,
  and their control is nested loops over arrays. Their threads (`neuralhelper`,
  `lstm.h`) write disjoint rows.
* **`pipeline_builder`**: `load_from_file` loops while its stream is open, which
  nothing in the loop closes, so it returns for files that cannot be opened only;
  `remove_pipeline` has no definition. `initialize_engine` adds a fixed list of stages.
* **Periodic stimuli**: nothing uses the class, so no state of the program reaches it.
* **Single-lock wrappers** (`decision_engine`, `object_factory`, `singleton`): each
  operation is one line under one mutex, and a model would restate it.
* **Operations nothing calls**: `wait`, `touch` and others of `safe_queue`, some of
  which do not compile; the quota and archive functions of the data layer.
* **External systems**: SQLite, netlink, ptrace, inotify and nginx are modelled by
  how this code uses them. Code generation and the symbol tables of `linuxglue` are
  left out.
* **The trainer box**, configuration, option parsing, logging, small readers of
  files, vendored code and data.

What would come next: the caches of address owners in the data layer.
