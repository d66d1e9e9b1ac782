# LIRE Solr plugin: a verification development

TLA+ modules for the LIRE plugin of Solr (content based image retrieval), its web page and
the jQuery that the page runs on, with the TLC runs that check them on small instances
and the theorems that TLAPS proves about them for every instance. Paths are relative to
the repository; `solr/` stands for `src/main/java/net/semanticmetadata/lire/solr/`,
`jquery` for `src/main/web/js/jquery-l.js` (jQuery 1.10.2, in full) and `lire.html` for
`src/main/web/lire.html`.

## 1. Inventory

### How the parts work together

    image files --ParallelSolrIndexer--> add file --curl--> Solr index
    image files --LireEntityProcessor (data import handler)--> Solr index
    Solr index --searcher--> LireRequestHandler --JSON--> jQuery.ajax --> lire.html
    Solr index --segments--> LireValueSource (lirefunc) --sort values--> Solr queries

An image becomes a document with an id (its path), a title, and for each feature a
histogram (`cl_hi`, ..., a binary DocValues field) and a text of hashes (`cl_ha`, ...).
A search looks for documents that share hashes with a query feature and re-ranks the
candidates by the distance of their histograms. The page asks for images and shows what
comes, when it comes: everything in it happens in callbacks that jQuery calls.

### Components

| Component | State | Operations | Talks to | Hard behaviour |
|---|---|---|---|---|
| `solr/ParallelSolrIndexer.java`, threads | stack of work items, `ended`, `overallCount`, output stream, one state per thread | `run()`, `Producer.run`, `Consumer.run`, `Monitoring.run` | threads through one monitor (wait with timeout, notify, notifyAll), files | interleaving, lost wake-ups, failing images, Errors that kill one thread, end of input |
| `ParallelSolrIndexer`, arguments | file list, out file, threads, side length, `force` | `main`, `isConfigured`, `printHelp` | the threads | argument boundaries |
| `solr/LireRequestHandler.java` | field `time`, `countRequests` | random, by id, by url, by hashes, extract; `doSearch`, `createQuery` | the index through a searcher, images by url | one handler object for all requests, index changing meanwhile, failures half way |
| re-ranking in `doSearch` | sorted set, border distance | add, replace, skip, respond | its caller | boundaries of `rows`, ties |
| the index (Solr, external) | documents, deleted ones until merged | add, delete, merge | everybody | stale document numbers, missing values |
| `solr/LireEntityProcessor.java` | `done` | `firstInit`, `nextRow` | data import handler, which calls back | protocol with the caller, a row that throws |
| `solr/LireValueSource.java`, `LireValueSourceParser.java` | one feature object shared by all segments | `parse`, `getValues`, values per document, `equals` | Solr's caches and sorters | missing values, cache keys, sharing |
| `solr/BinaryDocValuesField.java` | none | `createField`, `toObject`, `toExternal` | the index | conversions |
| `lire.html` | what is shown | load, `search`, `searchUrl`, `extract`, tag search | the handler, through `jQuery.getJSON` | answers out of order, failed requests |
| `jquery`: Callbacks, Deferred, when | lists, their loops and memory, states | add, remove, empty, disable, lock, fire; done, fail, progress, then, resolve, reject, notify; when | user functions, which call all of it again | re-entrance from callbacks, exceptions in them |
| `jquery`: ajax | active requests, transports, timers, jsonp names | `ajax`, `abort`, converters, events | the network, user handlers | answer, timeout and abort racing; handlers that abort or throw; names used again |
| `jquery`: data, events, manipulation | ids, cache, handlers, listeners, the tree | on, off, one, trigger, dispatch, data, append, replaceWith, clone, remove, html, empty | the browser, user handlers | handlers that change the tree or the handlers in the middle of an event, ids used again |
| `jquery`: queues and effects | queues, hooks, timers, animations | animate, delay, queue, dequeue, stop, finish, promise | the interval timer, user callbacks | stop() and finish() from callbacks |
| `jquery`: Sizzle | caches on nodes, counters of runs | `select`, `compile`, matchers | the tree | cached answers that are stale |
| `jquery`: attributes, styles, offsets, traversal, feature tests | none | single calls into the browser | the browser | differences of browsers |
| `Lucene41StoredFieldsFormat.java` | none | a constructor | Lucene | none |
| programs under `src/test`, `bin/`, `build.xml` | files | conversion, upload, build | Solr | end of input in `AddImagesFromDataFile` |
| `lib/`, `classes/` | compiled | | | |

### What makes each component correct

* Indexer: every line of the list ends up in exactly one place; the job is not reported
  done before each accepted line has a document or a message; the add file is well
  formed; the application exits; a thread that dies takes at most its own line with it.
* Request handler: results of a request come from one snapshot of the index and from its
  own parameters; an image that is in the index finds itself; every request ends; an
  answer is documents or an error; what it reports of its time is its own time.
* Re-ranking: the response holds the nearest candidates, in order, as many as asked for.
* Value source: one value for a missing histogram; equal cache keys for equal functions.
* Entity processor: one row for each entity, whatever the previous row did.
* Page: what is shown belongs to the last search, or to one that was still under way
  then; waiting ends unless a request fails.
* Callbacks and Deferred: a deferred is settled once; every callback of the way it took
  is called once, in the order of attaching, with the value; what follows a deferred
  follows it.
* ajax: each request has one outcome and tells it once; the counter of active requests is
  right; a jsonp request gets its own answer; requests end.
* Data and events: an element's data and handlers are its own and go with it; an event
  runs what is bound and not removed, once.
* Effects: a queue runs one thing at a time and does not get stuck; an element that was
  shown or hidden to the end has the style it began with; promises are resolved.
* Sizzle: an element is found exactly when the selector means it.

The hazards, each at its line with the properties that cover it, are in `PROJECT.json`.

## 2. Modules

| Module | Models |
|---|---|
| `IndexingJob` | what indexing promises, without threads: a verdict for each line |
| `ParallelSolrIndexer`, `MCParallelSolrIndexer` | the threads; refines `IndexingJob` |
| `ParallelSolrIndexerProofs` | its theorems: the lines, the stack and the job, what is counted and written |
| `ReRank`, `MCReRank`, `ReRankProofs` | the re-ranking loop, its instance, its theorems |
| `LireIndex` | documents, terms and updates of the index, as the plugin sees them |
| `LireRequestHandler`, `MCLireRequestHandler` | concurrent requests on one handler |
| `LireRequestHandlerProofs` | its theorems |
| `CallbackList` | `jQuery.Callbacks` as operators on the record of a list |
| `Promise` | what a deferred promises |
| `Deferred`, `MCDeferred` | `jQuery.Deferred` and `jQuery.when` on `CallbackList`; refines `Promise` |
| `DeferredProofs` | its theorems, and those about a list by itself |
| `Ajax`, `MCAjax`, `AjaxProofs` | `jQuery.ajax`, its instance, its theorems |
| `Page`, `PageProofs` | `lire.html`, composed with `Ajax`, and its theorems |
| `DomBooks` | what jQuery keeps about elements, as operators on a record |
| `Dom`, `MCDom` | tree, events and manipulation, on `DomBooks` |
| `Effects`, `MCEffects`, `EffectsProofs` | queues, animations, the timer, stop and finish; their theorems |
| `Sizzle`, `MCSizzle` | matching a selector with its caches, and what the selector means |
| `DataLemmas` | facts about finite sets and sequences that the proofs share |

### ParallelSolrIndexer

The variables `main`, `producer`, `consumer`, `monitoring` are the places where the
threads are; `images`, `ended`, `overallCount`, `tmp`, `tmpSize`, `dos` are the program's
variables of these names; `cursor`, `documented`, `unreadable`, `failed`, `listBroken`
and `content` say what has happened to the lines and files.

A `synchronized` block is one action, since everything it touches is written under the
same monitor. It is split where `wait()` releases the monitor: `Push` and
`CrowdedWaitOver`, `Wait` and `WaitOver`. `notify()` is a choice among the waiting
threads. All waits have a timeout, so `WaitOver` and `CrowdedWaitOver` may happen at any
time. Work on an image is local to its thread; it ends with `WriteDoc`, or
`ProcessFails`, `WriteFails`, `ConsumerDies`. Exceptions are caught where the code
catches them and Errors nowhere; `MaxErrors` bounds the Errors. A work item is named by
the line of the list it came from, so that two lines with the same image stay apart.
A failed write leaves a fragment in the add file, which stands for part of a document,
or for a document that stayed in the buffer of the stream and goes out with the next one.

### ReRank

One candidate per step; the three steps `AddCandidate`, `ReplaceLast`, `SkipCandidate`
are the three ways through the body of the loop. `maxDistance` is the variable of the
code, with -1 before there is a result, so that `rows` of zero or less behave as they do
in the code. The order of the sorted set is that of `SimpleResult.compareTo`, distance
and then document number. Float distances are numbers whose order alone matters.

### LireIndex and LireRequestHandler

A document is an image, the way it was indexed, and whether it is live; its number is
its position. The source decides which fields and whether a title it has. A feature is a
number, a distance the difference of two; conversion of hashes to terms is modelled as
the sequence of their digits, because the base matters. `FeatureOf` gives an image one
feature for each of the ways it can be processed: the add file trims and scales, the
import takes it as it is, the handler trims. Solr's side (commits, deletions by unique
key, merges that renumber) is external, taken from how the plugin uses it.

A request takes its snapshot (`searcher`) where the handler calls `getSearcher()`. What
one request does between two accesses of the shared field `time` touches only its
parameters, its snapshot and its own variables, and is one action; `doSearch` has eight
of them: `StartSearchClock`, `SearchIndex`, `StopSearchClock`, `ReportSearchTime`,
`StartRankClock`, `Rank`, `StopRankClock`, `Respond`. `Rank` uses the contract that
`ReRank` establishes (`NearestKept`). `elapsed` is the difference that has been computed
and not yet stored; `began` is a history variable for `TimeIsOwn`. Scores are left to
Lucene: with more matches than `CandidateResultNumber`, any choice of them may be the
candidates. A value of `rows` that is not a number and a `feature` that is not Base64
are left out, and so is `countRequests`, which is never incremented.

### The modules of jQuery: one agenda

JavaScript runs one thing at a time, until it is done; concurrency comes from the tasks
of the event loop (answers, timers, events) and from calls of the user's functions in the
middle of jQuery's. The modules `Deferred`, `Ajax`, `Dom` and `Effects` therefore have a
variable `agenda`: what is left to do before the event loop is free, the next thing
first. An action takes the first thing off and puts what it entails in front of the
rest. A function of the user is an entry where any of the module's operations may be
called, as often as the bounds allow, until it returns or throws; a throw removes what
it ends. When the agenda is empty, a task may begin: a call of the user, an answer, a
tick. History variables that properties need are marked as such.

`CallbackList` and `DomBooks` hold the code that finishes without calling anything of the
user's, as operators on a record (a list of callbacks; the books about the elements);
the loops that call user functions are actions of `Deferred` and `Dom`.

* `Deferred`. `Looping`, `LoopEnds` and the `Call...` actions are the loop of `fire`, one
  callback at a time: a user function, or one of jQuery's own, that settles, forwards
  (`then`) or counts (`when`). `CallAdd`, `CallAlways`, `CallSettle`, `CallThen`,
  `CallWhen`, `CallPlain` are the user's operations; `CallPlain` has all operations of a
  list by itself, with each set of options. `links` remembers who is to follow whom,
  `waiting` and `due` what has to be called.
* `Ajax`. A request is the record of the variables in the closure of `ajax()`: `state`,
  the transport, the timer, what has been installed. Whether it has a `beforeSend` is one of
  its settings, since only a request that has one is looked at again before it is sent
  (`jquery:8101`). `Begin`, `Transport`, `Send`,
  `Done`, `CleanUp`, `Count` are the stretches of code between two calls of user
  handlers; `Answer`, `Load`, `LoadFails`, `TimesOut` are the tasks of the browser. `window`
  and `oldCallbacks` are the global functions of jsonp and the names to be used again.
  The conversion of responses is a function of the content type and the types asked for;
  the body of an answer by script is evaluated whether it tells of success or not (`Converted`).
* `Page`. `PageNext` has the actions of `Ajax` with the page's callbacks as the user's
  code in "success". `asked` says what each request is for, `images`, `perf`, `heading`
  what is shown; which images an answer holds is a choice, none included, where it
  matters. `overlap` is a history variable: which requests were under way when the last
  search was asked.
* `Dom`. `dom` is the tree and the books about it. An event is on the agenda with the
  path of elements it still has to reach; `Reach` makes the queue of handlers at an element
  and `Handle` runs one. `bound` is the reference: the bindings that there should be, kept
  by what the operations mean and not by how the code does it.
* `Effects`. `Dequeue`, `Animate`, `Tick`, `StopBegins`, `HaltTimer`, `Splice`, `StopEnds`,
  `FinishQueue`, `FinishEnds` are the parts of the code between two calls of user
  callbacks; loops over `jQuery.timers` keep their index on the agenda, as the code does
  in a local variable while callbacks change the list. `fate` notes what exempts an
  element from a property.
* `Sizzle`. A search is one step, since no code of the user runs in it; `state` are the
  variables that survive it (`dirruns`, `cachedruns`, the caches on the nodes and of
  compiled selectors). `Change` replaces the page by another, with the caches that the
  nodes keep.

## 3. Runs

| Run | Question | Instance |
|---|---|---|
| `indexer` | Is every line in one place, is the add file well formed, do the threads implement the job, does the application exit? | 2 consumers, 3 lines, 2 of them the same image, limit 1, 2 Errors: 144,841 states |
| `indexer_individual` | Is each file of an image one whole document, when two lines name one image? | as above, one file per image |
| `indexer_producer_error` | Do consumers stop waiting when nobody fills the stack? Violated | 1 Error |
| `rerank` | Are the nearest kept, in order? | every list over 4 documents, 3 distances, `rows` in {-1, 0, 1, 2, 3, 5}: 158,436 states |
| `handler` | Does an image find itself, does every request end, with documents or an error? | one request of 20 kinds, 4 commits, a clock tick: 1,152,434 states |
| `handler_time` | Is the reported time that of the own search? Violated | 2 searches |
| `deferred` | Is what is due called, once and in order, do followers follow, and does a deferred keep what `Promise` promises? | 2 deferreds and one more for `then`/`when`, 4 calls, 1 throw; or a list with each of 8 sets of options, 5 calls: about 840,000 states |
| `ajax` | Has each request one outcome that it tells once, is the counter right, does jsonp keep requests apart, does conversion lead to the type asked for, do requests end? | 2 requests of 6 kinds, half of them with a `beforeSend`, handlers at 7 places, 2 aborts or throws: about 195,000 states |
| `page` | Which images, which heading are shown, and does waiting end? | 4 requests, 2 at the same time: about 287,000 states |
| `dom` | Are ids, cache and listeners consistent, does an event run what is bound, once? | document, paragraph, link, 2 spare nodes, 4 calls: about 306,000 states |
| `effects` | Do queues move on, one thing at a time, are styles restored and promises resolved? | 2 elements, 3 calls, goals hide, toggle and empty, none or 2 ticks: about 358,000 states |
| `sizzle` | Does a search find what the selector means, also after the page has changed? | 24 selectors, every tree of 4 nodes with 2 names, 2 searches: about 114,000 states |

### Why the bounds are enough

Two consumers are what it takes for them to compete for a
work item, a wake-up and the last line; with two Errors both of them can be killed, or a
consumer and the Producer; with limit 1 the stack is crowded after two pushes and three
lines let the Producer go on after the pause; `MaxErrors` is the only cap that is not an
input of the program. The theorems have no such bounds. Four candidates
and up to three distances give every order of a candidate, the border and the others,
with ties, below, at and above the number of results. Four commits are enough to add two
images, delete one and merge, which renumbers the other, before or after the snapshot of
a request. Twelve hashes give a search by half of them that keeps out of the rule for
fewer than five. `MinTime` and `MaxTime` bound the clock; one tick lets a start and an
end differ.

In the browser `MaxCalls` (`MaxPlainCalls`, `MaxActs`, `MaxRequests`) bounds what user code
does, in tasks and in callbacks. Four operations on deferreds make two that follow each
other with a callback attached before, during or after the settling; a list by itself
needs five for an addition in a callback, a removal in another and a second firing. Two
requests are what it takes to share a counter and a name of jsonp; the six kinds differ in what
decides where a request goes (another domain, a callback name, a timeout, a `beforeSend`), and
those without a `beforeSend` include an asynchronous one and both ways of jsonp. Two acts are to abort one
from a handler of the other and to throw. Four requests of the page are the one of
loading, a search, and an extraction with the search that follows it. Four calls on the
tree are two bindings, an event, and a change within a handler; the spare nodes are
enough for one copy of the paragraph with its link. Three operations on effects are an
animation, a second thing in the queue, and one that interferes, at every tick and from
every callback; an animation of no ticks is over before the code that starts it goes on. Four nodes give every path, fork and row of siblings that a selector of
three names can go up and back.

`CHECK_DEADLOCK FALSE` in the handler's runs: they stop when all requests
have ended and the bounds of the environment are used up. In the modules of the browser
`Wait` stands for the event loop that waits.

### Fairness

`FairSpec` of the indexer is weak fairness for each thread, including the ends
of its waits: the JVM schedules runnable threads, and `wait(200)`, `wait(500)` and
`sleep` return. No fairness is assumed of a particular choice: which consumer is notified,
which takes the monitor, whether an image fails. `FairSpec` of the handler is weak
fairness for the thread of each request; commits and the clock may stop at any time.

In the browser, code that runs comes to its end (`Program`; user functions return, since
nothing can be said of a page in which one does not), the interval and the timeouts fire
(`Tick`, `TimeoutFires`, `TimesOut`), and the network answers a request or reports an error
(`Answer`, `ServerAnswers`). Nothing is assumed of scripts, which report no error here:
`Completes` therefore promises an end only to a script with a timeout. `Deferred`, `Dom` and
`Sizzle` have no liveness properties: what must happen there has happened when the event
loop is free, which is an invariant.

## 4. Disagreements and surprises

### Found by a run

* `ParallelSolrIndexer.java:374`: consumers "wait for the stack to be either filled or
  empty & not being filled any more". An Error in the Producer leaves `ended` unset.
* `LireRequestHandler.java:356`: the time of a search is taken in a field that all
  requests share.

### Met while modelling the server, and part of the models

* `LireRequestHandler.java:253`: "search if the feature has been extracted" tests
  whether the object exists; a failed extraction goes on with `query == null`.
* `README.md:32`: random images are "from the index", but deleted ones are drawn too
  (`LireRequestHandler.java:203`).
* `README.md:65`: hashes are sent as "numbers", but only hexadecimal ones are found
  (`LireRequestHandler.java:326`).
* `README.md:40`: a search by id for an image without a value in the field uses an empty
  histogram, which is not what that image looks like (`LireRequestHandler.java:165`).

### In the page

* There are no error callbacks: after a failed request "Please stand by" stays.
* Searches that overlap show the images of both, the later answer on top.
* An answer without documents makes some callbacks fail on what is not there:
  `searchUrl` does not look for an error, so that the error is not shown.
* An extraction that failed answers without an error and is taken for one that succeeded:
  the images are then sorted by "undefined".

### In jQuery

These are behaviours of the code that the properties leave out by an explicit condition,
each as narrow as it could be made.

* Callbacks: after `empty()` within a callback, the next callbacks that are added are
  passed over. A callback that throws leaves its list firing for ever. A `then()` whose
  function returns the promise of the same `then()` notifies itself without end; it is left
  out of the model.
* ajax: `abort()` in `ajaxSend` makes the transport undefined; the TypeError is caught, and
  the request is done once more: its events come twice and the counter goes down twice,
  against "Called once" (`jquery:8153`) and "Counter for holding the number of active
  queries" (`jquery:7783`). A request aborted in `ajaxStart` still calls `beforeSend`; one
  that has no `beforeSend`, which is the default, is not looked at (`jquery:8101`): it calls its
  callbacks when they are installed, behind the events, and is then sent as if nothing had
  happened (`jquery:8135`), with the same consequences, and with jsonp although it has given its name
  back. The model does all this; `early`, `interfered` and `shared` mark the requests. A
  handler that throws leaves the counter up and "complete" uncalled. A script has no
  `onerror`, so that only a timeout ends it when it cannot be loaded. A name of jsonp that an
  abort has freed, or that the user has fixed, can get the data of another script that is
  still being loaded. The body of a failed answer by script is evaluated too (`jquery:8185`), and
  may call the function of a name.
* Events and data: a handler for "focus" that is delegated is bound as "focusin". `remove`
  looks for setup and teardown under the type it was asked for (`jquery:4875`) and not under the
  one bound, as `add` does (`jquery:4793`): when the last such handler goes by
  `off("focus", selector)`, or removes itself as `one()`, nothing is torn down and the count
  of listeners stays up. `off("focus")` without a selector does not look among the
  handlers of "focusin" and leaves it bound. When its element is removed, `cleanData` forgets it in the same way. `forgotten` counts
  these cases, which `ListenersMatch` allows for (`jquery:5571` wants the listener only "while
  someone wants focusin/focusout"); `bound` keeps what `off("focus")` does not look for. `data()` of the
  document leaves it an empty entry. `one()` of a function removes all bindings of this function when it runs.
  A `one()` handler can run twice through an event it triggers itself. An element that is
  replaced by itself loses its data and handlers. `trigger("mouseenter")` bubbles as
  mouseover. `clone(true)` shares private data with the copy.
* Effects: `stop()` or `finish()` within a callback makes the loop of an outer one remove
  the timer of another animation, or fail (`wronged`), or lets a finished animation set its
  last value once more (`shifted`). An animation that ends with its first tick while
  `finish()` runs has put its styles back when it is stopped (`jquery:9308`), which sets its last
  value once more too: a hidden element keeps the height 0 (`shifted`). `finish()`, or `stop(false, true)`, of a delay leaves nobody
  to move the queue on (`forgotten`). Emptying the queue in a callback that also queues
  something, or an empty animation, lets two things run at a time (`manual`).
* Sizzle: a `:has` on an ancestor, whose selector has a combinator of its own, leaves
  `cachedruns` at its own number (`jquery:2744`); what the outer search then notes on
  ancestors (`jquery:2514`) makes a later element fail without its further ancestors
  being tried (`jquery:2509`), against "Check against all ancestor/preceding elements"
  (`jquery:2490`). `*:has(a > p) a` on a tree of five nodes shows it. `HasAbove` exempts
  these selectors.

## 5. Proofs

`ParallelSolrIndexerProofs`, for any finite set of consumers, any list, any limit, both
output modes and any number of Errors (`ConstantsAssumption`, which TLC evaluates):

* `TypeCorrect`: `Spec => []TypeOK`, by `TypeInv`, which adds that a consumer at work
  holds a line and that the Producer holds one when it is adding or dead.
* `NoLineDroppedOrDoubled`: `Spec => []OnePlace`. `OnePlace` is inductive with `TypeInv`;
  one lemma for each thread, with two lemmas for the steps that move nothing and for
  putting a line down.
* `CrowdedStackIsNoticed`: `Spec => []CrowdedIsNoticed`, inductive with `TypeInv`.
* `NothingLeftBehind`: `Spec => []Complete`. `Complete` is not inductive: a consumer that
  stops knows only that the stack was empty and `ended` set. `EndInv` carries this to the
  end of `run()`: once a consumer is done, `ended` is set and the stack is and stays
  empty; `ended` is set only by a Producer that has read the list; `main` is done only
  when all consumers have ended.
* `ImplementsJob`: `Spec => JobImplemented`, step simulation from the invariant
  `IInv == TypeInv /\ OnePlace /\ EndInv`, each action of the threads being one action of
  the job or a stutter.

The theorems about what is counted and written build on these, from the same assumptions:

* `ImagesAreCounted`: `Spec => []Counted`. The lines that were ever taken up by a consumer
  (`TakenUp`: documented, failed, in hands, or lost with their consumer) only grow, by one
  fresh line in each `Pop`, which is when `overallCount` grows; that the line is fresh
  is `OnePlace`.
* `AddFileWellFormed`: `Spec => []AddFile`. `AddFile` speaks of the whole file and is not
  inductive. `OutputInv` adds that no consumer has started as long as `<add>` is not written
  (`OpenedFirst`), that each documented line is in the file (`EachDocumented`) and once
  (`NoneTwice`, from `OnePlace`: the line a consumer writes was documented by nobody),
  and where the tags are (`TagsInPlace`); that nothing follows `</add>` needs `EndInv`: the
  file is closed when all consumers have ended. `NoFileOpen`: in this mode nobody has a file
  of its own open.
* `FilesAreComplete`: `Spec => []FilesComplete`. Before the end, the file of a documented image
  may be empty again, because another consumer with the same file has opened it anew.
  `FilesInv` says this: complete, or somebody with the same file failed or was lost,
  or has it open. In the end nobody has.

`ReRankProofs`, for any finite set of documents, any candidate list, any distances and any
`rows` (`ReRankAssumption`):

* `TypesAreRight`: `Spec => []TypeOK`, and `NearestAreKept`: `Spec => []NearestKept`. The
  invariant adds that the candidates seen are distinct (`LoopInv`), that `maxDistance` is the
  distance of the last of the results (`BorderInv`), and that every set of seen candidates
  has a last element (`LastInv`), so that `last()` means something.
* `ResponseIsSorted`: `Spec => []ResponseIsPrefix`. Which documents are near says nothing
  about the order they are answered in: `RInv == IInv /\ DocsInv`, where `DocsInv` adds that the
  response is empty or, after the last candidate, lists the kept results in order. That the k-th of them has the k-th smallest distance of all
  candidates needs a sorted list of the candidates to compare with; that there is one, and that
  two sorted lists of one set have the same distances, are lemmas by induction over sets and
  over positions.

`LireRequestHandlerProofs`, for any set of requests of any kinds, any images, fields, features
and hashes, any updates of the index, merges included:

* `DocsOrErrorAlways`: `Spec => []DocsOrError`.
* `SelfFirstAlways`: `Spec => []SelfFirst`. What a request finds depends on the snapshot it
  took, long before it answers. The invariant `IInv == TypesOK /\ \A r : RequestInv(r)` says for
  each place of a request what it holds there: from the snapshot on, that the snapshot is an
  index; from the search on, that the candidates are what this snapshot has for the terms of the
  request (`Wanted`); from the ranking on, that the results are the nearest of these.
  No step of another request or of the index touches these variables. `Rank` is taken from the
  contract of `ReRank`, which `NearestAreKept` and `ResponseIsSorted` prove of the loop.

`DeferredProofs`, for any number of deferreds, calls and throws, and
whatever the callbacks call:

* `TypesAreRight`: `Spec => []TypeOK`, for both halves of the module (`DeferredInv == DInv \/
  PInv`): deferreds, and a list by itself with any options.
* `AllAreCalled`: `Spec => []AllCalled`. `DInv` says of each list what its loop still
  owes (`WayOK`): before the deferred is settled, the callbacks waiting are those in the list
  behind jQuery's own "settle" callback; each loop on the agenda has ahead of it
  exactly the callbacks still waiting; a list that has fired and is not firing is empty with
  nothing waiting, unless a throw has hurt it.
* `PromiseIsKept`: `Spec => PromiseImplemented`: each step is a step of `Promise` or a stutter.
  The state of the promise is `Verdicts`, taken from `state` and the list that has fired;
  what it has to call is `WaitingFor`. A deferred is settled once and one way by `OneWay`: of
  its two lists, when one has fired the other is disabled, or the loop is just
  about to call the "settle" callbacks that stand first.
* `DueIsFired`: `Spec => []FiresWhatIsDue`, of a list by itself. `DueOK` says that what is due is
  what the list holds from where its loop takes up (`Ahead`): at `firingIndex` in its first round,
  one further after a callback. The hard step is `remove()` while the list fires:
  `WithoutBehind` shows that lowering the index by what left at or below it keeps the same
  callbacks ahead; a place in an ascending listing is the number of elements up
  to it (`Rank`), and that decides the element (`SameRank`).

`AjaxProofs`, for any settings, any handlers, any number of requests, aborts and throws
(`AjaxAssumption`):

* `TypesAreRight`, `ActiveIsRight` and `ToldOnce`: `Spec` keeps `TypeOK`, `ActiveCounts` and
  `Told`. The latter two speak of the moments when no code runs, so that the
  invariant must say what the agenda still holds for each request: `Before`, of any two things
  on it, that the handlers of a request stand in their order, that it goes on once and is
  counted down once; `InHand`, of each thing, that its request is as far as the
  thing requires and that no handler told before ranks behind it; `Known`, of
  each request, that the handlers told so far are in order and, once it is over, that those
  told and those on the agenda are together exactly the ones due; `CountOK`, that the
  counter is the number of requests begun that are not over or have their "count" ahead.
  Each of them is needed for the others. A request without a `beforeSend` that is aborted ahead of
  its "transport" leaves the invariant its weaker half: it is marked `early`, and once it is sent
  `interfered`, so that what `Known` and `CountOK` say of the others goes on to hold. One lemma for
  each action; since a handler can begin or
  abort any request, each shows first that the other requests stay as they are (`DealsWith`,
  `Assemble`).
* `JsonpIsOwn`: `Spec => []JsonpOwn`, by `NamesInv`. What the property says of the idle moment
  holds between handlers in a weaker form, which the invariant states for every moment by
  `Holds`: a request has its name until its "cleanup" has run. `FreeNames`: the free names are
  different, were made before and are held by nobody. `Placed`: a function in the window is one of a
  request with that name. `Named`: a name that jQuery made is held by one request; a request
  that has shared its name with nobody has its function in the window exactly while it
  holds the name, no other request with that name can still call it, and a function that
  was there before is of a request that did share. `Own`: so the data is of its own answer, and is
  there when the request succeeds, because a response by script was converted by the
  call (`ScriptWasCalled`, `OneConversion`). `Way` says when a request has its outcome.

`PageProofs`, for any number of requests, any of them under way at the same time, and answers in
any order. It assumes that the page has success callbacks only (`PageAssumption`); its
settings are those of `$.getJSON`.

* `OnlyRecentImages` and `HeadingIsRight`: `PageSpec` keeps `ImagesRecent` and `HeadingTells`, by
  `PageInv`. Neither is inductive: they say what is shown and not what a callback on its way
  is about to show. `AgendaInv` says what a plain request can have on the agenda: one thing, with
  only "count" behind it, so that a callback runs only for a request that succeeded and has
  not shown its images. `ImagesInv` extends `ImagesRecent` from the images shown to the requests
  still under way and the callback running: a request older than the last search that was not
  under way then can no longer do anything. `HeadingInv` adds to `HeadingTells` the time before
  the answer: nothing is shown, and the heading is already the one of the search unless it
  is a tag search, which sets it when answered; with `OverlapInv` only the last request can be
  under way. The invariant of `AjaxProofs` is not used, only its lemmas: with plain requests and
  one handler the page needs less than it and would need `Options` to say so.

`EffectsProofs`, for any finite set of elements, any goals and durations, and any number of
calls, from callbacks too (`EffectsAssumption`; the elements of a document are finitely many):

* `QueuesMove`, `OneThingAtATime` and `PromisesOpen`: `Spec` keeps `QueueMoves`, `OneAtATime` and
  `PromiseOpen`. All three follow from `EffectsInvariant`: `Spec => []EffectsInv`. The first and
  the last speak of the moments when no code runs, and none is inductive: whether a queue is
  moved on twice or never is decided by what `stop()`, `finish()` and the loop over the
  timers still have on the agenda when a callback calls them again. `EffectsInv` says for
  every moment:
  * `Types`, and `IdsOwn`: the number of a delay belongs to one element. So the timeout of a
    delay that was stopped cannot be taken for the one that goes on.
  * `Moving`: an element with something in its queue, or with hooks that nothing else keeps,
    has an animation or a delay going on, or something on the agenda that moves it on. This alone
    gives `QueueMoves`.
  * `Waits`: a promise counts the elements whose hooks hold it.
  * `FirstOnly`: an animation that was taken from a queue starts before anything else is done.
  * and, as long as no loop over the timers went wrong (`Right`): `Timed`, that a pending animation is
    in the list of timers and a stopped one is over; `Once` and `Counted`, that the end of an
    animation outside of the queue is told to the hooks once, and that the hooks count at
    least those not yet told; `Closing`, that hooks nothing keeps are about to be moved on, or a loop of
    `finish()` comes to the animation that does it; and `Tidy`, for an element whose queue the
    program did not move by itself.
  * `Tidy` is what `OneAtATime` needs. `Single`: of an animation of the queue going on, a delay going
    on, an animation about to start and a `dequeue()` about to run there is one at most.
    `Progress`: what goes on has the sentinel at the head of its queue, or `finish()` runs it.
    `Stopped`: while a `stop()` that will move the queue on is in its loop, nothing
    else will, and no animation of the queue stands behind its place in the list. `Orderly`:
    what of this is on the agenda is there once, and a loop of `finish()` and the rest of an
    animation stand right behind what moves the queue on before them.

  Each part is needed for the others. There is one lemma for each action and part. With
  `User` any function can be called in any callback, so that most lemmas are
  about the calls: that what they put on the agenda stands before what was there, and what it
  may be.

`DataLemmas` has the facts these proofs share: concatenation, tails and items of sequences,
what is put before or behind a sequence or taken out of it,
sequences ordered by a relation, sorted listings of a finite set. Two inductions are stated
there for a set of values and not for a predicate, which makes them usable where
the library's theorems with an operator parameter are not: `SubsetInduction` over finite sets and
`UpToInduction` over an interval. `SelectSeq`, `SortSeq` and `@@` have definitions that the
provers do not open: what a proof expands uses sets and sequences in their place.

Only model-checked:

* liveness (`JobExits`, `EveryRequestEnds`, `Completes`, `PageSettles`, `PromisesResolved`),
  which is out of the prover's reach;
* of the deferreds `FollowersFollow` and `MasterFollowsAll`, whose links through `then` and `when`
  the invariant does not carry;
* of ajax `ConvertsRight`, which compares the conversion of every short list of types with a
  reference, at the initial state: it is about a recursive function and not about the steps;
* of the effects `RestoredAtEnd`, about the style an element is left with: it takes the last of all
  animations of the element, and needs the values saved along the whole chain of them;
* the properties of `Dom`: the books about elements are built with `@@`, `SelectSeq` and
  recursive functions, which the provers do not open;
* `Sizzle`, whose recursive functions can only be checked on bounded trees.

## 6. Plan

Done: the indexer, the re-ranking, the handler, the page, and the five stateful parts of
jQuery; the safety of the indexer, the re-ranking, the handler, deferreds, ajax, the page
and the queues is proved. Next, in this order:

1. Proofs: `RestoredAtEnd` of the effects; `IdsOwned` of the books about elements.
2. `LireValueSource`: values over several segments, missing values, cache keys.
3. `LireEntityProcessor` with the import handler as its environment.
4. The page on top of the handler instead of arbitrary answers.

## 7. Not modelled

`ParallelSolrIndexer.main`, `isConfigured` and `printHelp`: sequential code whose outcome is
a value of the constants. `LireValueSource` and `LireEntityProcessor.nextRow` are driven by
compiled libraries. `BinaryDocValuesField` converts bytes. `Lucene41StoredFieldsFormat` is a
constructor with another chunk size. The compiled libraries, the build, the scripts and the
programs under `src/test` have no logic of this system.

Of jQuery: attributes, styles, offsets, traversal and feature tests, which are single calls
into the browser; in events and data namespaces, plain objects with data, inline
handlers, scripts, text, and what is special to checkboxes and to old Internet Explorers;
in effects easing and properties other than the height; in ajax serialisation, caching
headers and `load()`; in Sizzle the parser, attributes, positions, and `querySelectorAll`,
which answers most selectors instead of it where the browser has it.

The contents of images, histograms and hash functions are data: the models know
only whether reading, decoding and extraction succeed, and which features are equal or
near. The heap and file handles appear only as Errors that may strike where memory is
allocated.
