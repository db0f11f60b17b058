# VWS Python Mock in TLA+

These modules specify `mock_vws`, a mock of the Vuforia Web Services, the Vuforia
Web Query API and the Model Target Web API, as it is written in
`src/src/mock_vws/` (paths below are relative to that directory).  TLC checks them
on small instances; TLAPS proves the theorems about them for every value of the
constants.

The mock runs in two forms.  In one process, `MockVWS` replaces the transport of
`requests` or `httpx` and answers from a `TargetManager` object.  As Docker
containers there are three Flask apps: the *target manager* holds databases,
targets, datasets and credentials, and the *VWS* and *VWQ* apps fetch a copy of
them over HTTP for every request and send calls back.  The containers serve
requests on threads (`src/tests/mock_vws/test_flask_app_usage.py:1310`), which is
where most of the interesting behaviour is.

## 1. Inventory

| Component | State | Operations | What makes it hard |
|---|---|---|---|
| **Request rate limiter** `_services_validators/request_rate_validators.py`, `request_rate_limits.py` | a queue of request times per server access key and bucket; a lock | `validate`, `remove_database` | check and append from many threads; queues pruned lazily and partly, also when a request is rejected; the boundaries of the window |
| **Target manager** `target_manager.py`, `_flask_server/target_manager.py`, `target.py`, `database.py` | cloud databases with image targets, VuMark databases with VuMark targets; a lock | create and delete databases; create, update, delete targets | targets are frozen and replaced by changed copies; credentials must be unambiguous across two kinds of database; deleted targets stay in the set |
| **VWS app, targets** `_flask_server/vws.py`, `_database_matchers.py` | none of its own; a copy of the databases per validation and per handler | add, update, delete, get; list, records, summaries, duplicates, VuMark instances | check on a copy, act by a later call whose answer is ignored; statuses computed anew at each look; calls that outlive their worker; databases deleted and created again under the same name |
| **VWS request validators** `_services_validators/` | none | an ordered pipeline of some forty validators | the first that fails decides the answer, and each parses anew what those before it let through |
| **VWQ app and query matching** `_flask_server/vwq.py`, `_query_tools.py`, `_query_validators/` | none of its own | `query` | reads targets which are being processed, deleted or updated; filters, sorts and cuts in an order that matters |
| **Model Target Web API** `_model_target_web_api.py`, `model_target.py` | datasets and OAuth2 credentials in the target manager; tokens are signed, not kept | create, status, download, delete of datasets; create, list, rescope, delete of credentials; tokens | credential methods outside the lock; limits checked on a copy; a status which changes between two looks; the long validation of a dataset's description |
| **Reco counts reports** `_reco_counts_web_api.py`, `reco_counts.py` | reports, in the VWS app | create, download | lost with the app when it restarts |
| **`MockVWS`** `decorators.py`, `_requests_mock_server/`, `_respx_mock_server/` | the current target manager, the databases added, the started mocks; a saved state per decorated call | enter, exit, call a decorated function, add a database; the handlers, on the `TargetManager` object | swap and restore around nested and failing calls; databases are shared objects which outlive the target managers that hold them |
| **VuMark instances** `vumark.py` | none | generate an image | which of two copies, taken one after the other, answers |
| **Image matchers and raters** `image_matchers.py`, `target_raters.py` | none | numerical comparison | out of TLC's reach; a model needs only the verdict |
| Constants, encodings, health check; release scripts under `src/admin` | none | stateless conversions | none |

How they interact: a request reaches the VWS app; `validate_request` fetches all
databases from the target manager and runs the pipeline, the rate limiter among
its validators; the handler fetches them again, decides, and sends at most one
HTTP call to the target manager, whose answer nobody looks at; the target manager
changes its state under its lock (credentials: without it).  In the in-process form
the same validators and handlers work on the `TargetManager` object itself.
`TargetManager.remove_cloud_database` tells the limiter to forget a database; in
the Docker form the limiter is in another process and is not told.

What correctness means for each component:

- limiter: no window of any limit ever holds more accepted requests than the
  limit, and nothing is rejected that the documented rolling window has room for;
- target manager: credentials and ids select one thing; a target keeps its
  identity, its dates never go back, and deletion is final;
- VWS app: what a client was told stays true; errors are explained; quota and
  names are kept, or exceeded by a known amount; every request is answered;
- reads and queries: nothing is counted twice, nothing deleted is served, the
  results are the first that match, and the right database answers;
- validators: an error for whatever is wrong, keys before everything else, and
  what is acknowledged is stored;
- Model Target API: a deleted credential does not come back, limits hold up to
  the races the code leaves, an acknowledged dataset is kept, a finished one served;
- `MockVWS`: after any sequence of blocks, calls and failures the state outside is
  the state before, as far as its docstrings promise it.

`PROJECT.json` lists under `hazards` each place in the code where one of these
could go wrong, with the properties that watch it.  A hazard with no property has
a note that says why.

## 2. Modules

| Module | Models | Depends on |
|---|---|---|
| `RequestRateLimits` | limits, endpoint groups, which buckets count a request | |
| `SlidingWindow` | abstract: a limiter that never forgets a request | `RequestRateLimits` |
| `RequestRateLimiter` | the queues of `RequestRateLimiter` | `RequestRateLimits`, implements `SlidingWindow` |
| `Targets` | image targets as values: new, status, replacement, quota and names | |
| `TargetManager` | databases and targets, one action per handler | `Targets` |
| `CloudTargetContract` | abstract: an atomic service, seen by one client | `Targets` |
| `VwsService` | threads of the VWS app in front of the target manager | `TargetManager`, implements `CloudTargetContract` |
| `VwsReads` | what the VWS and VWQ apps answer from copies that grow old | `TargetManager` |
| `ModelTargetStores` | datasets and credentials in the target manager | |
| `DatasetLifecycle` | abstract: what clients see of the life of a dataset | |
| `ModelTargetService` | threads of the Model Target Web API and of reports | `ModelTargetStores`, implements `DatasetLifecycle` |
| `MockWorlds` | abstract: a stack of worlds of targets | |
| `MockVws` | one `MockVWS`: blocks, decorated calls, databases, targets | `Targets`, implements `MockWorlds` |
| `ServicesValidators` | the VWS pipeline and its handlers, as functions | |
| `QueryValidators` | the pipeline of queries | |
| `DatasetValidators` | what is checked of a request to create a dataset | |
| `RequestPipelines` | a request going through one of the three | the three above |
| `RequestRateLimiterProofs`, `TargetManagerProofs`, `VwsServiceProofs`, `VwsOneClientProofs`, `VwsReadsProofs`, `MockVwsProofs`, `ModelTargetServiceProofs`, `RequestPipelinesProofs` | theorems | the module in their name |
| `MC*` | values of the constants, and what a run's clients do | |

Action and operator names are those of the functions they translate wherever one
function is one step.  Definitions whose comment begins with "Mutant" are wrong on
purpose: each is the slip of a definition beside it which a property has to
notice, and no specification uses one.

**`RequestRateLimiter`.**  `request_times` is `_request_times`; an absent key of
the two nested dictionaries is an empty queue.  `Validate` is one call of
`validate`, which holds the limiter's lock from reading the clock to the last
append; `Accept` and `Reject` are its two outcomes.  `Examined` says which
queues a rejecting call has pruned when it raises.  `accepted` is a history
variable: every accepted request since the database was last removed.  Clocks are
integers that never decrease (`time.monotonic`).

**`TargetManager`.**  Every handler of `_flask_server/target_manager.py` that
changes databases or targets takes `TARGET_MANAGER.lock` around its lookup and its
change, so it is one action.  The exception is at the edge: `create_target` builds
the target, with its dates, *before* it takes the lock, and `ImageTarget` reads the
clock once for each, `last_modified_date` first.  So `CreateTarget` is given two
moments that may have passed, and a new target may be modified before its upload.
A handler that answers 404, 409 or 500 changes nothing; its action is then not
enabled.  Width, metadata, counters and ratings of targets are left out because
nothing decides on them.  Ids are `uuid4().hex`; `issued` records them, and `Issue`
makes each new.

**`VwsService`.**  A worker goes `idle`, `validate`, `fetch`, (`decide`,) `call`,
`answer`:

- `Receive`: a client sends a request, signed with the keys of some database.
- `Validate`: `validate_request` on a first copy.  Of the pipeline it has what
  reads databases and targets: keys, quota, target id, names, in the code's order.
- `FetchFails`, `FetchTarget`, `FetchForAdd`: the handler's second copy.  The
  tuple unpackings that find nothing are uncaught `ValueError`s, a plain 500.
- `DecideDelete`, `DecideUpdate`: the status is computed from the copy of the
  target and the clock of this moment, which is why it is a step of its own.
- `Apply`: the target manager carries out the call (`Perform`) and the worker
  answers with success whatever came of it, as the code does.
- `Timeout`, `ApplyLate`, `DropLate`: `requests` gives up after 30 seconds; the
  call moves to a `line` and is carried out later, or never.
- `AddDatabase`, `RemoveDatabase`: the actions of `TargetManager`, at any time.

`acked_adds`, `acked_deletes`, `delete_asked`, `too_late` and `interrupted` are
history variables about what clients were told; no other variable depends on them.

**`CloudTargetContract`** says what the service promises a client which waits for
each answer: each request takes effect at one moment, and each refusal gives the
one reason that applies.  It has no copies, calls or ids in flight.
`VwsService!ImplementsContract` maps the client's request and answer to it and
leaves `clock`, `cloud_databases` and `targets` as they are.

**`VwsReads`.**  One reader suffices, since reads change nothing.  `Ask`,
`Validate` (a copy), `Fetch` (another), then `Look` as often as the handler looks
at a status: `StatusOf` and `TrackingRating` use the clock of that moment, so a
summary, a list of duplicates and a query each see a target change under their
hands.  `FetchClouds` and `Instance` are the two copies behind a VuMark instance.
The matcher's verdict is equality of images, the rater's a constant per image.
`gone` and `stays` are history variables.

**`ModelTargetStores`** has the methods of the target manager which store datasets
and credentials.  `Loaded` is what `from_dict` makes of a dictionary: the date
comes along.

**`ModelTargetService`.**  A worker fetches one copy of a dictionary (`fetch`) or
needs none (`local`), decides, and sends at most one call.  `ReadStatus` and
`ReadTrainingStatus` are the two looks of a download at the status.  `LookUp` and
the `remove` place are the two halves of deleting a credential, between which
nothing is locked.  `GiveUp` and `ApplyLate` are as in `VwsService`; with `Restart`
the app loses its threads and its reports, and its calls arrive or do not.  The
scopes of a token are the request's: a token is signed and nothing looks its
credential up again.  What clients do is a `workload`, because no handler reads
two of the three stores.  `held`, `gone`, `told`, `asked` and `due` are history.

**`DatasetLifecycle`** is the life of each dataset as its clients see it: `absent`,
`processing`, `finished`, `deleted`, never back; nobody is told of one that is not
there, and none goes that nobody asked to delete.  `Phase` works a dataset's phase
out from the store, the clock and `asked`; threads, calls, restarts and the date
in a copy are not part of it.

**`MockVws`.**  `targets` belongs to the database objects, which the program owns
and every target manager that holds one shares; `held` is which databases a target
manager holds.  `contexts` is the stack of running blocks and calls, with what
`_fresh_state` saves for each call.  `Call` saves the targets, makes a new target
manager and loads the databases added so far; `CallFails` is loading stopped by a
conflict, which raises before the `try`; `Return` puts back.  A target manager to
which nothing refers any more is forgotten and its identity used again.  One
thread: the patched transport is that of the whole process, and the tests use it so.
Time may pass within it: `AddTarget` lets the clock go on between its two dates.
**`MockWorlds`** is the stack of saved targets alone.

**The validators.**  A request is a function from its attributes to what is
special about them, `"ok"` if nothing is.  Each validator is an operator of the
code's name which gives the error it raises, `""`, or `Crash` for an exception that
nothing catches; what a later validator makes of an attribute which an earlier one
should have refused is in it too.  `RequestPipelines` adds one special thing after
another and then runs the pipeline: with its history of one request it is a test
of every order of validators and every combination of up to `MaxFaults` faults.  The
theorems about it lift the bound.

## 3. Runs

| Run | What it shows | Instance |
|---|---|---|
| `rate_limiter` | limits hold, queues are faithful, and the limiter implements `SlidingWindow` | 2 keys, 6 instants: one key with a limit of every kind and windows of 1, 2 and 3 ticks, one with a limit of 0 |
| `target_manager` | credentials and ids are unambiguous, dates never go back, deletion is final; reads and queries answered from copies meanwhile | five workloads: 3 cloud and 2 VuMark databases with one conflict of each kind; 1 database that is read; 2 databases that take each other's keys; 2 ids, 3 instants |
| `vws_concurrent` | what clients were told stays true | 2 threads, 1 line, 2 ids, quota 1, 2 instants |
| `vws_recreated` | the quota overshoot is bounded, also when a database is replaced by one of the same name with other keys and a quota of 0 | 2 threads, 1 line, 4 ids, 2 names, adds only |
| `vws_one_client` | quota and names hold and the contract is implemented | 1 thread, 2 databases, 2 ids, 2 names, 2 images, 3 instants, updates of each field |
| `vws_liveness` | every request is answered | 2 threads, 1 line, 1 id, 2 instants |
| `vws_quota` | *violation*: two concurrent adds exceed the quota | 2 threads, adds only |
| `model_targets` | limits, deletions, tokens, datasets and reports through lost and late calls and restarts; `DatasetLifecycle` is implemented | 2 threads, 1 line, 2 instants, limit 1; four workloads: 4 credentials; 2 credentials and tokens; 1 dataset; 2 reports |
| `model_target_download` | *violation*: a download during which processing ends is an internal error | the workload of datasets |
| `mock_vws` | routes, databases and rules through nested blocks and calls; `MockWorlds` is implemented | 2 cloud databases (quota 1 and 2), 1 VuMark database that conflicts with one; 3 levels, 3 databases added, 2 ids, 2 names, 2 instants |
| `mock_vws_state` | *violation*: a call whose set-up fails does not put the target manager back | the same |
| `request_pipelines` | which error, which crash, and what is stored | every request with up to 3 special things |

Bounds are `MaxClock` (guard of `Tick`), the finite sets of ids (`IdsLeft` and `Left`
keep a request to create something from being taken when no id is left for it),
`Lines` (a worker can give up only while a line is free), `MaxDepth` and `MaxAdded`
of `MockVws`, and `MaxFaults`.  Why they are enough:

- limiter: the longest window is 3 ticks and the clock reaches 5, so a queue is
  filled, overflows, expires at the exact boundary and is filled again; nothing
  in the code looks further back than one window.
- `target_manager`: no handler relates three databases or three targets; two ids
  give a target to change and another to leave alone, three instants an upload,
  a change and a deletion in every order.  No request reads databases of both
  reasons to conflict, so the workloads are kept apart.  `MCNext` lets clients
  pause between the reader's last copy and its answer: their changes do not reach
  the copy, so such a behaviour differs from one that is checked only in the
  order of two independent steps.
- `vws_concurrent`: two threads and one late call make three actors on one
  database, one more than any single check-then-act race needs.  The clock has
  two instants because a target is *processing* in the instant of its last
  modification (`ProcessingTime = 0`) and processed in the next.
- `vws_recreated`: four ids leave enough adds to fill the bound (quota 1: two
  threads and a line at once) and one to exceed it; two names, because with
  one the check of names would stop the adds that the check of the quota let by.
  There are no deletions in it: they only lower the number that is bounded.
- `model_targets`: a limit of 1 is exceeded by the first race; four credentials
  fill the bound of `LimitOvershootBounded` (limit, one other thread, one line) and
  leave one to exceed it.  `ProcessingTime = 1` gives a dataset an instant of
  processing and one after it; with a single uuid every route meets its dataset.
- `mock_vws`: three levels are a call in a call in a block and every other order;
  nothing relates a level to one but the next.  One conflict among three databases
  makes loading stop at the first, second or third.
- `request_pipelines`: a validator relates at most two attributes, and a wrong
  order of two validators shows on a request in which both have something to
  refuse; the third attribute is for the operation or handler behind them.

`vws_concurrent` has a `VIEW` that leaves out when targets were uploaded: no action
reads `upload_date` and, of the properties of that run, only the type invariant does,
so states which differ only in it have the same behaviours, and one of them is enough.
Symmetry over threads, ids and target managers is used in safety runs and in
`mock_vws` and `model_targets`, whose temporal property is a box formula; never with
liveness.  No run turns deadlock checking off.

**What the expected violations show.**

- `vws_quota`: `src/docs/source/differences-to-vws.rst:205` says that
  `TargetQuotaReached` is returned when a target is added to a database which already
  has `target_quota` targets.  Two concurrent adds are both checked before either is
  stored, and `create_target` checks nothing, so the second is carried out.  What
  does hold is `QuotaOvershootBounded`: targets and adds under way together exceed the
  quota by no more than the threads and given-up calls there are, for databases with
  a quota of at least one by one less.
- `model_target_download`: `src/docs/source/differences-to-vws.rst:323` says that a
  download of a dataset which is not ready reports its training status.
  `_model_target_web_api.py:1544` compares the status with `"done"` and line 1545
  computes it again as a dictionary key; when processing ends in between, `"done"`
  is no key and the `KeyError` is an internal error.
- `mock_vws_state`: the docstring at `decorators.py:258` says that the state which was
  there before the block is back once it ends.  `_fresh_state` replaces the target
  manager and loads the databases before the `try` whose `finally` puts it back.
  Two databases which conflict can both have been added, one of them inside a
  decorated call; the next call fails to load them and the instance keeps a
  half-loaded target manager.  The other properties of `MockVws` are stated up to
  the first such failure (`broken`).

**Other things the checks found**, which no run is expected to fail on:

- `OnlyKnownCrashes` lists the uncaught exceptions there are.  VWS: an
  `Authorization` header that is not two parts, a body that is not text, no body
  where keys are mandatory, an `active_flag` that is not hashable, an update to a
  name which two targets have, an infinite width, and an add whose image lacks its
  padding or whose flag is a number.  VWQ: no `Content-Length`, and an
  `Authorization` header with a space after its colon.  Datasets: a number of the
  body that is infinite or NaN, which `json.loads` reads, every check lets pass and
  `requests` refuses to post.  The list is of the faults the validators' modules name.
  What `json.loads` raises besides a `JSONDecodeError` (a body nested deeper than the
  interpreter recurses, an integer of more digits than it converts) is not one of
  them: nothing in the code catches it either.
- `AcknowledgedIsStored`: an update with an unpadded image or a numeric flag passes
  the validators, is refused by the target manager, and is answered with success.
- `CountedOnce`: a summary may leave a target out which is done while it counts;
  it never counts one twice, which rests on the order of its views.
- `DuplicatesProcessed`: a possible duplicate that fails between the two looks at
  its status is listed.
- `src/docs/source/differences-to-vws.rst:299` says that views of State-Based Model
  Targets require `guideViewPosition`; `_model_target_web_api.py` checks the field
  only where it is present (lines 1031 and 1057), and so does `DatasetValidators`.

**Fairness.**  `FairServiceSpec` assumes weak fairness of `Serve(w)` for each
thread: what a thread does on its own once it has a request.  Threads are
scheduled by the operating system, and `requests` has a timeout on every call, so a
thread which can go on does so.  Nothing is assumed of clients, of late calls, of
the clock or of databases.  A late call may stay on its line for ever.

## 4. Theorems

Each holds for every value of the constants that satisfies the `ASSUME`s: every set
of keys, limits, databases, ids, threads and lines, every depth and every clock.

- `RequestRateLimiterProofs`: `TypeCorrect`, `QueuesStayFaithful`,
  `RateLimitHolds`, `Refinement`.  `RateNeverExceeded` is not inductive: it speaks
  of the history while the code decides on the pruned queue.  `QueuesFaithful`
  connects them: a queue is the tail of the history, everything dropped had left
  the window when it was dropped (and so has left it now, the clock never going
  back), and the history is in order.  From it follow that a queue shorter than
  the limit means that the request `max_requests` places earlier is a window old
  (`RateNeverExceeded` is preserved), and that the queue is exhausted exactly when
  `SlidingWindow!HasRoom` is false, which is the refinement.  The least number of
  popped entries (`Expired` is a `CHOOSE`) exists by well-foundedness.
- `TargetManagerProofs`: `TypeCorrect`, `CredentialsStayUnique`, `IdsStayUnique`,
  `DatesStayMonotonic`, `DeletionStaysFinal`.  The step that all share is that a
  handler does to `targets` one of four things: adds a new target, replaces one by
  a copy with the same id and upload date, empties a database, or nothing.  Ids
  are unique only together with the strengthening that every id in use has been
  issued, and that is the invariant which is proved.  That dates never go back needs
  these ids, to know which target a copy is of, and `DatesPassed`: no date of a
  target lies in the future, so that a new date cannot be before an old one.
- `VwsServiceProofs`: `ServiceTypeCorrect`, `AckedDeletesStayFinal`,
  `AckedAddsStayKept`, `QuotaStaysBounded`.  A worker's step is summarised by
  `Becomes`: where it goes and what it then holds; one `...Effect` lemma for each
  action gives that and what the target manager does.  On ids, a step is one of six
  kinds (`IdStep`: places a target, issues an id, moves a call to a line, replaces a
  target, empties a database, or is quiet).  Then:
  - `IdsKept`: a call to add holds an id which was issued, which no target and no
    other call has.  A late call can therefore not bring back what was deleted.
  - `Gone(id)`, no target of that id is left undeleted and none is on its way, and
    `Located(id, name)`, it can only be in a database of this name, are stable.  A
    worker deleting a target has it located by its second copy, so that when its
    call is carried out, refused or comes to nothing, the target is gone
    (`DeletesKept`).  `AckedDeleteFinal` follows, as a request on a target that is
    gone is refused by the validators.
  - `Kept(id)`: the target is stored undeleted, or a request asked to delete it.
    A call to delete holds an id that was asked for, and only `RemoveDatabase` takes
    other targets; it takes them out of `acked_adds` too (`AddsKept`).
  - `QuotaStep`: in each step stored targets and pending adds of a database both do
    not grow, or an add is done, or the database has room when it gets one more.
- `VwsOneClientProofs`: `ContractImplemented`, `QuotaStaysRespected`,
  `NamesStayUnique`.  They assume one thread and no line for calls that are given up
  (`Alone`), as the run `vws_one_client` does: with two threads `QuotaRespected` is
  false, which the run `vws_quota` shows.  The strengthening is `Orderly`: types, ids
  and, above all, `UpToDate`, what the worker found when it validated, fetched and
  decided still holds when its call is carried out.  Nobody else changes anything in
  between; only time passes, and with time a status moves away from `processing` and
  never back.  So no fetch fails and a call reaches the very target it was decided
  for (`ServedAsDecided`), and each step is a step of `CloudTargetContract` or a
  stutter (`ContractStep`).  Quota and names are then kept because the steps of the
  contract keep them (`RulesPreserved`).
- `VwsReadsProofs`: `ReadsTypesCorrect`, `StableStaysServed`,
  `SummariesCountOnce`, `DeletedStaysUnserved`, `FirstMatchesStayReturned`,
  `DuplicatesStayProcessed`.  They are about `ReadsSpec`; the run takes a part of its
  steps.  Below all of them is `Base`: what is proved of the target manager, types,
  what the reader holds at each place, that its copy is finite, without two targets
  of one id, and true to the manager at the moment it was made, and that what was
  deleted when the request was sent stays deleted.  Each theorem then adds what the
  handler has learnt so far:
  - `StableIsServed`: as long as the target is there its database is the only one
    with its credentials, in every copy (`Stable`).
  - `CountedOnce`: the counts made so far add up to the size of a set of copies which
    no view still to come will count, since a status only ever settles (`Summing`).
  - `FirstMatchesReturned`: what was kept lies before what is left, both are in order,
    and everything that qualified when it was copied is among them (`Querying`).
  - `DuplicatesProcessed`: what each look at a status has ruled out (`Comparing`).
  `Sorted` is a `CHOOSE`, so that there is such a sequence has to be proved
  (`SortedExists`): a copy's place is the number of copies before it, which is an
  injection between finite sets of one size.
- `MockVwsProofs`: `TypeCorrect`, `RoutesAlwaysFollow`, `DatabasesStayAvailable`,
  `RulesStayKept`, `Refinement`.  `RoutesFollowState` needs what every level puts
  back (`Nested`: each call's saved target manager is the one of the level around it)
  and not only the innermost one; `DatabasesAvailable` that loading keeps the order of
  the databases added; `RulesKept` that snapshots keep the rules, which are put back
  long after they were taken.  The refinement maps each context to the targets it
  saved (`Saved`), a block to none; requests reach only databases that were added
  (`ReachableAdded`), which is why they are steps of `MockWorlds`.
- `ModelTargetServiceProofs`: `TypeCorrect`, `DeletedCredentialsStayGone`,
  `LimitStaysBounded`, `LimitKeptAlone`, `TokenScopesStayHeld`, `AckedDatasetsStayKept`,
  `DeletionsStayEffective`, `LifecycleImplemented`, `ReadyIsAlwaysServed`.  Types
  are kept together with what a worker does at each place of its program (`At`):
  its request, its copies and its call fit one another.  The rest looks at one store at a time:
  - Credentials: a step is quiet, creates a credential, asks to remove one, puts
    one or removes one (`CredentialStep`).  `DeletedCredentialGone` needs that an
    id in use was issued (`Known`), so that no creation brings a removed one back.
    `LimitOvershootBounded` needs that at most one call to put a credential is held
    by each thread and each line (`PutFew`), and that an update puts only an id
    which was stored when its copy was made.  `LimitKeptAlone` is what the docs
    promise (`docs/source/differences-to-vws.rst:268`), for one thread and no
    connection on which a call could go on.
  - Tokens: the scopes a credential gets are noted for every request under way, and
    the copy a request decides on is one of those noted (`TokenAt`).
  - Datasets: one call adds a dataset and nobody knows its uuid before it is answered
    (`AddedOnce`); calls to remove are for uuids whose deletion was asked for
    (`AskedKept`).  What was acknowledged can therefore be taken away by no other
    request, and what was deleted is added by none.  `LifecycleImplemented` adds that
    only what clients know of was asked to be deleted (`AskedKnown`): what a late
    call creates is therefore absent and not deleted, and each step is one of
    `DatasetLifecycle` or a stutter.
  - `ReadyIsServed`: what a worker was asked for and was ready then stays ready, in
    the store and in its copy (`DueKept`), reports only until the app restarts.

- `RequestPipelinesProofs`: `TypeCorrect`, `CrashesStayKnown`,
  `AcknowledgedStaysStored`, `KeysAlwaysComeFirst`, for every `MaxFaults` and so for
  every combination of faults.  `Raised(verdicts, error)` says which error the first
  validator to fail gives, and `InARow` what becomes of two pipelines one after the
  other.  Each `...Refused` lemma is about one group of validators: one that cannot
  cope with a value comes after one which refuses it, or the exception is known.
  What one group has let through is what the next assumes: a caller with keys, a target id that fits the route, a body that is
  an object, fields of the right types (`Typed`).  The invariant adds to the
  properties that a handler has only requests which every validator has passed
  (`HandledPassed`), and `ServicesHandled` compares its answer with what
  `ImageTarget` and the target manager accept.  The proofs about places in a
  pipeline leave the verdicts and `NoError` unexpanded: the provers do not find them
  when strings and positions are visible at once.

Assumptions are the `ASSUME`s of the modules, which TLC evaluates on every run: the
kinds of database are disjoint, threads and lines are finite and apart, bounds and
durations are natural numbers, no two target ids have the same place in their order,
clients use the images and changes there are, and the values that stand for `None`
are not among the values they are absent from.

Only model-checked: liveness under fairness (`RequestsAnswered`), which is out of the
prover's reach.

## 5. Not modelled, and abstractions to know about

- Image processing (`image_matchers.py`, `target_raters.py`, `_image_opening.py`):
  numerical, out of TLC's reach.  An image matches itself, and is one that is rated
  well or not.  The image of a VuMark instance and the lines of a report are left
  out: nothing depends on them.
- The bytes of requests: encodings, signatures and JSON are what the validators make
  of them, and `VwsService`, `VwsReads` and `ModelTargetService` take well-formed
  requests.  A null `active_flag` is kept in `VwsService` because the handler
  rejects it late, after the status.
- Constants, stateless conversions and the health check; `src/admin`, a maintenance
  script that sets up accounts at the real service.
- Project states and the request quota are in the pipeline only: they are fixed per
  database.
- Persistence: there is none.  A restart of the target manager empties it; a
  restart of the VWS app loses the history of the limiter (`Restart` of
  `RequestRateLimiter`) and the reports (`Restart` of `ModelTargetService`).
- The history of a limiter in the Docker form after its database was removed from
  the target manager: no document says whether it is to be kept, so there is nothing
  to check it against.
- HTTP connections that fail before they are sent are the late calls that are
  dropped.
- The order of iteration over sets of databases, where it could matter, is any.

## 6. Plan

What could follow, in this order:

1. Fairness for `ModelTargetService`: that every request is answered, as
   `RequestsAnswered` says of `VwsService`.
2. Runs with `GenerationFailure = TRUE` and with targets whose processing takes
   longer than one instant in `VwsService`.
